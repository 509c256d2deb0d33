----------------------------- MODULE DeviceFeed -----------------------------
(***************************************************************************)
(* What a ReconfigurationCallback promises its application, without        *)
(* services, signals or scans: there is a list of devices; a scan renews   *)
(* it as a whole and the application reads it then; otherwise it changes   *)
(* by one device at a time and each change is told before the next one.    *)
(* MctpImpl implements it in a build where spawned coroutines run at once. *)
(***************************************************************************)
EXTENDS Sequences

CONSTANT Devices

VARIABLES
  listed,   \* the devices in the list
  told,     \* the devices the application counts
  news      \* what is about to be told

feedVars == <<listed, told, news>>

News == [type : {"deviceAdded", "deviceRemoved"}, deviceId : Devices]

FeedInit == listed = {} /\ told = {} /\ news = <<>>

\* A device turns up.  It joins the list when it is told.
Announce(d) ==
  /\ news = <<>>
  /\ news' = <<[type |-> "deviceAdded", deviceId |-> d]>>
  /\ UNCHANGED <<listed, told>>

\* A device leaves the list, and this is yet to be told.
Withdraw(d) ==
  /\ news = <<>> /\ d \in listed
  /\ listed' = listed \ {d}
  /\ news' = <<[type |-> "deviceRemoved", deviceId |-> d]>>
  /\ UNCHANGED told

\* The callback is called.
Tell ==
  /\ news # <<>>
  /\ LET event == Head(news)
     IN  \/ /\ event.type = "deviceAdded"
            /\ listed' = listed \cup {event.deviceId}
            /\ told' = told \cup {event.deviceId}
         \/ /\ event.type = "deviceRemoved"
            /\ listed' = listed
            /\ told' = told \ {event.deviceId}
  /\ news' = Tail(news)

\* A scan returns, and the application reads the list it made.
Renew ==
  /\ news = <<>>
  /\ \E devices \in SUBSET Devices : listed' = devices /\ told' = devices
  /\ UNCHANGED news

FeedNext ==
  \/ \E d \in Devices : Announce(d) \/ Withdraw(d)
  \/ Tell
  \/ Renew

FeedSpec == FeedInit /\ [][FeedNext]_feedVars

-----------------------------------------------------------------------------
\* The application counts the devices in the list, but for a removal that it
\* is about to be told.
Agrees ==
  \/ news = <<>> /\ told = listed
  \/ \E d \in Devices :
       \/ /\ news = <<[type |-> "deviceAdded", deviceId |-> d]>>
          /\ told = listed
       \/ /\ news = <<[type |-> "deviceRemoved", deviceId |-> d]>>
          /\ told \ {d} = listed

=============================================================================
