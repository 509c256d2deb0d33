-------------------------- MODULE MctpOwnEidProofs --------------------------
(***************************************************************************)
(* Proof that getOwnEIDs' callback keeps up with the services' own EIDs,   *)
(* for every value of the constants of MctpImpl.                           *)
(*                                                                         *)
(* A signal that is dropped does no harm because its sender is not matched *)
(* or a scan is yet to read the property; one that is handled late does    *)
(* none because signals of one sender keep their order.                    *)
(***************************************************************************)
EXTENDS MctpImplProofs

\* Whoever is matched, scanned for or heard is watched.
WatchInv ==
  /\ (\E c \in Callers : scan[c].pc # "idle") => watching
  /\ isInitialisationsDone => watching
  /\ matchedBuses # {} => watching
  /\ (\E n \in Name : Pending(n) # {}) => watching

\* Signals of matched services are dropped only while the first scan is going
\* to read the properties.
DropInv ==
  /\ matchedBuses # {} /\ ~isInitialisationsDone => Collecting
  /\ \A c \in Callers : scan[c].pc = "objects" => isInitialisationsDone

\* The last unread change signal of a running service carries its own EID.
Newest(n) ==
  Pending(n) # {} =>
    \E i \in Pending(n) :
      inbox[i].own = ownEid[n[1]] /\ \A j \in Pending(n) : j <= i

NewestInv == \A n \in Name : n[2] # 0 /\ Reachable(n) => Newest(n)

\* The value reported last under n is the service's, unless a read failed since.
Reported(n) == ~ownReported[n].missed => ownReported[n].eid = ownEid[n[1]]

\* Without an unread signal the value reported last is the service's.
ReportedInv ==
  eidChangeCallback /\ ~Collecting =>
    \A n \in Serving : Pending(n) = {} => Reported(n)

OwnInv == TypeInv /\ LifeInv /\ WatchInv /\ DropInv /\ NewestInv /\ ReportedInv

-----------------------------------------------------------------------------
(* The inbox. *)

\* Unread signals after the oldest message is gone.
LEMMA PendingTail ==
  ASSUME inbox \in Seq(Message), inbox # <<>>, inbox' = Tail(inbox), NEW n
  PROVE  /\ \A i \in Pending(n)' : i \in Nat \ {0} /\ i + 1 \in Pending(n) /\ inbox'[i] = inbox[i + 1]
         /\ \A i \in Pending(n) : i \in Nat \ {0}
         /\ \A i \in Pending(n) : i # 1 => i - 1 \in Pending(n)' /\ inbox'[i - 1] = inbox[i]
         /\ 1 \in Pending(n) <=> inbox[1].type = "eidChanged" /\ inbox[1].from = n
BY DEF Pending

\* Unread signals after a message arrived that is not a change of n's.
LEMMA PendingAppend ==
  ASSUME inbox \in Seq(Message), NEW m, inbox' = Append(inbox, m), NEW n,
         ~(m.type = "eidChanged" /\ m.from = n)
  PROVE  /\ Pending(n)' = Pending(n)
         /\ \A i \in Pending(n) : inbox'[i] = inbox[i]
BY DEF Pending

\* Reading a message keeps Newest.
LEMMA NewestTail ==
  ASSUME inbox \in Seq(Message), inbox # <<>>, inbox' = Tail(inbox), NEW n,
         UNCHANGED ownEid, Newest(n)
  PROVE  Newest(n)'
<1> SUFFICES ASSUME NEW k \in Pending(n)'
             PROVE  \E i \in Pending(n)' :
                      inbox'[i].own = ownEid[n[1]] /\ \A j \in Pending(n)' : j <= i
  BY DEF Newest
<1>1. k \in Nat \ {0} /\ k + 1 \in Pending(n)
  BY PendingTail
<1>2. PICK i \in Pending(n) :
        inbox[i].own = ownEid[n[1]] /\ \A j \in Pending(n) : j <= i
  BY <1>1 DEF Newest
<1>3. i \in Nat /\ k + 1 <= i
  <2>1. i \in Nat
    BY <1>2, PendingTail
  <2>2. k + 1 <= i
    BY <1>1, <1>2
  <2> QED
    BY <2>1, <2>2
<1>4. i - 1 \in Pending(n)' /\ inbox'[i - 1] = inbox[i]
  <2>1. i # 1
    BY <1>1, <1>3
  <2>2. \A j \in Pending(n) :
          j # 1 => j - 1 \in Pending(n)' /\ inbox'[j - 1] = inbox[j]
    BY PendingTail
  <2> QED
    BY <2>1, <2>2, Zenon
<1>5. ASSUME NEW j \in Pending(n)'
      PROVE  j <= i - 1
  <2>1. j \in Nat /\ j + 1 \in Pending(n)
    BY PendingTail
  <2> QED
    BY <1>2, <1>3, <2>1
<1> QED
  BY <1>2, <1>4, <1>5

\* Any other message that arrives keeps Newest.
LEMMA NewestAppend ==
  ASSUME inbox \in Seq(Message), NEW m, inbox' = Append(inbox, m), NEW n,
         ~(m.type = "eidChanged" /\ m.from = n), ownEid'[n[1]] = ownEid[n[1]],
         Newest(n)
  PROVE  Newest(n)'
<1>1. Pending(n)' = Pending(n) /\ \A i \in Pending(n) : inbox'[i] = inbox[i]
  BY PendingAppend
<1>2. CASE Pending(n) = {}
  BY <1>1, <1>2 DEF Newest
<1>3. CASE Pending(n) # {}
  <2>1. PICK i \in Pending(n) :
          inbox[i].own = ownEid[n[1]] /\ \A j \in Pending(n) : j <= i
    BY <1>3 DEF Newest
  <2>2. i \in Pending(n)' /\ inbox'[i].own = ownEid'[n[1]]
    BY <1>1, <2>1
  <2>3. \A j \in Pending(n)' : j <= i
    BY <1>1, <2>1
  <2> QED
    BY <2>2, <2>3 DEF Newest
<1> QED
  BY <1>2, <1>3

\* A change signal that arrives is the newest.
LEMMA NewestChange ==
  ASSUME inbox \in Seq(Message), NEW m, inbox' = Append(inbox, m), NEW n,
         m.type = "eidChanged", m.from = n, m.own = ownEid'[n[1]]
  PROVE  Newest(n)' /\ Pending(n)' # {}
<1> DEFINE last == Len(inbox) + 1
<1>1. last \in Pending(n)' /\ inbox'[last] = m
  BY DEF Pending
<1>2. \A j \in Pending(n)' : j <= last
  BY DEF Pending
<1> QED
  BY <1>1, <1>2 DEF Newest

-----------------------------------------------------------------------------
(* Handling a message. *)

\* A read of its own EID leaves a service reported, and the others as they were.
LEMMA ReadReports ==
  ASSUME NEW names, NEW n \in Name, UNCHANGED ownEid,
         ReadOwnEids(names) \/ (eidChangeCallback /\ ReadOwnEidsAgain(names))
  PROVE  /\ n \in names => Reported(n)'
         /\ n \notin names => ownReported'[n] = ownReported[n]
<1>1. PICK answered \in Answering(names) : ownReported' = OwnEidsRead(names, answered)
  BY DEF ReadOwnEids, ReadOwnEidsAgain
<1>2. answered \subseteq names
  BY DEF Answering
<1> QED
  BY <1>1, <1>2 DEF OwnEidsRead, Reported

\* A scan's step that is not still collecting has asked every matched service.
LEMMA BuildMapAsks ==
  ASSUME TypeInv, NEW c \in Callers, NEW buses, NEW found, BuildMap(c, buses, found)
  PROVE  Collecting' \/ ReadOwnEidsAgain(matchedBuses')
<1>1. CASE Suspend(c, "objects", {}, buses, found)
  BY <1>1 DEF Suspend, Collecting, TypeInv, TypeOK
<1> QED
  BY <1>1 DEF BuildMap, FinishDetect

LEMMA FindBusesAsks ==
  ASSUME TypeInv, NEW c \in Callers, NEW todo, NEW buses, FindBuses(c, todo, buses)
  PROVE  /\ Collecting' \/ ReadOwnEidsAgain(matchedBuses')
         /\ Collecting' \/ isInitialisationsDone'
         /\ isInitialisationsDone => isInitialisationsDone'
<1>1. ASSUME NEW left, NEW next, Suspend(c, "owner", left, next, EmptyMap)
      PROVE  Collecting'
  BY <1>1 DEF Suspend, Collecting, TypeInv, TypeOK
<1>2. ASSUME isInitialisationsDone' = TRUE, BuildMap(c, buses, EmptyMap)
      PROVE  Collecting' \/ ReadOwnEidsAgain(matchedBuses')
  BY <1>2, BuildMapAsks
<1>3. CASE isInitialisationsDone' = TRUE /\ BuildMap(c, buses, EmptyMap)
  BY <1>2, <1>3
<1>4. ASSUME NEW left, NEW next, Suspend(c, "owner", left, next, EmptyMap),
             UNCHANGED isInitialisationsDone
      PROVE  Collecting' /\ (isInitialisationsDone => isInitialisationsDone')
  BY <1>1, <1>4
<1> QED
  BY <1>3, <1>4 DEF FindBuses

\* Where scan c stands after such a step; the others stay where they are.
LEMMA BuildMapScan ==
  ASSUME TypeInv, NEW c \in Callers, NEW buses, NEW found, BuildMap(c, buses, found)
  PROVE  \A d \in Callers : d # c => scan'[d] = scan[d]
BY DEF BuildMap, Suspend, Return, TypeInv, TypeOK

LEMMA FindBusesScan ==
  ASSUME TypeInv, NEW c \in Callers, NEW todo, NEW buses, FindBuses(c, todo, buses)
  PROVE  /\ \A d \in Callers : d # c => scan'[d] = scan[d]
         /\ scan'[c].pc = "objects" => isInitialisationsDone'
<1>1. CASE BuildMap(c, buses, EmptyMap) /\ isInitialisationsDone' = TRUE
  BY <1>1, BuildMapScan
<1>2. ASSUME NEW left, NEW next, Suspend(c, "owner", left, next, EmptyMap)
      PROVE  /\ \A d \in Callers : d # c => scan'[d] = scan[d]
             /\ scan'[c].pc = "owner"
  BY <1>2 DEF Suspend, TypeInv, TypeOK
<1> QED
  BY <1>1, <1>2 DEF FindBuses

\* A step of a scan that was asked to run keeps what concerns own EIDs.
LEMMA ScanOwn ==
  ASSUME OwnInv, TypeInv', NEW c \in Callers, scan[c].pc # "idle",
         inbox # <<>>, inbox' = Tail(inbox),
         UNCHANGED <<up, life, ownEid, watching, eidChangeCallback>>,
         \A d \in Callers : d # c => scan'[d] = scan[d],
         scan'[c].pc = "objects" => isInitialisationsDone',
         isInitialisationsDone => isInitialisationsDone',
         Collecting' \/ isInitialisationsDone',
         Collecting' \/ ReadOwnEidsAgain(matchedBuses')
  PROVE  WatchInv' /\ DropInv' /\ ReportedInv'
<1>1. watching'
  BY DEF OwnInv, WatchInv
<1>2. WatchInv'
  BY <1>1 DEF WatchInv
<1>3. DropInv'
  BY DEF OwnInv, DropInv
<1>4. ReportedInv'
  <2> SUFFICES ASSUME eidChangeCallback, ~Collecting', NEW n \in Serving'
               PROVE  Reported(n)'
    BY DEF ReportedInv
  <2>1. n \in matchedBuses' /\ n \in Name /\ Reachable(n)
    BY DEF Serving, Reachable, TypeInv, TypeOK
  <2> QED
    BY <2>1, ReadReports
<1> QED
  BY <1>2, <1>3, <1>4

\* A handler that leaves the scans alone and may drop its message.
LEMMA HandlerOwn ==
  ASSUME OwnInv, TypeInv', inbox # <<>>, inbox' = Tail(inbox),
         UNCHANGED <<up, life, ownEid, watching, eidChangeCallback, scan,
                     isInitialisationsDone>>,
         matchedBuses' # {} => isInitialisationsDone \/ matchedBuses' \subseteq matchedBuses,
         \A n \in Serving' : ~Collecting =>
           \/ eidChangeCallback => Reported(n)'
           \/ /\ n \in matchedBuses /\ ownReported'[n] = ownReported[n]
              /\ ~(inbox[1].type = "eidChanged" /\ inbox[1].from = n)
           \/ Pending(n)' # {}
  PROVE  WatchInv' /\ DropInv' /\ ReportedInv'
<1>1. \A n \in Name : Pending(n)' # {} => Pending(n) # {}
  BY PendingTail DEF OwnInv, TypeInv, TypeOK, BusTypeOK
<1>2. WatchInv'
  BY <1>1 DEF OwnInv, WatchInv
<1>3. DropInv'
  BY DEF OwnInv, DropInv, Collecting
<1>4. ReportedInv'
  <2> SUFFICES ASSUME eidChangeCallback, ~Collecting, NEW n \in Serving', Pending(n)' = {}
               PROVE  Reported(n)'
    BY DEF ReportedInv, Collecting
  <2>1. CASE /\ n \in matchedBuses /\ ownReported'[n] = ownReported[n]
             /\ ~(inbox[1].type = "eidChanged" /\ inbox[1].from = n)
    <3>1. n \in Serving
      BY <2>1 DEF Serving, Reachable
    <3>2. \A i \in Pending(n) : i # 1 /\ i - 1 \in Pending(n)'
      BY <2>1, PendingTail, Zenon DEF OwnInv, TypeInv, TypeOK, BusTypeOK
    <3>3. Pending(n) = {}
      BY <3>2
    <3> QED
      BY <2>1, <3>1, <3>3 DEF OwnInv, ReportedInv, Reported
  <2> QED
    BY <2>1
<1> QED
  BY <1>2, <1>3, <1>4

\* Handling a message keeps what concerns own EIDs.
LEMMA OwnDispatch ==
  ASSUME OwnInv, TypeInv', Dispatch
  PROVE  WatchInv' /\ DropInv' /\ NewestInv' /\ ReportedInv'
<1> DEFINE m == Head(inbox)
<1> USE DEF OwnInv
<1>1. /\ m \in Message /\ inbox \in Seq(Message)
      /\ inbox # <<>> /\ inbox' = Tail(inbox) /\ m = inbox[1]
      /\ UNCHANGED <<up, life, ownEid, watching>>
  BY DEF Dispatch, TypeInv, TypeOK, BusTypeOK
<1> HIDE DEF m
<1>2. NewestInv'
  BY <1>1, NewestTail DEF NewestInv, Reachable
<1>3. CASE OnServices(m)
  <2>1. /\ m.to \in Callers /\ scan[m.to].pc # "idle"
        /\ FindBuses(m.to, m.services, <<>>) /\ UNCHANGED eidChangeCallback
    BY <1>1, <1>3, MessageFields DEF OnServices
  <2> QED
    BY <1>1, <1>2, <2>1, FindBusesAsks, FindBusesScan, ScanOwn
<1>4. CASE OnMapperError(m)
  <2>1. /\ m.to \in Callers /\ scan[m.to].pc # "idle" /\ UNCHANGED eidChangeCallback
        /\ isInitialisationsDone'
        /\ ReadOwnEidsAgain(matchedBuses')
    BY <1>1, <1>4, MessageFields DEF OnMapperError, FinishDetect
  <2>2. \A d \in Callers : d # m.to => scan'[d] = scan[d]
    BY <1>4, <2>1 DEF OnMapperError, Return, TypeInv, TypeOK
  <2> QED
    BY <1>1, <1>2, <2>1, <2>2, ScanOwn
<1>5. CASE OnOwner(m)
  <2>1. /\ m.to \in Callers /\ scan[m.to].pc # "idle"
        /\ FindBuses(m.to, scan[m.to].todo, scan[m.to].buses)
        /\ UNCHANGED eidChangeCallback
    BY <1>1, <1>5, MessageFields DEF OnOwner
  <2> QED
    BY <1>1, <1>2, <2>1, FindBusesAsks, FindBusesScan, ScanOwn
<1>6. ASSUME OnObjects(m) \/ OnObjectsError(m)
      PROVE  WatchInv' /\ DropInv' /\ ReportedInv'
  <2>1. /\ m.to \in Callers /\ scan[m.to].pc = "objects"
        /\ UNCHANGED <<eidChangeCallback, isInitialisationsDone>>
        /\ \E buses, found : BuildMap(m.to, buses, found)
    BY <1>1, <1>6, MessageFields DEF OnObjects, OnObjectsError
  <2>2. isInitialisationsDone
    BY <2>1 DEF DropInv
  <2>3. /\ Collecting' \/ ReadOwnEidsAgain(matchedBuses')
        /\ \A d \in Callers : d # m.to => scan'[d] = scan[d]
    BY <2>1, BuildMapAsks, BuildMapScan
  <2> QED
    BY <1>1, <2>1, <2>2, <2>3, ScanOwn
<1>7. CASE OnNewService(m)
  <2>1. /\ isInitialisationsDone /\ m.type = "serviceAdded" /\ m.from \in Name
        /\ matchedBuses' = matchedBuses \cup {m.from}
        /\ ReadOwnEidsAgain({m.from})
        /\ UNCHANGED <<eidChangeCallback, scan, isInitialisationsDone>>
    BY <1>1, <1>7, MessageFields DEF OnNewService
  <2>2. ASSUME NEW n \in Serving'
        PROVE  \/ eidChangeCallback => Reported(n)'
               \/ n \in matchedBuses /\ ownReported'[n] = ownReported[n]
    <3>1. n \in matchedBuses \cup {m.from} /\ Reachable(n) /\ n \in Name
      BY <1>1, <2>1 DEF Serving, Reachable, TypeInv, TypeOK
    <3>2. CASE n = m.from
      BY <1>1, <2>1, <3>1, <3>2, ReadReports
    <3>3. CASE n # m.from
      BY <1>1, <2>1, <3>1, <3>3, ReadReports
    <3> QED
      BY <3>2, <3>3
  <2> QED
    BY <1>1, <1>2, <2>1, <2>2, HandlerOwn
<1>8. ASSUME UNCHANGED <<eidChangeCallback, scan, isInitialisationsDone, ownReported>>,
             matchedBuses' \subseteq matchedBuses,
             ~(m.type = "eidChanged" /\ Heard(m))
      PROVE  WatchInv' /\ DropInv' /\ ReportedInv'
  <2>1. ASSUME NEW n \in Serving', ~Collecting
        PROVE  n \in matchedBuses /\ ~(m.type = "eidChanged" /\ m.from = n)
    <3>1. n \in matchedBuses
      BY <1>8 DEF Serving
    <3>2. isInitialisationsDone
      BY <2>1, <3>1 DEF DropInv
    <3> QED
      BY <1>8, <3>1, <3>2 DEF Heard
  <2> QED
    BY <1>1, <1>8, <2>1, HandlerOwn
<1>9. CASE OnOwnEIDChange(m)
  <2>1. /\ m.type = "eidChanged" /\ isInitialisationsDone /\ m.from \in Name
        /\ UNCHANGED <<eidChangeCallback, scan, isInitialisationsDone, matchedBuses>>
        /\ eidChangeCallback =>
             ownReported' = [ownReported EXCEPT ![m.from] =
                               [eid |-> m.own, missed |-> FALSE]]
        /\ ~eidChangeCallback => UNCHANGED ownReported
    BY <1>1, <1>9, MessageFields DEF OnOwnEIDChange, Heard
  <2>2. ASSUME NEW n \in Serving', ~Collecting, eidChangeCallback, Pending(n)' = {}
        PROVE  \/ Reported(n)'
               \/ /\ n \in matchedBuses /\ ownReported'[n] = ownReported[n]
                  /\ ~(inbox[1].type = "eidChanged" /\ inbox[1].from = n)
    <3>1. n \in matchedBuses /\ n \in Name /\ Reachable(n) /\ n[2] # 0
      BY <1>1, <2>1 DEF Serving, Reachable, TypeInv, TypeOK
    <3>2. CASE n = m.from
      <4>1. 1 \in Pending(n)
        BY <1>1, <2>1, <3>2, PendingTail
      <4>2. PICK i \in Pending(n) : inbox[i].own = ownEid[n[1]]
        BY <3>1, <4>1 DEF NewestInv, Newest
      <4>3. \A j \in Pending(n) : j # 1 => j - 1 \in Pending(n)'
        BY <1>1, PendingTail
      <4>4. i = 1
        BY <2>2, <4>3
      <4>5. ownReported'[n].eid = m.own
        BY <2>1, <2>2, <3>2 DEF TypeInv, TypeOK
      <4> QED
        BY <1>1, <4>2, <4>4, <4>5 DEF Reported
    <3>3. CASE n # m.from
      BY <1>1, <2>1, <2>2, <3>1, <3>3 DEF TypeInv, TypeOK
    <3> QED
      BY <3>2, <3>3
  <2>3. \A n \in Serving' : ~Collecting =>
           \/ eidChangeCallback => Reported(n)'
           \/ /\ n \in matchedBuses /\ ownReported'[n] = ownReported[n]
              /\ ~(inbox[1].type = "eidChanged" /\ inbox[1].from = n)
           \/ Pending(n)' # {}
    BY <2>2
  <2> QED
    BY <1>1, <1>2, <2>1, <2>3, HandlerOwn
<1>10. CASE OnNewEID(m)
  BY <1>2, <1>8, <1>10 DEF OnNewEID
<1>11. CASE OnEIDRemoved(m)
  BY <1>2, <1>8, <1>11 DEF OnEIDRemoved
<1>12. CASE OnServiceRemoved(m)
  BY <1>2, <1>8, <1>12 DEF OnServiceRemoved
<1>13. CASE IgnoreEvent(m)
  BY <1>2, <1>8, <1>13 DEF IgnoreEvent, libVars, appVars
<1>14. CASE OnMessageReceived(m)
  BY <1>2, <1>8, <1>14 DEF OnMessageReceived, appVars
<1> QED
  BY <1>2, <1>3, <1>4, <1>5, <1>6, <1>7, <1>9, <1>10, <1>11, <1>12, <1>13, <1>14
     DEF Dispatch, m

-----------------------------------------------------------------------------
(* The application, the services and the answers. *)

\* The application's calls keep what concerns own EIDs: getOwnEIDs asks every
\* matched service.
LEMMA OwnApplication ==
  ASSUME OwnInv, Application
  PROVE  WatchInv' /\ DropInv' /\ NewestInv' /\ ReportedInv'
<1> USE DEF OwnInv
<1>1. UNCHANGED <<inbox, up, life, ownEid, matchedBuses, isInitialisationsDone>>
  BY DEF Application, DetectMctpEndpoints, RegisterResponder, RegisterNothing,
         GetOwnEIDs, SetExtendedReceiveCallback, busVars, libVars
<1>2. NewestInv' /\ \A n : Pending(n)' = Pending(n)
  BY <1>1 DEF NewestInv, Newest, Reachable, Pending
<1>3. ASSUME UNCHANGED <<watching, scan, eidChangeCallback, ownReported>>
      PROVE  WatchInv' /\ DropInv' /\ ReportedInv'
  BY <1>1, <1>2, <1>3
     DEF WatchInv, DropInv, ReportedInv, Reported, Collecting, Serving, Reachable
<1>4. ASSUME NEW c \in Callers, DetectMctpEndpoints(c)
      PROVE  WatchInv' /\ DropInv' /\ ReportedInv'
  <2>1. /\ watching' = TRUE /\ UNCHANGED <<eidChangeCallback, ownReported>>
        /\ \A d \in Callers : d # c => scan'[d] = scan[d]
        /\ scan[c].pc = "idle" /\ scan'[c].pc = "services"
    BY <1>4 DEF DetectMctpEndpoints, listenForMCTPChanges, Suspend, appVars, TypeInv,
                TypeOK
  <2>2. Collecting' <=> Collecting
    BY <2>1 DEF Collecting
  <2> QED
    BY <1>1, <1>2, <2>1, <2>2
       DEF WatchInv, DropInv, ReportedInv, Reported, Serving, Reachable
<1>5. CASE GetOwnEIDs
  <2>1. UNCHANGED <<watching, scan>> /\ ReadOwnEids(matchedBuses)
    BY <1>5 DEF GetOwnEIDs, busVars
  <2>2. ReportedInv'
    BY <1>1, <2>1, ReadReports DEF ReportedInv, Serving, Reachable, TypeInv, TypeOK
  <2> QED
    BY <1>1, <1>2, <2>1, <2>2 DEF WatchInv, DropInv, Collecting
<1>6. CASE \E v \in Versions : RegisterResponder(v)
  BY <1>2, <1>3, <1>6 DEF RegisterResponder
<1>7. CASE RegisterNothing
  BY <1>2, <1>3, <1>7 DEF RegisterNothing, busVars, libVars
<1>8. CASE SetExtendedReceiveCallback
  BY <1>2, <1>3, <1>8 DEF SetExtendedReceiveCallback, busVars, libVars, appVars
<1> QED
  BY <1>2, <1>4, <1>5, <1>6, <1>7, <1>8 DEF Application

\* A message that is no change signal of a name that matters, or none at all,
\* keeps what concerns own EIDs while no service is restarted or changes.
LEMMA OtherOwn ==
  ASSUME OwnInv, NEW m, inbox' = inbox \/ inbox' = Append(inbox, m),
         m.type # "eidChanged", UNCHANGED <<watching, libVars, ownReported>>,
         \A n \in Name :
           n[2] # 0 /\ Reachable(n)' /\ (n \in matchedBuses \/ Pending(n) # {})
             => Reachable(n) /\ ownEid'[n[1]] = ownEid[n[1]]
  PROVE  WatchInv' /\ DropInv' /\ NewestInv' /\ ReportedInv'
<1> USE DEF OwnInv
<1>1. inbox \in Seq(Message)
  BY DEF TypeInv, TypeOK, BusTypeOK
<1>2. \A n : Pending(n)' = Pending(n) /\ \A i \in Pending(n) : inbox'[i] = inbox[i]
  BY <1>1, PendingAppend DEF Pending
<1>3. WatchInv' /\ DropInv'
  BY <1>2 DEF WatchInv, DropInv, Collecting, libVars
<1>4. NewestInv'
  <2> SUFFICES ASSUME NEW n \in Name, n[2] # 0, Reachable(n)', Pending(n) # {}
               PROVE  Newest(n)'
    BY <1>2 DEF NewestInv, Newest
  <2>1. Newest(n) /\ ownEid'[n[1]] = ownEid[n[1]]
    BY DEF NewestInv
  <2>2. PICK i \in Pending(n) :
          inbox[i].own = ownEid[n[1]] /\ \A j \in Pending(n) : j <= i
    BY <2>1 DEF Newest
  <2>3. i \in Pending(n)' /\ inbox'[i].own = ownEid'[n[1]]
    BY <1>2, <2>1, <2>2
  <2>4. \A j \in Pending(n)' : j <= i
    BY <1>2, <2>2
  <2> QED
    BY <2>3, <2>4 DEF Newest
<1>5. ReportedInv'
  BY <1>2 DEF ReportedInv, Reported, Collecting, Serving, libVars, TypeInv, TypeOK
<1> QED
  BY <1>3, <1>4, <1>5

\* The services' steps keep what concerns own EIDs.
LEMMA OwnServiceStep ==
  ASSUME OwnInv, NEW w \in Services, ServiceStep(w), UNCHANGED <<libVars, appVars>>
  PROVE  WatchInv' /\ DropInv' /\ NewestInv' /\ ReportedInv'
<1> USE DEF OwnInv
<1>1. inbox \in Seq(Message) /\ UNCHANGED <<libVars, ownReported>>
  BY DEF TypeInv, TypeOK, BusTypeOK, appVars
<1>2. ASSUME NEW n \in Name, n[2] # 0, Reachable(n)',
             n \in matchedBuses \/ Pending(n) # {}
      PROVE  Reachable(n) /\ (StartService(w) => n[1] # w)
  <2>1. Started(n, life)
    <3>1. CASE n \in matchedBuses
      BY <3>1 DEF LifeInv
    <3>2. ASSUME NEW i \in Pending(n)
          PROVE  Started(n, life)
      <4>1. /\ i \in DOMAIN inbox /\ inbox[i].type = "eidChanged"
            /\ inbox[i].from = n /\ StartedMessage(inbox[i], life)
        BY DEF Pending, LifeInv
      <4> QED
        BY <4>1 DEF StartedMessage
    <3> QED
      BY <1>2, <3>1, <3>2
  <2> QED
    BY <1>2, <2>1, StaysReachable
<1>3. CASE ~ChangeOwnEid(w)
  <2>1. \A n \in Name : (StartService(w) => n[1] # w) => ownEid'[n[1]] = ownEid[n[1]]
    <3>1. CASE StartService(w)
      <4>1. PICK own \in OwnEids : ownEid' = [ownEid EXCEPT ![w] = own]
        BY <3>1 DEF StartService
      <4>2. \A x \in Services \ {w} : ownEid'[x] = ownEid[x]
        BY <4>1 DEF TypeInv, TypeOK, BusTypeOK
      <4>3. \A n \in Name : n[1] \in Services
        BY DEF Name
      <4> QED
        BY <3>1, <4>2, <4>3
    <3>2. CASE ~StartService(w)
      <4>1. UNCHANGED ownEid
        BY <1>3, <3>2 DEF ServiceStep, StopService, CrashService, AddEndpoint,
                          RemoveEndpoint, SendMessage
      <4> QED
        BY <4>1
    <3> QED
      BY <3>1, <3>2
  <2>2. PICK m : /\ m.type # "eidChanged"
                 /\ inbox' = inbox \/ inbox' = Append(inbox, m)
    <3>1. ASSUME NEW m, m.type # "eidChanged", Emit(m)
          PROVE  \E x : /\ x.type # "eidChanged"
                        /\ inbox' = inbox \/ inbox' = Append(inbox, x)
      BY <3>1 DEF Emit
    <3>2. ASSUME inbox' = inbox
          PROVE  \E x : /\ x.type # "eidChanged"
                        /\ inbox' = inbox \/ inbox' = Append(inbox, x)
      <4>1. [type |-> "none"].type # "eidChanged"
        OBVIOUS
      <4> QED
        BY <3>2, <4>1
    <3> QED
      BY <1>3, <3>1, <3>2
         DEF ServiceStep, StartService, StopService, CrashService, AddEndpoint,
             RemoveEndpoint, SendMessage
  <2>3. UNCHANGED watching
    BY DEF ServiceStep, StartService, StopService, CrashService, AddEndpoint,
           RemoveEndpoint, ChangeOwnEid, SendMessage
  <2>4. \A n \in Name :
           n[2] # 0 /\ Reachable(n)' /\ (n \in matchedBuses \/ Pending(n) # {})
             => Reachable(n) /\ ownEid'[n[1]] = ownEid[n[1]]
    BY <1>2, <2>1
  <2>5. UNCHANGED <<watching, libVars, ownReported>>
    BY <1>1, <2>3
  <2> HIDE DEF OwnInv
  <2> QED
    BY <2>2, <2>4, <2>5, OtherOwn
<1>4. CASE ChangeOwnEid(w)
  <2>1. PICK own \in OwnEids :
          /\ ownEid' = [ownEid EXCEPT ![w] = own]
          /\ Emit([type |-> "eidChanged", from |-> Unique(w), own |-> own])
    BY <1>4 DEF ChangeOwnEid
  <2> DEFINE m == [type |-> "eidChanged", from |-> Unique(w), own |-> own]
  <2>2. /\ UNCHANGED <<up, life, watching>> /\ up[w]
        /\ m.type = "eidChanged" /\ m.from = Unique(w) /\ m.own = own
    BY <1>4 DEF ChangeOwnEid
  <2>3. ownEid'[w] = own /\ \A x \in Services \ {w} : ownEid'[x] = ownEid[x]
    BY <2>1 DEF TypeInv, TypeOK, BusTypeOK
  <2>4. /\ watching => inbox' = Append(inbox, m)
        /\ ~watching => inbox' = inbox
    BY <2>1 DEF Emit
  <2> HIDE DEF m
  <2>5. ASSUME NEW n \in Name, n[2] # 0, Reachable(n)
        PROVE  /\ Newest(n)'
               /\ n = Unique(w) /\ watching => Pending(n)' # {}
               /\ n # Unique(w) => Pending(n)' = Pending(n) /\ ownEid'[n[1]] = ownEid[n[1]]
    <3>1. CASE ~watching
      <4>1. Pending(n)' = {} /\ Pending(n) = {}
        BY <2>4, <3>1 DEF WatchInv, Pending
      <4>2. n # Unique(w) => n[1] \in Services \ {w}
        BY <2>5 DEF Reachable, Unique, Name
      <4> QED
        BY <2>3, <3>1, <4>1, <4>2 DEF Newest
    <3>2. CASE watching /\ n = Unique(w)
      <4>1. n[1] = w
        BY <3>2 DEF Unique
      <4> QED
        BY <1>1, <2>2, <2>3, <2>4, <3>2, <4>1, NewestChange
    <3>3. CASE watching /\ n # Unique(w)
      <4>1. n[1] \in Services \ {w}
        BY <2>5, <3>3 DEF Reachable, Unique, Name
      <4>2. Newest(n) /\ ownEid'[n[1]] = ownEid[n[1]]
        BY <2>3, <2>5, <4>1 DEF NewestInv
      <4> QED
        BY <1>1, <2>2, <2>4, <3>3, <4>2, NewestAppend, PendingAppend
    <3> QED
      BY <3>1, <3>2, <3>3
  <2>6. NewestInv'
    BY <2>2, <2>5 DEF NewestInv, Reachable
  <2>7. WatchInv'
    <3>1. ~watching => \A n : Pending(n)' = Pending(n)
      BY <2>4 DEF Pending
    <3> QED
      BY <2>2, <3>1 DEF WatchInv, libVars
  <2>8. DropInv'
    BY <1>1 DEF DropInv, Collecting, libVars
  <2>9. ReportedInv'
    <3> SUFFICES ASSUME eidChangeCallback, ~Collecting, NEW n \in Serving, Pending(n)' = {}
                 PROVE  Reported(n)'
      BY <1>1, <2>2 DEF ReportedInv, Collecting, Serving, Reachable, libVars
    <3>1. n \in Name /\ n[2] # 0 /\ Reachable(n) /\ watching
      BY DEF Serving, WatchInv, TypeInv, TypeOK
    <3>2. Pending(n) = {} /\ ownEid'[n[1]] = ownEid[n[1]]
      BY <2>5, <3>1
    <3> QED
      BY <1>1, <3>2 DEF ReportedInv, Reported
  <2> QED
    BY <2>6, <2>7, <2>8, <2>9
<1> QED
  BY <1>3, <1>4

\* An answer to a yielding call keeps what concerns own EIDs.
LEMMA OwnAnswer ==
  ASSUME OwnInv, NEW call \in calls, Answer(call), UNCHANGED <<libVars, appVars>>
  PROVE  WatchInv' /\ DropInv' /\ NewestInv' /\ ReportedInv'
<1>1. PICK reply : reply.type # "eidChanged" /\ AnswerCall(call, reply)
  <2>1. ErrorTo(call).type # "eidChanged"
    BY DEF ErrorTo
  <2>2. CASE AnswerGetObject(call)
    <3> DEFINE found == {w \in Bound : up[w]}
               reply == [type |-> "services", to |-> call.caller, services |-> found]
    <3>1. reply.type # "eidChanged"
      OBVIOUS
    <3>2. AnswerCall(call, ErrorTo(call)) \/ AnswerCall(call, reply)
      BY <2>2 DEF AnswerGetObject
    <3> HIDE DEF reply
    <3> QED
      BY <2>1, <3>1, <3>2
  <2>3. CASE AnswerGetNameOwner(call)
    <3> DEFINE reply == [type |-> "owner", to |-> call.caller,
                         owner |-> Unique(call.service)]
    <3>1. reply.type # "eidChanged"
      OBVIOUS
    <3>2. AnswerCall(call, ErrorTo(call)) \/ AnswerCall(call, reply)
      BY <2>3 DEF AnswerGetNameOwner
    <3> HIDE DEF reply
    <3> QED
      BY <2>1, <3>1, <3>2
  <2>4. CASE AnswerGetManagedObjects(call)
    <3> DEFINE reply == [type |-> "objects", to |-> call.caller,
                         eids |-> eps[call.service]]
    <3>1. reply.type # "eidChanged"
      OBVIOUS
    <3>2. AnswerCall(call, ErrorTo(call)) \/ AnswerCall(call, reply)
      BY <2>4 DEF AnswerGetManagedObjects
    <3> HIDE DEF reply
    <3> QED
      BY <2>1, <3>1, <3>2
  <2> QED
    BY <2>1, <2>2, <2>3, <2>4 DEF Answer, FailCall
<1>2. /\ inbox' = Append(inbox, reply) /\ UNCHANGED <<watching, libVars, ownReported>>
      /\ UNCHANGED <<up, life, ownEid>>
  BY <1>1 DEF AnswerCall, appVars
<1>3. \A n \in Name :
           n[2] # 0 /\ Reachable(n)' /\ (n \in matchedBuses \/ Pending(n) # {})
             => Reachable(n) /\ ownEid'[n[1]] = ownEid[n[1]]
  BY <1>2 DEF Reachable
<1> QED
  BY <1>1, <1>2, <1>3, OtherOwn

-----------------------------------------------------------------------------
(* The theorem. *)

LEMMA OwnInit == Init => OwnInv
<1> SUFFICES ASSUME Init PROVE OwnInv
  OBVIOUS
<1>1. TypeInv /\ LifeInv
  BY TypeInit, LifeInit
<1>2. \A n : Pending(n) = {}
  BY DEF Init, BusInit, Pending
<1>3. \A c \in Callers : scan[c].pc = "idle"
  BY DEF Init
<1>4. matchedBuses = {} /\ isInitialisationsDone = FALSE /\ eidChangeCallback = FALSE
  BY DEF Init
<1> QED
  BY <1>1, <1>2, <1>3, <1>4
     DEF OwnInv, WatchInv, DropInv, NewestInv, Newest, ReportedInv

LEMMA OwnStep ==
  ASSUME OwnInv, [Next]_vars
  PROVE  OwnInv'
<1>1. TypeInv' /\ LifeInv'
  BY TypeStep, LifeStep DEF OwnInv
<1>2. ASSUME UNCHANGED <<busVars, matchedBuses, isInitialisationsDone, scan,
                         eidChangeCallback, ownReported>>
      PROVE  WatchInv' /\ DropInv' /\ NewestInv' /\ ReportedInv'
  <2>1. \A n : Pending(n)' = Pending(n) /\ (Reachable(n)' <=> Reachable(n))
    BY <1>2 DEF busVars, Pending, Reachable
  <2>2. NewestInv'
    BY <1>2, <2>1 DEF OwnInv, NewestInv, Newest, busVars
  <2>3. WatchInv' /\ DropInv'
    BY <1>2, <2>1 DEF OwnInv, WatchInv, DropInv, Collecting, busVars
  <2>4. ReportedInv'
    BY <1>2, <2>1 DEF OwnInv, ReportedInv, Reported, Collecting, Serving, busVars
  <2> QED
    BY <2>2, <2>3, <2>4
<1>3. CASE Dispatch
  BY <1>1, <1>3, OwnDispatch DEF OwnInv
<1>4. CASE RunSpawned
  BY <1>1, <1>2, <1>4 DEF RunSpawned, OwnInv
<1>5. CASE Application
  BY <1>1, <1>5, OwnApplication DEF OwnInv
<1>6. CASE AnyService
  BY <1>1, <1>6, OwnServiceStep DEF AnyService, OwnInv
<1>7. ASSUME NEW c \in Callers, Answers(c)
      PROVE  OwnInv'
  BY <1>1, <1>7, OwnAnswer DEF Answers, OwnInv
<1>8. CASE UNCHANGED vars
  BY <1>1, <1>2, <1>8 DEF vars, libVars, appVars, OwnInv
<1> QED
  BY <1>3, <1>4, <1>5, <1>6, <1>7, <1>8 DEF Next

\* The own EID the application was told last of a running matched service is the
\* service's, or the signal that says so is still unread; however often services
\* restart and signals arrive before or during a scan, unless a read of the
\* property failed and nothing was told since.
THEOREM OwnEidsFresh == Spec => []OwnEidFresh
<1>1. OwnInv => OwnEidFresh
  <2> SUFFICES ASSUME OwnInv, eidChangeCallback, ~Collecting, NEW n \in Serving
               PROVE  IF Pending(n) = {}
                      THEN ~ownReported[n].missed => ownReported[n].eid = ownEid[n[1]]
                      ELSE \E i \in Pending(n) :
                             inbox[i].own = ownEid[n[1]] /\ \A j \in Pending(n) : j <= i
    BY DEF OwnEidFresh
  <2>1. n \in Name /\ n[2] # 0 /\ Reachable(n)
    BY DEF Serving, OwnInv, TypeInv, TypeOK
  <2>2. CASE Pending(n) = {}
    BY <2>2 DEF OwnInv, ReportedInv, Reported
  <2>3. CASE Pending(n) # {}
    BY <2>1, <2>3 DEF OwnInv, NewestInv, Newest
  <2> QED
    BY <2>2, <2>3
<1> QED
  BY <1>1, OwnInit, OwnStep, PTL DEF Spec

=============================================================================
