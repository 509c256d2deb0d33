------------------------------ MODULE MctpBus -------------------------------
(***************************************************************************)
(* The world the library runs in, as far as its code depends on it: the    *)
(* MCTP services (mctpd processes) that own objects on D-Bus, the object   *)
(* mapper, and the message bus that hands the library one FIFO stream of   *)
(* signals and replies.  None of this is code of the repository.           *)
(*                                                                         *)
(* A service is known under two names.  Its well-known name stays the same *)
(* across restarts; its unique name is new at every start and is what      *)
(* msg.get_sender() yields.  <<w, 0>> is the well-known name of service w  *)
(* and <<w, n>> the unique name of its n-th start.                         *)
(*                                                                         *)
(* A blocking call of the library (new_method_call + call) is answered at  *)
(* once from the state of the service, or fails, and the signals that      *)
(* arrived before stay queued behind it; a yielding call is a record in    *)
(* calls until it is answered, and its reply queues up in inbox behind     *)
(* earlier signals.                                                        *)
(***************************************************************************)
EXTENDS Integers, Sequences, FiniteSets, DeviceIds, MctpConfig

CONSTANTS
  Services,      \* the MCTP services, by well-known name
  Bound,         \* those that expose the configured binding's interface
  BadBusPath,    \* those whose bus property getBusId cannot read or parse
  Refusing,      \* those that answer RegisterResponder with false
  NetworkID,     \* the NetworkID property of a service, or NoNetwork
  NoNetwork,     \* the service has no such property
  Eids,          \* endpoint ids
  Supporting,    \* those that support the configured message type
  VendorID,      \* the VendorID property of an endpoint object
  VendorTypes,   \* its MessageTypeProperty, the vendor's message types
  Headers,       \* headers of the messages endpoints send of their own accord
  OwnEids,       \* the values a service's own Eid property takes
  Versions,      \* responder version lists an application may register
  NoVersion,     \* no version list registered
  Callers,       \* coroutines that make yielding calls
  MaxLives,      \* bound: how often a service is started
  MaxInbox,      \* bound: unread messages before the services pause
  CallsMayFail   \* may a call to a live peer fail (25 s timeout), of either kind?

ASSUME BusAssumption ==
  /\ Bound \subseteq Services /\ BadBusPath \subseteq Services
  /\ Refusing \subseteq Services
  /\ NoNetwork \notin Byte
  /\ NetworkID \in [Services -> Byte \cup {NoNetwork}]
  /\ Eids \subseteq Byte /\ Supporting \subseteq Eids
  /\ VendorID \in [Eids -> Word] /\ VendorTypes \in [Eids -> SUBSET Word]
  /\ Headers \subseteq Header
  /\ NoVersion \notin Versions
  /\ MaxLives \in Nat \ {0} /\ MaxInbox \in Nat
  /\ CallsMayFail \in BOOLEAN

VARIABLES
  up,          \* is the service running?
  life,        \* how often it has been started
  eps,         \* endpoint objects it exports
  ownEid,      \* its own Eid property
  registered,  \* what the running service knows of our responder
  watching,    \* is the library's signal match installed?
  calls,       \* yielding calls on their way to a peer
  inbox        \* messages waiting in the library's connection

busVars == <<up, life, eps, ownEid, registered, watching, calls, inbox>>

-----------------------------------------------------------------------------
Name == Services \X (0 .. MaxLives)
WellKnown(w) == <<w, 0>>
Unique(w) == <<w, life[w]>>

\* The bus delivers a message sent to this name to a running process.
Reachable(n) == up[n[1]] /\ n[2] \in {0, life[n[1]]}

\* Of a blocking call to each of names, those that are answered.
Answering(names) ==
  LET live == {n \in names : Reachable(n)}
  IN  IF CallsMayFail THEN SUBSET live ELSE {live}

\* The versions a process has accepted for our message type, and whether a later
\* call to register with it failed; gone when it ends.
Registration == [versions : Versions \cup {NoVersion}, missed : BOOLEAN]
Unregistered == [versions |-> NoVersion, missed |-> FALSE]

Call ==
  [caller : Callers, method : {"GetObject"}]
    \cup [caller : Callers, method : {"GetNameOwner"}, service : Services]
    \cup [caller : Callers, method : {"GetManagedObjects"}, service : Services,
          life : 0 .. MaxLives]

Signal ==
  [type : {"serviceAdded", "serviceRemoved"}, from : Name]
    \cup [type : {"endpointAdded", "endpointRemoved"}, from : Name, eid : Eids]
    \cup [type : {"eidChanged"}, from : Name, own : OwnEids]
    \cup [type : {"message"}, from : Name, eid : Eids, header : Headers]

Reply ==
  [type : {"services"}, to : Callers, services : SUBSET Services]
    \cup [type : {"owner"}, to : Callers, owner : Name]
    \cup [type : {"objects"}, to : Callers, eids : SUBSET Eids]
    \cup [type : {"error"}, to : Callers]

Message == Signal \cup Reply

BusTypeOK ==
  /\ up \in [Services -> BOOLEAN]
  /\ life \in [Services -> 0 .. MaxLives]
  /\ eps \in [Services -> SUBSET Eids]
  /\ ownEid \in [Services -> OwnEids]
  /\ registered \in [Services -> Registration]
  /\ watching \in BOOLEAN
  /\ calls \in SUBSET Call
  /\ inbox \in Seq(Message)

\* The network a DeviceID of w should name; services without the property
\* share network 0.
Network(w) == IF NetworkID[w] = NoNetwork THEN 0 ELSE NetworkID[w]

\* No other service of w's network exports e: endpoint ids are unique there.
Unused(w, e) ==
  \A x \in Services \ {w} : e \in eps[x] => Network(x) # Network(w)

BusInit ==
  /\ up \in [Services -> BOOLEAN]
  /\ life = [w \in Services |-> IF up[w] THEN 1 ELSE 0]
  /\ eps \in [Services -> SUBSET Eids]
  /\ \A w \in Services : (~up[w] => eps[w] = {}) /\ \A e \in eps[w] : Unused(w, e)
  /\ ownEid \in [Services -> OwnEids]
  /\ registered = [w \in Services |-> Unregistered]
  /\ watching = FALSE /\ calls = {} /\ inbox = <<>>

-----------------------------------------------------------------------------
(* What the services do. *)

\* The match rule of listenForMCTPChanges selects every signal sent from
\* /xyz/openbmc_project/mctp; before it is installed they pass unseen.
Emit(m) ==
  /\ Len(inbox) < MaxInbox
  /\ inbox' = IF watching THEN Append(inbox, m) ELSE inbox

StartService(w) ==
  /\ ~up[w] /\ life[w] < MaxLives
  /\ up' = [up EXCEPT ![w] = TRUE]
  /\ life' = [life EXCEPT ![w] = @ + 1]
  /\ \E own \in OwnEids : ownEid' = [ownEid EXCEPT ![w] = own]
  /\ Emit([type |-> "serviceAdded", from |-> <<w, life[w] + 1>>])
  /\ UNCHANGED <<eps, registered, watching, calls>>

\* An orderly stop: the endpoints are gone already, and the service takes its
\* interfaces off the bus before it leaves.
StopService(w) ==
  /\ up[w] /\ eps[w] = {}
  /\ up' = [up EXCEPT ![w] = FALSE]
  /\ registered' = [registered EXCEPT ![w] = Unregistered]
  /\ Emit([type |-> "serviceRemoved", from |-> Unique(w)])
  /\ UNCHANGED <<life, eps, ownEid, watching, calls>>

\* The process dies: its objects vanish and no signal says so.
CrashService(w) ==
  /\ up[w]
  /\ up' = [up EXCEPT ![w] = FALSE]
  /\ eps' = [eps EXCEPT ![w] = {}]
  /\ registered' = [registered EXCEPT ![w] = Unregistered]
  /\ UNCHANGED <<life, ownEid, watching, calls, inbox>>

AddEndpoint(w, e) ==
  /\ up[w] /\ e \notin eps[w]
  /\ Unused(w, e)
  /\ eps' = [eps EXCEPT ![w] = @ \cup {e}]
  /\ Emit([type |-> "endpointAdded", from |-> Unique(w), eid |-> e])
  /\ UNCHANGED <<up, life, ownEid, registered, watching, calls>>

RemoveEndpoint(w, e) ==
  /\ up[w] /\ e \in eps[w]
  /\ eps' = [eps EXCEPT ![w] = @ \ {e}]
  /\ Emit([type |-> "endpointRemoved", from |-> Unique(w), eid |-> e])
  /\ UNCHANGED <<up, life, ownEid, registered, watching, calls>>

ChangeOwnEid(w) ==
  /\ up[w]
  /\ \E own \in OwnEids \ {ownEid[w]} :
       /\ ownEid' = [ownEid EXCEPT ![w] = own]
       /\ Emit([type |-> "eidChanged", from |-> Unique(w), own |-> own])
  /\ UNCHANGED <<up, life, eps, registered, watching, calls>>

\* What endpoint e may send: messages of a type it supports, and as the vendor
\* asked for only if it is of that vendor, of the types it lists.
Speaks(e, header) ==
  /\ header.type = MsgType => e \in Supporting
  /\ header.type = vdpci /\ header.vendorId \in Vid =>
       header.vendorId = VendorID[e] /\ header.vendorMessageId \in VendorTypes[e]

\* MessageReceivedSignal: a message that answers no request of ours.
SendMessage(w, e) ==
  /\ up[w] /\ e \in eps[w]
  /\ \E header \in Headers :
       /\ Speaks(e, header)
       /\ Emit([type |-> "message", from |-> Unique(w), eid |-> e,
                header |-> header])
  /\ UNCHANGED <<up, life, eps, ownEid, registered, watching, calls>>

-----------------------------------------------------------------------------
(* How yielding calls are answered: by the mapper, the bus or a service. *)

AnswerCall(call, reply) ==
  /\ calls' = calls \ {call}
  /\ inbox' = Append(inbox, reply)
  /\ UNCHANGED <<up, life, eps, ownEid, registered, watching>>

ErrorTo(call) == [type |-> "error", to |-> call.caller]

\* ObjectMapper.GetObject: the services with the binding's interface, an error
\* if there is none.
AnswerGetObject(call) ==
  /\ call.method = "GetObject"
  /\ LET found == {w \in Bound : up[w]}
     IN  AnswerCall(call, IF found = {} THEN ErrorTo(call)
                          ELSE [type |-> "services", to |-> call.caller,
                                services |-> found])

AnswerGetNameOwner(call) ==
  /\ call.method = "GetNameOwner"
  /\ AnswerCall(call, IF up[call.service]
                      THEN [type |-> "owner", to |-> call.caller,
                            owner |-> Unique(call.service)]
                      ELSE ErrorTo(call))

\* The call reached the process that owned the name when it was made.
AnswerGetManagedObjects(call) ==
  /\ call.method = "GetManagedObjects"
  /\ AnswerCall(call, IF up[call.service] /\ life[call.service] = call.life
                      THEN [type |-> "objects", to |-> call.caller,
                            eids |-> eps[call.service]]
                      ELSE ErrorTo(call))

FailCall(call) == CallsMayFail /\ AnswerCall(call, ErrorTo(call))

Answer(call) ==
  \/ AnswerGetObject(call)
  \/ AnswerGetNameOwner(call)
  \/ AnswerGetManagedObjects(call)
  \/ FailCall(call)

=============================================================================
