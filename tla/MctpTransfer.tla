---------------------------- MODULE MctpTransfer ----------------------------
(***************************************************************************)
(* The operations that use the endpoint map: requests, sends, bandwidth,   *)
(* discovery triggers, locations, and the copy of the map without network  *)
(* ids.  Each looks its device up when it is called and sends one D-Bus    *)
(* call to the service named there, while MctpImpl goes on changing the    *)
(* map and the services come and go.                                       *)
(*                                                                         *)
(* When a reply is handed on relative to other messages is left open: no   *)
(* completion looks at the state of the library.                           *)
(***************************************************************************)
EXTENDS MctpImplProps

CONSTANTS
  Requesters,    \* calls the application makes, each of any operation
  Timeouts,      \* milliseconds it asks for
  ReadsEidMap    \* does it call getEndpointMap?

ASSUME TransferAssumption ==
  /\ Timeouts \subseteq Int
  /\ ReadsEidMap \in BOOLEAN

VARIABLES
  transfer,      \* the state of each call
  localEidMap    \* the static map of getEndpointMap: eid -> service name

transferVars == <<transfer, localEidMap>>
allVars == <<vars, transferVars>>

-----------------------------------------------------------------------------
\* Calls that reach the service through the message bus, and those that have
\* an answer by the time they return.
Yielding == {"sendReceiveAsync", "sendReceiveYield", "sendAsync", "sendYield",
             "reserveBandwidth", "releaseBandwidth", "triggerMCTPDeviceDiscovery"}
Blocking == {"sendReceiveBlocked", "getDeviceLocation"}

\* "response": what the service answered; "io_error": the error the code makes
\* itself, whether an io_error, -1 or nullopt; "failed": the error of the D-Bus
\* call; "thrown": its exception.
Results == {"response", "io_error", "failed", "thrown"}

\* sent: on the bus for name, with the eid and timeout told; taken: with the
\* process of that unique name; answered: the result is on its way; done: the
\* callback was called or the call returned.  sure: it was made when nothing
\* was on its way, to a device that is wanted ever since.  told: the timeout that
\* the service was told, if any.
Idle == {[pc |-> "idle"]}
UnderWay ==
  [pc : {"sent", "taken"}, op : Yielding, device : DevIds, sure : BOOLEAN,
   told : SUBSET UInt16, name : Name, eid : Byte]
Ended ==
  [pc : {"answered", "done"}, op : Yielding \cup Blocking, device : DevIds,
   sure : BOOLEAN, told : SUBSET UInt16, result : Results]
Transfer == Idle \cup UnderWay \cup Ended

EidMap == [Eids -> Name \cup {NoService}]

TransferTypeOK ==
  /\ transfer \in [Requesters -> Transfer]
  /\ localEidMap \in EidMap

TransferInit ==
  /\ Init
  /\ transfer = [r \in Requesters |-> [pc |-> "idle"]]
  /\ localEidMap = [e \in Eids |-> NoService]

-----------------------------------------------------------------------------
(* The calls. *)

\* The overloads for a bare eid mean network 0.
ForEid(e) == DeviceID(e, 0)
Destinations == DevIds \cup {ForEid(e) : e \in Eids}

WantedDevices ==
  {d \in DevIds : \E w \in Services, e \in Eids :
     d = DeviceID(e, Network(w)) /\ Wanted(w, e)}

\* A call made now can be sure of its device.
Sure(d) == Quiet /\ d \in WantedDevices

\* Call r has this result.
Finished(r, pc, op, d, sure, told, result) ==
  transfer' = [transfer EXCEPT ![r] =
    [pc |-> pc, op |-> op, device |-> d, sure |-> sure, told |-> told,
     result |-> result]]

\* The service of the device, as the map names it now.
ServiceOf(d) == endpointMap[d]

\* static_cast<uint16_t>(timeout.count()).  Mutant: not narrowed.
NotNarrowed(t) == t
Narrowed(t) == t % 65536

\* The lookup and the call.  A device that is not in the map is an error at
\* once, and the callback is called before the function returns.
Request(r, op, d, told) ==
  /\ Settled
  /\ transfer[r].pc = "idle"
  /\ \/ /\ ServiceOf(d) = NoService
        /\ Finished(r, "done", op, d, Sure(d), {}, "io_error")
     \/ /\ ServiceOf(d) # NoService
        /\ transfer' = [transfer EXCEPT ![r] =
             [pc |-> "sent", op |-> op, device |-> d, sure |-> Sure(d),
              told |-> told, name |-> ServiceOf(d), eid |-> mctpEID(d)]]
  /\ UNCHANGED <<vars, localEidMap>>

SendReceiveAsync(r, d, t) == Request(r, "sendReceiveAsync", d, {Narrowed(t)})
SendReceiveYield(r, d, t) == Request(r, "sendReceiveYield", d, {Narrowed(t)})

SendAsync(r, d) == Request(r, "sendAsync", d, {})
SendYield(r, d) == Request(r, "sendYield", d, {})

\* Its timeout is a uint16_t already.
ReserveBandwidth(r, d, t) ==
  t \in UInt16 /\ Request(r, "reserveBandwidth", d, {t})
ReleaseBandwidth(r, d) == Request(r, "releaseBandwidth", d, {})

\* The application never learns what became of it.
TriggerMCTPDeviceDiscovery(r, d) ==
  Request(r, "triggerMCTPDeviceDiscovery", d, {})

\* The service the map names exports the device.
Exported(d) == Reachable(ServiceOf(d)) /\ mctpEID(d) \in eps[ServiceOf(d)[1]]

\* A blocking call has one of these results when it returns.
Blocked(r, op, d, told, results) ==
  /\ Settled
  /\ transfer[r].pc = "idle"
  /\ \/ /\ ServiceOf(d) = NoService
        /\ Finished(r, "done", op, d, Sure(d), {}, "io_error")
     \/ /\ ServiceOf(d) # NoService
        /\ \E result \in results : Finished(r, "done", op, d, Sure(d), told, result)
  /\ UNCHANGED <<vars, localEidMap>>

\* sendReceiveBlocked: an error reply becomes io_error, unless connection->call
\* throws it.
SendReceiveBlocked(r, d, t) ==
  Blocked(r, "sendReceiveBlocked", d, {Narrowed(t)},
    {x \in Results \ {"failed"} :
       IF x = "response" THEN Exported(d) ELSE ~Exported(d) \/ CallsMayFail})

\* getDeviceLocation: exceptions are caught; an empty location is none.
GetDeviceLocation(r, d) ==
  Blocked(r, "getDeviceLocation", d, {},
    {x \in {"response", "io_error"} : x = "response" => Exported(d)})

\* getEndpointMap: emplace keeps the entries that are there, whichever call made
\* them; of devices with the same eid one comes first.
Copied(e) ==
  IF localEidMap[e] # NoService THEN {localEidMap[e]}
  ELSE {endpointMap[d] : d \in {x \in Entries(endpointMap) : mctpEID(x) = e}}

GetEndpointMap ==
  /\ Settled
  /\ \E map \in EidMap :
       /\ \A e \in Eids :
            IF Copied(e) = {} THEN map[e] = NoService ELSE map[e] \in Copied(e)
       /\ localEidMap' = map
  /\ UNCHANGED <<vars, transfer>>

TransferCall ==
  \/ \E r \in Requesters, d \in Destinations :
       \/ \E t \in Timeouts :
            \/ SendReceiveAsync(r, d, t)
            \/ SendReceiveYield(r, d, t)
            \/ SendReceiveBlocked(r, d, t)
            \/ ReserveBandwidth(r, d, t)
       \/ SendAsync(r, d)
       \/ SendYield(r, d)
       \/ ReleaseBandwidth(r, d)
       \/ TriggerMCTPDeviceDiscovery(r, d)
       \/ GetDeviceLocation(r, d)
  \/ ReadsEidMap /\ GetEndpointMap

-----------------------------------------------------------------------------
(* What becomes of a call: the bus, the service, and the way back. *)

Answered(r, result) ==
  LET t == transfer[r]
  IN  /\ Finished(r, "answered", t.op, t.device, t.sure, t.told, result)
      /\ UNCHANGED <<vars, localEidMap>>

\* The bus hands it to the process that owns the name by now.
Deliver(r) ==
  LET t == transfer[r]
  IN  /\ t.pc = "sent"
      /\ \/ /\ Reachable(t.name)
            /\ transfer' = [transfer EXCEPT ![r] =
                 [pc |-> "taken", op |-> t.op, device |-> t.device, sure |-> t.sure,
                  told |-> t.told, name |-> Unique(t.name[1]), eid |-> t.eid]]
            /\ UNCHANGED <<vars, localEidMap>>
         \/ ~Reachable(t.name) /\ Answered(r, "failed")

\* The service passes it on to its endpoint, if it has it; a process that is
\* gone does not answer and the bus says so.
Serve(r) ==
  /\ transfer[r].pc = "taken"
  /\ LET w == transfer[r].name[1]
     IN  \/ /\ Reachable(transfer[r].name)
            /\ \/ transfer[r].eid \in eps[w]
               \/ transfer[r].op = "triggerMCTPDeviceDiscovery"
            /\ Answered(r, "response")
         \/ /\ \/ ~Reachable(transfer[r].name)
               \/ /\ transfer[r].eid \notin eps[w]
                  /\ transfer[r].op # "triggerMCTPDeviceDiscovery"
            /\ Answered(r, "failed")

\* No answer from the device, or from the service within the D-Bus timeout.
\* An answer that comes later is dropped by the bus.
TimeOut(r) ==
  /\ CallsMayFail
  /\ transfer[r].pc \in {"sent", "taken"}
  /\ Answered(r, "failed")

Carry(r) == Deliver(r) \/ Serve(r) \/ TimeOut(r)

\* The reply is dispatched: the callback is called or the coroutine resumed,
\* with what the D-Bus call returned.  Mutant: only if that is no error.
CompleteResponse(r) ==
  LET t == transfer[r]
  IN  /\ Settled
      /\ t.pc = "answered" /\ t.result = "response"
      /\ Finished(r, "done", t.op, t.device, t.sure, t.told, t.result)
      /\ UNCHANGED <<vars, localEidMap>>
Complete(r) ==
  LET t == transfer[r]
  IN  /\ Settled
      /\ t.pc = "answered"
      /\ Finished(r, "done", t.op, t.device, t.sure, t.told, t.result)
      /\ UNCHANGED <<vars, localEidMap>>

-----------------------------------------------------------------------------
\* The library and the services take a step; a call whose device is no longer
\* wanted is not sure any more.
Observed(step) ==
  /\ step
  /\ transfer' = [r \in Requesters |->
       IF transfer[r].pc = "idle" THEN transfer[r]
       ELSE [transfer[r] EXCEPT !.sure = @ /\ transfer[r].device \in WantedDevices']]
  /\ UNCHANGED localEidMap

TransferNext ==
  \/ Observed(Next)
  \/ TransferCall
  \/ \E r \in Requesters : Carry(r) \/ Complete(r)

\* As in MctpImpl; the bus carries every call, and the service, the bus or the
\* timeout answers it.  A reply waits behind finitely many messages, however
\* often the library is between a handler and the coroutine it spawned.
TransferFairness ==
  /\ WF_allVars(Observed(Dispatch))
  /\ WF_allVars(Observed(RunSpawned))
  /\ \A c \in Callers : WF_allVars(Observed(Answers(c)))
  /\ \A r \in Requesters : WF_allVars(Carry(r)) /\ SF_allVars(Complete(r))

TransferSpec == TransferInit /\ [][TransferNext]_allVars /\ TransferFairness

-----------------------------------------------------------------------------
(* Properties. *)

\* A call to a device that was wanted and there all the time, made when nothing
\* was on its way, is answered by it: the map named the service that has it, by
\* a name that still reaches it.
RequestAnswered ==
  \A r \in Requesters :
    LET t == transfer[r]
    IN  t.pc = "done" /\ t.op # "getDeviceLocation"
          => (t.sure => t.result = "response")

\* Every call returns or calls back, whatever becomes of its device and service.
RequestCompletes ==
  \A r \in Requesters : transfer[r].pc # "idle" ~> transfer[r].pc = "done"

\* "Get a reference to internaly maintained EndpointMap without network id":
\* what getEndpointMap returns are the eids in the endpoint map, each with the
\* service of a device of that eid.
EidMapAgrees ==
  [][GetEndpointMap =>
       \A e \in Eids, n \in Name :
         localEidMap'[e] = n
           => \E d \in Entries(endpointMap) : mctpEID(d) = e /\ endpointMap[d] = n]_allVars

=============================================================================
