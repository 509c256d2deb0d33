------------------------- MODULE MctpTransferProofs -------------------------
(***************************************************************************)
(* Proofs about MctpTransfer for every value of its constants.  Its steps  *)
(* are steps of MctpImpl, so the invariants proved there hold here.        *)
(***************************************************************************)
EXTENDS MctpTransfer, MctpTrackProofs

-----------------------------------------------------------------------------
(* Records. *)

\* Where a call is tells what its record holds.
LEMMA TransferCases ==
  /\ [pc |-> "idle"] \in Idle
  /\ \A t \in Idle : t.pc = "idle"
  /\ \A t \in UnderWay : t.pc \in {"sent", "taken"}
  /\ \A t \in Ended : t.pc \in {"answered", "done"}
<1>1. [pc |-> "idle"] \in Idle /\ \A t \in Idle : t.pc = "idle"
  BY DEF Idle
<1>2. \A t \in UnderWay : t.pc \in {"sent", "taken"}
  BY DEF UnderWay
<1>3. \A t \in Ended : t.pc \in {"answered", "done"}
  BY DEF Ended
<1> QED
  BY <1>1, <1>2, <1>3

\* Networks are numbered in a byte, devices in a word.
LEMMA DeviceFacts ==
  ASSUME NEW d \in Destinations
  PROVE  d \in DevIds /\ mctpEID(d) \in Byte
<1>1. \A e \in Eids : ForEid(e) \in DevIds
  BY DEF ForEid, DevIds, Networks
<1>2. d \in DevIds
  BY <1>1 DEF Destinations
<1>3. PICK e \in Eids, n \in Networks : d = DeviceID(e, n)
  BY <1>2 DEF DevIds
<1>4. e \in Byte /\ n \in Byte
  BY BusAssumption DEF Networks, Byte
<1>5. d \in Int
  BY <1>3, <1>4 DEF DeviceID, Byte
<1> QED
  BY <1>2, <1>5 DEF mctpEID, Byte

\* Knowing whether a call is sure of its device is a matter of yes or no.
LEMMA SureType == \A d : Sure(d) \in BOOLEAN
BY DEF Sure

\* A call that is given a result keeps the types.
LEMMA FinishedType ==
  ASSUME TransferTypeOK, UNCHANGED localEidMap, NEW r \in Requesters,
         NEW pc \in {"answered", "done"}, NEW op \in Yielding \cup Blocking,
         NEW d \in DevIds, NEW sure \in BOOLEAN, NEW told \in SUBSET UInt16,
         NEW result \in Results, Finished(r, pc, op, d, sure, told, result)
  PROVE  TransferTypeOK'
<1> DEFINE t == [pc |-> pc, op |-> op, device |-> d, sure |-> sure, told |-> told,
                 result |-> result]
<1>1. t \in Ended
  BY DEF Ended
<1>2. transfer' = [transfer EXCEPT ![r] = t]
  BY DEF Finished
<1> HIDE DEF t
<1> QED
  BY <1>1, <1>2 DEF TransferTypeOK, Transfer, EidMap

\* A call that is sent or taken keeps the types.
LEMMA UnderWayType ==
  ASSUME TransferTypeOK, UNCHANGED localEidMap, NEW r \in Requesters,
         NEW t \in UnderWay, transfer' = [transfer EXCEPT ![r] = t]
  PROVE  TransferTypeOK'
BY DEF TransferTypeOK, Transfer, EidMap

-----------------------------------------------------------------------------
(* The calls. *)

\* A request keeps the types if the timeout it tells, if any, has 16 bits.
LEMMA RequestType ==
  ASSUME TypeInv, TransferTypeOK, NEW r \in Requesters, NEW op \in Yielding,
         NEW d \in Destinations, NEW told \in SUBSET UInt16, Request(r, op, d, told)
  PROVE  TransferTypeOK'
<1>1. d \in DevIds /\ mctpEID(d) \in Byte /\ Sure(d) \in BOOLEAN /\ UNCHANGED localEidMap
  BY DeviceFacts, SureType DEF Request
<1>2. CASE Finished(r, "done", op, d, Sure(d), {}, "io_error")
  <2>1. "io_error" \in Results /\ op \in Yielding \cup Blocking /\ {} \in SUBSET UInt16
    BY DEF Results
  <2> QED
    BY <1>1, <1>2, <2>1, FinishedType, Zenon
<1>3. CASE ServiceOf(d) # NoService
  <2> DEFINE t == [pc |-> "sent", op |-> op, device |-> d, sure |-> Sure(d),
                   told |-> told, name |-> ServiceOf(d), eid |-> mctpEID(d)]
  <2>1. transfer' = [transfer EXCEPT ![r] = t]
    BY <1>3 DEF Request
  <2>2. ServiceOf(d) \in Name
    BY <1>1, <1>3 DEF ServiceOf, EndpointMap, TypeInv, TypeOK
  <2>3. t \in UnderWay
    BY <1>1, <2>2 DEF UnderWay
  <2> HIDE DEF t
  <2> QED
    BY <1>1, <2>1, <2>3, UnderWayType
<1> QED
  BY <1>2, <1>3 DEF Request

\* The 16 bits a service is told of a timeout, whatever its sign.
LEMMA NarrowedType ==
  ASSUME NEW timeout \in Int
  PROVE  {Narrowed(timeout)} \in SUBSET UInt16
<1>1. Narrowed(timeout) \in Int /\ 0 <= Narrowed(timeout) /\ Narrowed(timeout) < 65536
  BY DEF Narrowed
<1> QED
  BY <1>1 DEF UInt16

\* A blocking call keeps the types.
LEMMA BlockedType ==
  ASSUME TransferTypeOK, NEW r \in Requesters, NEW op \in Blocking,
         NEW d \in Destinations, NEW told \in SUBSET UInt16,
         NEW results \in SUBSET Results, Blocked(r, op, d, told, results)
  PROVE  TransferTypeOK'
<1>1. d \in DevIds /\ Sure(d) \in BOOLEAN /\ UNCHANGED localEidMap
  BY DeviceFacts, SureType DEF Blocked
<1>2. \E result \in Results, t \in {told, {}} : Finished(r, "done", op, d, Sure(d), t, result)
  BY DEF Blocked, Results
<1> QED
  BY <1>1, <1>2, FinishedType

\* The application's calls keep the types.
LEMMA TransferCallType ==
  ASSUME TypeInv, TransferTypeOK, TransferCall
  PROVE  TransferTypeOK'
<1>1. ASSUME NEW r \in Requesters, NEW d \in Destinations, NEW timeout \in Timeouts,
             \/ SendReceiveAsync(r, d, timeout)
             \/ SendReceiveYield(r, d, timeout)
             \/ SendReceiveBlocked(r, d, timeout)
             \/ ReserveBandwidth(r, d, timeout)
      PROVE  TransferTypeOK'
  <2>1. {Narrowed(timeout)} \in SUBSET UInt16
    BY NarrowedType, TransferAssumption
  <2>2. CASE SendReceiveAsync(r, d, timeout)
    BY <2>1, <2>2, RequestType DEF SendReceiveAsync, Yielding
  <2>3. CASE SendReceiveYield(r, d, timeout)
    BY <2>1, <2>3, RequestType DEF SendReceiveYield, Yielding
  <2>4. CASE ReserveBandwidth(r, d, timeout)
    BY <2>4, RequestType DEF ReserveBandwidth, Yielding
  <2>5. CASE SendReceiveBlocked(r, d, timeout)
    BY <2>1, <2>5, BlockedType DEF SendReceiveBlocked, Blocking, Results
  <2> QED
    BY <1>1, <2>2, <2>3, <2>4, <2>5
<1>2. ASSUME NEW r \in Requesters, NEW d \in Destinations,
             \/ SendAsync(r, d)
             \/ SendYield(r, d)
             \/ ReleaseBandwidth(r, d)
             \/ TriggerMCTPDeviceDiscovery(r, d)
      PROVE  TransferTypeOK'
  BY <1>2, RequestType
     DEF SendAsync, SendYield, ReleaseBandwidth, TriggerMCTPDeviceDiscovery, Yielding
<1>3. ASSUME NEW r \in Requesters, NEW d \in Destinations, GetDeviceLocation(r, d)
      PROVE  TransferTypeOK'
  BY <1>3, BlockedType DEF GetDeviceLocation, Blocking, Results
<1>4. CASE GetEndpointMap
  BY <1>4 DEF GetEndpointMap, TransferTypeOK
<1> QED
  BY <1>1, <1>2, <1>3, <1>4 DEF TransferCall

-----------------------------------------------------------------------------
(* The way of a call, and the library's own steps. *)

\* A call under way is answered.
LEMMA AnsweredType ==
  ASSUME TransferTypeOK, NEW r \in Requesters, transfer[r].pc \in {"sent", "taken"},
         NEW result \in Results, Answered(r, result)
  PROVE  TransferTypeOK'
<1>1. transfer[r] \in UnderWay
  BY TransferCases DEF TransferTypeOK, Transfer
<1> QED
  BY <1>1, FinishedType DEF Answered, UnderWay

\* The bus, the service and the way back keep the types.
LEMMA CarryType ==
  ASSUME TypeInv, TransferTypeOK, NEW r \in Requesters, Carry(r) \/ Complete(r)
  PROVE  TransferTypeOK'
<1>1. CASE Deliver(r)
  <2>1. CASE Answered(r, "failed")
    BY <1>1, <2>1, AnsweredType DEF Deliver, Results
  <2>2. CASE Reachable(transfer[r].name)
    <3> DEFINE s == transfer[r]
               t == [pc |-> "taken", op |-> s.op, device |-> s.device, sure |-> s.sure,
                     told |-> s.told, name |-> Unique(s.name[1]), eid |-> s.eid]
    <3>1. transfer[r] \in UnderWay
      BY <1>1, TransferCases DEF Deliver, TransferTypeOK, Transfer
    <3>2. transfer[r].name \in Name /\ transfer[r].name[1] \in Services
      BY <3>1 DEF UnderWay, Name
    <3>3. Unique(transfer[r].name[1]) \in Name
      BY <3>2, UniqueType DEF TypeInv, TypeOK
    <3>4. t \in UnderWay
      BY <3>1, <3>3 DEF UnderWay
    <3>5. transfer' = [transfer EXCEPT ![r] = t] /\ UNCHANGED localEidMap
      BY <1>1, <2>2 DEF Deliver
    <3> HIDE DEF t
    <3> QED
      BY <3>4, <3>5, UnderWayType
  <2> QED
    BY <1>1, <2>1, <2>2 DEF Deliver
<1>2. CASE Serve(r)
  BY <1>2, AnsweredType DEF Serve, Results
<1>3. CASE TimeOut(r)
  BY <1>3, AnsweredType DEF TimeOut, Results
<1>4. CASE Complete(r)
  <2>1. transfer[r] \in Ended
    BY <1>4, TransferCases DEF Complete, TransferTypeOK, Transfer
  <2> QED
    BY <1>4, <2>1, FinishedType DEF Complete, Ended
<1> QED
  BY <1>1, <1>2, <1>3, <1>4 DEF Carry

\* A step of the library or of the services changes at most who is sure.
LEMMA ObservedType ==
  ASSUME TransferTypeOK, NEW step, Observed(step)
  PROVE  TransferTypeOK'
<1> DEFINE kept(r) == transfer[r].sure /\ transfer[r].device \in WantedDevices'
           moved(r) == [transfer[r] EXCEPT !.sure = kept(r)]
<1>1. ASSUME NEW r \in Requesters
      PROVE  transfer'[r] \in Transfer
  <2>1. transfer'[r] = IF transfer[r].pc = "idle" THEN transfer[r] ELSE moved(r)
    BY DEF Observed
  <2>2. transfer[r] \in Transfer
    BY DEF TransferTypeOK
  <2>3. kept(r) \in BOOLEAN
    OBVIOUS
  <2> HIDE DEF kept
  <2>4. CASE transfer[r] \in Idle
    BY <2>1, <2>2, <2>4, TransferCases
  <2>5. CASE transfer[r] \in UnderWay
    <3>1. moved(r) \in UnderWay
      BY <2>3, <2>5 DEF UnderWay
    <3> HIDE DEF moved
    <3> QED
      BY <2>1, <2>2, <2>5, <3>1, TransferCases DEF Transfer
  <2>6. CASE transfer[r] \in Ended
    <3>1. moved(r) \in Ended
      BY <2>3, <2>6 DEF Ended
    <3> HIDE DEF moved
    <3> QED
      BY <2>1, <2>2, <2>6, <3>1, TransferCases DEF Transfer
  <2> QED
    BY <2>2, <2>4, <2>5, <2>6 DEF Transfer
<1>2. UNCHANGED localEidMap /\ transfer' = [r \in Requesters |-> transfer'[r]]
  BY DEF Observed
<1>3. transfer' \in [Requesters -> Transfer]
  BY <1>1, <1>2
<1> QED
  BY <1>1, <1>2, <1>3 DEF TransferTypeOK, EidMap

-----------------------------------------------------------------------------
(* The theorems. *)

AllInv == TypeInv /\ TransferTypeOK

LEMMA AllInitially == TransferInit => AllInv
<1> SUFFICES ASSUME TransferInit PROVE AllInv
  OBVIOUS
<1>1. TypeInv
  BY TypeInit DEF TransferInit
<1>2. TransferTypeOK
  BY TransferCases DEF TransferInit, TransferTypeOK, Transfer, EidMap
<1> QED
  BY <1>1, <1>2 DEF AllInv

\* Every step of MctpTransfer is one of MctpImpl or leaves its state alone.
LEMMA TransferSimulates ==
  ASSUME [TransferNext]_allVars
  PROVE  [Next]_vars
<1>1. ASSUME TransferCall
      PROVE  UNCHANGED vars
  <2>1. \A r, op, d, told : Request(r, op, d, told) => UNCHANGED vars
    BY DEF Request
  <2>2. \A r, op, d, told, results : Blocked(r, op, d, told, results) => UNCHANGED vars
    BY DEF Blocked
  <2> QED
    BY <1>1, <2>1, <2>2, Zenon
       DEF TransferCall, SendReceiveAsync, SendReceiveYield, SendReceiveBlocked,
           ReserveBandwidth, ReleaseBandwidth, SendAsync, SendYield,
           TriggerMCTPDeviceDiscovery, GetDeviceLocation, GetEndpointMap
<1>2. ASSUME NEW r \in Requesters, Carry(r) \/ Complete(r)
      PROVE  UNCHANGED vars
  BY <1>2 DEF Carry, Deliver, Serve, TimeOut, Answered, Complete
<1> QED
  BY <1>1, <1>2 DEF TransferNext, Observed, allVars

LEMMA AllStep ==
  ASSUME AllInv, [TransferNext]_allVars
  PROVE  AllInv'
<1>1. TypeInv'
  BY TransferSimulates, TypeStep DEF AllInv
<1>2. TransferTypeOK'
  <2>1. CASE Observed(Next)
    BY <2>1, ObservedType DEF AllInv
  <2>2. CASE TransferCall
    BY <2>2, TransferCallType DEF AllInv
  <2>3. ASSUME NEW r \in Requesters, Carry(r) \/ Complete(r)
        PROVE  TransferTypeOK'
    BY <2>3, CarryType DEF AllInv
  <2>4. CASE UNCHANGED allVars
    BY <2>4 DEF AllInv, TransferTypeOK, EidMap, allVars, transferVars
  <2> QED
    BY <2>1, <2>2, <2>3, <2>4 DEF TransferNext
<1> QED
  BY <1>1, <1>2 DEF AllInv

LEMMA AllAlways == TransferSpec => []AllInv
BY AllInitially, AllStep, PTL DEF TransferSpec

\* The calls, their answers and the copied map keep the types of the interface.
THEOREM TransferTypes == TransferSpec => []TransferTypeOK
<1>1. AllInv => TransferTypeOK
  BY DEF AllInv
<1> QED
  BY <1>1, AllAlways, PTL

\* The library tracks as without them: what is proved of MctpImpl's steps holds
\* while requests are made.
THEOREM TransferRefines == TransferSpec => Init /\ [][Next]_vars
<1>1. TransferInit => Init
  BY DEF TransferInit
<1> QED
  BY <1>1, TransferSimulates, PTL DEF TransferSpec

-----------------------------------------------------------------------------
(* A call that is sure of its device is answered by it. *)

\* A sure call under way is for an endpoint that is there and has a name that
\* reaches its service; a sure call that has its result has the answer.
SureOK(t) ==
  t.pc # "idle" /\ t.sure =>
    /\ t.pc \in {"sent", "taken"} =>
         /\ watching /\ t.eid = t.device
         /\ Wanted(t.name[1], t.eid) /\ Reachable(t.name)
    /\ t.pc \in {"answered", "done"} /\ t.op # "getDeviceLocation" => t.result = "response"

SureInv == \A r \in Requesters : SureOK(transfer[r])

\* When nothing is on its way, the map has the devices that are wanted, each with
\* the service that exports it.
LEMMA SureFacts ==
  ASSUME Steady, TrackInv, SoundInv, NEW d \in DevIds, Sure(d)
  PROVE  /\ ServiceOf(d) # NoService /\ watching /\ mctpEID(d) = d
         /\ Wanted(ServiceOf(d)[1], d) /\ Reachable(ServiceOf(d)) /\ Exported(d)
<1>1. Quiet
  BY DEF Sure
<1>2. PICK w \in Services, e \in Eids : d = DeviceID(e, Network(w)) /\ Wanted(w, e)
  BY DEF Sure, WantedDevices
<1>3. /\ \A x \in Services : Network(x) = 0
      /\ \A x \in Eids : x % 256 = x /\ DeviceID(x, 0) = x
  BY SteadyIds DEF TrackInv, GroundInv
<1>4. d = e
  BY <1>2, <1>3
<1>5. d \in Entries(endpointMap)
  BY <1>1, <1>2, CompleteQuiet DEF AllAvailable
<1>6. PICK x \in Services, i \in Eids : i \in eps[x] /\ d = DeviceID(i, Network(x)) /\ Routed(d, x)
  BY <1>1, <1>5, SoundQuiet DEF NothingStale
<1>7. i = d
  BY <1>3, <1>6
<1>8. x = w
  BY <1>2, <1>4, <1>6, <1>7 DEF Wanted, TrackInv, GroundInv, BusInv, EndpointInv
<1>9. ServiceOf(d) # NoService /\ ServiceOf(d)[1] = w /\ Reachable(ServiceOf(d))
  BY <1>6, <1>8 DEF Routed, ServiceOf
<1>10. mctpEID(d) = d
  BY <1>3, <1>4 DEF mctpEID
<1>11. watching
  BY <1>1 DEF Quiet, TrackInv, GroundInv, FirstInv
<1> QED
  BY <1>2, <1>4, <1>9, <1>10, <1>11 DEF Exported, Wanted

\* An endpoint that is wanted before and after a step is so of the same service,
\* which is still reached by the same names.
LEMMA WantedStays ==
  ASSUME Steady, GroundInv, watching, [Next]_vars, NEW n, NEW e \in Eids,
         Wanted(n[1], e), Reachable(n), NEW x \in Services, Wanted(x, e)'
  PROVE  x = n[1] /\ Reachable(n)' /\ watching'
<1>1. n[1] \in Services
  BY BusAssumption DEF Wanted
<1>2. TypeInv /\ EndpointInv
  BY DEF GroundInv, BusInv
<1>3. CASE UNCHANGED <<up, life, eps>>
  <2>1. x = n[1]
    BY <1>1, <1>2, <1>3 DEF Wanted, EndpointInv
  <2>2. watching'
    BY DEF Next, Dispatch, RunSpawned, Application, DetectMctpEndpoints, listenForMCTPChanges,
           RegisterResponder, RegisterNothing, GetOwnEIDs, SetExtendedReceiveCallback,
           AnyService, ServiceStep, StartService, StopService, CrashService, AddEndpoint,
           RemoveEndpoint, ChangeOwnEid, SendMessage, Answers, Answer, AnswerCall,
           AnswerGetObject, AnswerGetNameOwner, AnswerGetManagedObjects, FailCall, vars, busVars
  <2> QED
    BY <1>3, <2>1, <2>2 DEF Reachable
<1>4. CASE AnyService
  <2>1. PICK w \in Services : ServiceStep(w)
    BY <1>4 DEF AnyService
  <2>2. watching'
    BY <2>1 DEF ServiceStep, StartService, StopService, CrashService, AddEndpoint,
                RemoveEndpoint, ChangeOwnEid, SendMessage
  <2>3. /\ \A y \in Services : y # w => up'[y] = up[y] /\ life'[y] = life[y] /\ eps'[y] = eps[y]
        /\ \/ life'[w] = life[w] /\ (eps'[w] \subseteq eps[w] \/ \A y \in Services : eps[y] \cap eps'[w] \subseteq eps[w])
           \/ ~up[w] /\ eps'[w] = eps[w]
    BY <1>2, <2>1, ServiceSays
  <2>4. up'[x] /\ e \in eps'[x] /\ up[n[1]] /\ e \in eps[n[1]]
    BY DEF Wanted
  <2>5. ~up[w] => eps[w] = {}
    BY <1>2 DEF EndpointInv
  <2>6. e \in eps[x]
    BY <1>1, <2>3, <2>4
  <2>7. x = n[1]
    BY <1>1, <1>2, <2>4, <2>6 DEF EndpointInv
  <2>8. life'[x] = life[x]
    BY <2>3, <2>5, <2>6
  <2> QED
    BY <2>2, <2>4, <2>7, <2>8 DEF Reachable
<1>5. CASE ~AnyService
  <2>1. UNCHANGED <<up, life, eps>>
    BY <1>5 DEF Next, Dispatch, RunSpawned, Application, DetectMctpEndpoints,
           RegisterResponder, RegisterNothing, GetOwnEIDs, SetExtendedReceiveCallback,
           Answers, Answer, AnswerCall,
           AnswerGetObject, AnswerGetNameOwner, AnswerGetManagedObjects, FailCall, vars, busVars
  <2> QED
    BY <1>3, <2>1
<1> QED
  BY <1>4, <1>5

\* A call that goes on, while nothing else happens.
LEMMA SureUpdate ==
  ASSUME TransferTypeOK, SureInv, UNCHANGED vars, NEW r \in Requesters, NEW t, SureOK(t),
         transfer' = [transfer EXCEPT ![r] = t]
  PROVE  SureInv'
<1>1. \A s : SureOK(s)' <=> SureOK(s)
  BY DEF SureOK, Wanted, Reachable, vars, busVars
<1>2. transfer \in [Requesters -> Transfer]
  BY DEF TransferTypeOK
<1>3. ASSUME NEW q \in Requesters, NEW s, s = transfer'[q]
      PROVE  SureOK(s)'
  <2>1. s = IF q = r THEN t ELSE transfer[q]
    BY <1>2, <1>3
  <2>2. SureOK(s)
    BY <2>1 DEF SureInv
  <2> QED
    BY <1>1, <2>2
<1> QED
  BY <1>3 DEF SureInv

\* A result is right unless it is that of a sure call.
LEMMA SureFinished ==
  ASSUME TransferTypeOK, SureInv, UNCHANGED vars, NEW r \in Requesters,
         NEW pc \in {"answered", "done"}, NEW op, NEW d, NEW sure, NEW told, NEW result,
         sure /\ op # "getDeviceLocation" => result = "response",
         Finished(r, pc, op, d, sure, told, result)
  PROVE  SureInv'
<1> DEFINE t == [pc |-> pc, op |-> op, device |-> d, sure |-> sure, told |-> told,
                 result |-> result]
<1>1. SureOK(t)
  BY DEF SureOK
<1>2. transfer' = [transfer EXCEPT ![r] = t]
  BY DEF Finished
<1> HIDE DEF t
<1> QED
  BY <1>1, <1>2, SureUpdate

\* What the proofs about sure calls rest on.
SureGround == AllInv /\ TrackInv /\ SoundInv

\* A request finds its service in the map.
LEMMA SureRequest ==
  ASSUME Steady, SureGround, SureInv, NEW r \in Requesters, NEW op, NEW d \in Destinations,
         NEW told, Request(r, op, d, told)
  PROVE  SureInv'
<1>1. UNCHANGED vars /\ TransferTypeOK /\ TrackInv /\ SoundInv
  BY DEF Request, SureGround, AllInv
<1>2. d \in DevIds
  BY DeviceFacts
<1>3. Sure(d) => /\ ServiceOf(d) # NoService /\ watching /\ mctpEID(d) = d
                 /\ Wanted(ServiceOf(d)[1], d) /\ Reachable(ServiceOf(d))
  BY <1>1, <1>2, SureFacts
<1>4. CASE ServiceOf(d) = NoService /\ Finished(r, "done", op, d, Sure(d), {}, "io_error")
  BY <1>1, <1>3, <1>4, SureFinished
<1>5. CASE ServiceOf(d) # NoService
  <2> DEFINE t == [pc |-> "sent", op |-> op, device |-> d, sure |-> Sure(d),
                   told |-> told, name |-> ServiceOf(d), eid |-> mctpEID(d)]
  <2>1. transfer' = [transfer EXCEPT ![r] = t]
    BY <1>5 DEF Request
  <2>2. /\ t.pc = "sent" /\ t.sure = Sure(d) /\ t.device = d
        /\ t.name = ServiceOf(d) /\ t.eid = mctpEID(d)
    OBVIOUS
  <2> HIDE DEF t
  <2>3. SureOK(t)
    BY <1>3, <2>2 DEF SureOK
  <2> QED
    BY <1>1, <2>1, <2>3, SureUpdate
<1> QED
  BY <1>4, <1>5 DEF Request

\* A blocking call finds its device exported.
LEMMA SureBlocked ==
  ASSUME Steady, SureGround, SureInv, NEW r \in Requesters, NEW d \in Destinations,
         (\E timeout : SendReceiveBlocked(r, d, timeout)) \/ GetDeviceLocation(r, d)
  PROVE  SureInv'
<1>1. UNCHANGED vars /\ TransferTypeOK /\ TrackInv /\ SoundInv
  BY DEF SendReceiveBlocked, GetDeviceLocation, Blocked, SureGround, AllInv
<1>2. d \in DevIds
  BY DeviceFacts
<1>3. Sure(d) => ServiceOf(d) # NoService /\ Exported(d)
  BY <1>1, <1>2, SureFacts
<1>4. ASSUME NEW timeout, SendReceiveBlocked(r, d, timeout)
      PROVE  SureInv'
  <2>1. PICK result, told :
          /\ Finished(r, "done", "sendReceiveBlocked", d, Sure(d), told, result)
          /\ ServiceOf(d) # NoService => (Exported(d) => result = "response")
    BY <1>4 DEF SendReceiveBlocked, Blocked, Steady
  <2> QED
    BY <1>1, <1>3, <2>1, SureFinished
<1>5. CASE GetDeviceLocation(r, d)
  <2>1. PICK result, told :
          Finished(r, "done", "getDeviceLocation", d, Sure(d), told, result)
    BY <1>5 DEF GetDeviceLocation, Blocked
  <2> QED
    BY <1>1, <2>1, SureFinished
<1> QED
  BY <1>4, <1>5

\* The service takes a sure call, and answers it.
LEMMA SureCarry ==
  ASSUME Steady, SureGround, SureInv, NEW r \in Requesters, Carry(r) \/ Complete(r)
  PROVE  SureInv'
<1>1. UNCHANGED vars /\ TransferTypeOK /\ ~CallsMayFail
  BY DEF Carry, Complete, Deliver, Serve, TimeOut, Answered, SureGround, AllInv, Steady
<1> DEFINE s == transfer[r]
<1>2. SureOK(s)
  BY DEF SureInv
<1> HIDE DEF s
<1>3. ASSUME NEW result, Answered(r, result), s.sure => result = "response"
      PROVE  SureInv'
  BY <1>1, <1>3, SureFinished DEF Answered, s
<1>4. CASE Deliver(r)
  <2>1. s.pc = "sent"
    BY <1>4 DEF Deliver, s
  <2>2. CASE ~Reachable(s.name) /\ Answered(r, "failed")
    BY <1>2, <1>3, <2>1, <2>2 DEF SureOK
  <2>3. CASE Reachable(s.name)
    <3> DEFINE t == [pc |-> "taken", op |-> s.op, device |-> s.device,
                     sure |-> s.sure, told |-> s.told, name |-> Unique(s.name[1]),
                     eid |-> s.eid]
    <3>1. transfer' = [transfer EXCEPT ![r] = t]
      BY <1>4, <2>3 DEF Deliver, s
    <3>2. /\ t.pc = "taken" /\ t.sure = s.sure /\ t.device = s.device
          /\ t.name = Unique(s.name[1]) /\ t.eid = s.eid
      OBVIOUS
    <3>3. Unique(s.name[1])[1] = s.name[1] /\ Reachable(Unique(s.name[1]))
      BY <2>3 DEF Unique, Reachable
    <3> HIDE DEF t
    <3>4. SureOK(t)
      BY <1>2, <2>1, <3>2, <3>3 DEF SureOK
    <3> QED
      BY <1>1, <3>1, <3>4, SureUpdate
  <2> QED
    BY <1>4, <2>2, <2>3 DEF Deliver, s
<1>5. CASE Serve(r)
  <2>1. s.pc = "taken"
    BY <1>5 DEF Serve, s
  <2>2. s.sure => Reachable(s.name) /\ s.eid \in eps[s.name[1]]
    BY <1>2, <2>1 DEF SureOK, Wanted
  <2> QED
    BY <1>3, <1>5, <2>2 DEF Serve, s
<1>6. CASE Complete(r)
  <2>1. s.pc = "answered"
    BY <1>6 DEF Complete, s
  <2>2. s.sure /\ s.op # "getDeviceLocation" => s.result = "response"
    BY <1>2, <2>1 DEF SureOK
  <2> QED
    BY <1>1, <1>6, <2>2, SureFinished DEF Complete, s
<1> QED
  BY <1>1, <1>4, <1>5, <1>6 DEF Carry, TimeOut

\* While the device of a call stays, its service does.
LEMMA SureObserved ==
  ASSUME Steady, SureGround, SureInv, Observed(Next)
  PROVE  SureInv'
<1>1. /\ transfer \in [Requesters -> Transfer] /\ GroundInv /\ TypeInv /\ [Next]_vars
      /\ FirstInv /\ FirstInv'
  BY GroundStep DEF SureGround, AllInv, TransferTypeOK, TrackInv, GroundInv, Observed
<1>2. \A x \in Services : Network(x) = 0
  BY <1>1, SteadyIds
<1>3. \A e \in Eids : DeviceID(e, 0) = e
  BY <1>1, SteadyIds
<1>4. \A d \in WantedDevices' : d \in Eids /\ \E x \in Services : Wanted(x, d)'
  BY <1>2, <1>3 DEF WantedDevices, Network
<1>5. ASSUME NEW r \in Requesters, NEW s, s = transfer'[r], s.pc # "idle", s.sure
      PROVE  SureOK(s)'
  <2> DEFINE t == transfer[r]
  <2>1. t.pc # "idle" /\ s = [t EXCEPT !.sure = @ /\ t.device \in WantedDevices']
    <3>1. s = IF t.pc = "idle" THEN t ELSE [t EXCEPT !.sure = @ /\ t.device \in WantedDevices']
      BY <1>5 DEF Observed
    <3> QED
      BY <1>5, <3>1
  <2>2. t \in UnderWay \/ t \in Ended
    BY <1>1, <2>1, TransferCases DEF Transfer
  <2>3. SureOK(t)
    BY DEF SureInv
  <2> DEFINE kept == t.sure /\ t.device \in WantedDevices'
  <2>4. s = [t EXCEPT !.sure = kept]
    BY <2>1
  <2> HIDE DEF t, kept
  <2>5. /\ s.sure = kept /\ s.pc = t.pc /\ s.device = t.device /\ s.op = t.op
        /\ t \in Ended => s.result = t.result
        /\ t \in UnderWay => s.name = t.name /\ s.eid = t.eid
    BY <2>2, <2>4 DEF UnderWay, Ended
  <2>6. t.sure /\ t.device \in WantedDevices'
    BY <1>5, <2>5 DEF kept
  <2>7. CASE t \in Ended
    <3>1. s.pc \in {"answered", "done"}
      BY <2>5, <2>7, TransferCases
    <3> QED
      BY <2>1, <2>3, <2>5, <2>6, <2>7, <3>1 DEF SureOK
  <2>8. CASE t \in UnderWay
    <3>1. t.pc \in {"sent", "taken"}
      BY <2>8, TransferCases
    <3>2. watching /\ t.eid = t.device /\ Wanted(t.name[1], t.eid) /\ Reachable(t.name)
      BY <2>1, <2>3, <2>6, <3>1 DEF SureOK
    <3>3. PICK e, n : e = t.eid /\ n = t.name
      OBVIOUS
    <3>4. e \in WantedDevices' /\ watching /\ Wanted(n[1], e) /\ Reachable(n)
      BY <2>6, <3>2, <3>3
    <3>5. PICK x \in Services : Wanted(x, e)'
      BY <1>4, <3>4
    <3>6. x = n[1] /\ Reachable(n)' /\ watching'
      BY <1>1, <1>4, <3>4, <3>5, WantedStays
    <3>7. s.name = n /\ s.eid = e /\ s.device = e /\ s.pc \in {"sent", "taken"}
      BY <2>5, <2>8, <3>1, <3>2, <3>3
    <3> QED
      BY <3>5, <3>6, <3>7 DEF SureOK
  <2> QED
    BY <2>2, <2>7, <2>8
<1> QED
  BY <1>5 DEF SureInv, SureOK

LEMMA SureStep ==
  ASSUME Steady, SureGround, SureInv, [TransferNext]_allVars
  PROVE  SureInv'
<1>1. TransferTypeOK
  BY DEF SureGround, AllInv
<1>2. CASE TransferCall
  <2>1. ASSUME NEW r \in Requesters, NEW d \in Destinations, NEW timeout,
               \/ SendReceiveAsync(r, d, timeout)
               \/ SendReceiveYield(r, d, timeout)
               \/ ReserveBandwidth(r, d, timeout)
        PROVE  SureInv'
    BY <2>1, SureRequest DEF SendReceiveAsync, SendReceiveYield, ReserveBandwidth
  <2>2. ASSUME NEW r \in Requesters, NEW d \in Destinations,
               \/ SendAsync(r, d)
               \/ SendYield(r, d)
               \/ ReleaseBandwidth(r, d)
               \/ TriggerMCTPDeviceDiscovery(r, d)
        PROVE  SureInv'
    BY <2>2, SureRequest DEF SendAsync, SendYield, ReleaseBandwidth, TriggerMCTPDeviceDiscovery
  <2>3. CASE GetEndpointMap
    BY <2>3 DEF GetEndpointMap, SureInv, SureOK, Wanted, Reachable, vars, busVars
  <2> QED
    BY <1>2, <2>1, <2>2, <2>3, SureBlocked DEF TransferCall
<1>3. CASE UNCHANGED allVars
  BY <1>3 DEF SureInv, SureOK, Wanted, Reachable, allVars, transferVars, vars, busVars
<1> QED
  BY <1>2, <1>3, SureCarry, SureObserved DEF TransferNext

\* A request to an endpoint that is asked for and stays there is answered by it,
\* for every set of services, endpoints and calls: made when nothing was on its
\* way, it goes to the service that exports the endpoint, under a name that
\* still reaches it when the call arrives.  The services are calm and do not
\* crash, and calls to a live peer do not fail.
THEOREM SureRequestsAnswered ==
  ASSUME Steady, SpawnInline, NetworkChangeCallback, ~Crashes
  PROVE  TransferSpec => []RequestAnswered
<1>1. TransferInit => SureGround /\ SureInv
  <2>1. TransferInit => SureInv
    BY DEF TransferInit, SureInv, SureOK
  <2> QED
    BY <2>1, AllInitially, TrackInitially, SoundInitially DEF TransferInit, SureGround
<1>2. SureGround /\ SureInv /\ [TransferNext]_allVars => SureGround' /\ SureInv'
  BY AllStep, TransferSimulates, TrackStep, SoundStep, SureStep DEF SureGround
<1>3. SureInv => RequestAnswered
  BY DEF SureInv, SureOK, RequestAnswered
<1> QED
  BY <1>1, <1>2, <1>3, PTL DEF TransferSpec

=============================================================================
