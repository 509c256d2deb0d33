--------------------------- MODULE MctpImplProofs ---------------------------
(***************************************************************************)
(* Proofs about MctpImpl for every value of its constants.                 *)
(***************************************************************************)
EXTENDS MctpImplProps, TLAPS

\* A coroutine that waits for an owner or for objects has a bus it waits for.
ScanShape ==
  \A c \in Callers : scan[c].pc \in {"owner", "objects"} => scan[c].buses # <<>>

TypeInv == TypeOK /\ ScanShape

-----------------------------------------------------------------------------
(* The messages, calls and devices by their fields. *)

\* The fields a message of each type has, and their types.
LEMMA MessageFields ==
  ASSUME NEW m \in Message
  PROVE  /\ m.type \in {"serviceAdded", "serviceRemoved", "endpointAdded",
                        "endpointRemoved", "eidChanged", "message"}
              => m.from \in Name
         /\ m.type \in {"endpointAdded", "endpointRemoved", "message"}
              => m.eid \in Eids
         /\ m.type = "eidChanged" => m.own \in OwnEids
         /\ m.type \in {"services", "owner", "objects", "error"} => m.to \in Callers
         /\ m.type = "services" => m.services \in SUBSET Services
         /\ m.type = "owner" => m.owner \in Name
         /\ m.type = "objects" => m.eids \in SUBSET Eids
BY DEF Message, Signal, Reply

\* The signals the services build are messages.
LEMMA SignalTypes ==
  /\ \A n \in Name : [type |-> "serviceAdded", from |-> n] \in Message
  /\ \A n \in Name : [type |-> "serviceRemoved", from |-> n] \in Message
  /\ \A n \in Name, e \in Eids :
       [type |-> "endpointAdded", from |-> n, eid |-> e] \in Message
  /\ \A n \in Name, e \in Eids :
       [type |-> "endpointRemoved", from |-> n, eid |-> e] \in Message
  /\ \A n \in Name, own \in OwnEids :
       [type |-> "eidChanged", from |-> n, own |-> own] \in Message
  /\ \A n \in Name, e \in Eids, h \in Headers :
       [type |-> "message", from |-> n, eid |-> e, header |-> h] \in Message
BY DEF Message, Signal

\* The replies to yielding calls are messages.
LEMMA ReplyTypes ==
  /\ \A c \in Callers, ws \in SUBSET Services :
       [type |-> "services", to |-> c, services |-> ws] \in Message
  /\ \A c \in Callers, n \in Name :
       [type |-> "owner", to |-> c, owner |-> n] \in Message
  /\ \A c \in Callers, es \in SUBSET Eids :
       [type |-> "objects", to |-> c, eids |-> es] \in Message
  /\ \A c \in Callers : [type |-> "error", to |-> c] \in Message
BY DEF Message, Reply

\* The fields of a yielding call.
LEMMA CallFields ==
  ASSUME NEW call \in Call
  PROVE  /\ call.caller \in Callers
         /\ call.method \in {"GetNameOwner", "GetManagedObjects"}
              => call.service \in Services
BY DEF Call

\* What a spawned coroutine has captured.
LEMMA EventFields ==
  ASSUME NEW event \in Event
  PROVE  /\ event.deviceId \in DevIds
         /\ event.type = "deviceAdded" => event.service \in Name
BY DEF Event

\* getNetworkID returns a network id the interface knows, and the cache it
\* leaves holds only such.
LEMMA NetworkCacheType ==
  ASSUME TypeOK, NEW n \in Name, CacheNetworkID(n)
  PROVE  networkIDCache' \in [Name -> Networks \cup {NoNetwork}]
<1>1. n[1] \in Services
  BY DEF Name
<1>2. NetworkID[n[1]] \in Networks \cup {NoNetwork}
  BY <1>1 DEF Networks
<1> QED
  BY <1>2 DEF TypeOK, CacheNetworkID

\* getDeviceIDFromPath builds one of the devices of DevIds.
LEMMA DeviceIdType ==
  ASSUME TypeOK, NEW e \in Eids, NEW n \in Name
  PROVE  getDeviceIDFromPath(e, n) \in DevIds
<1>1. getNetworkID(n) \in Networks
  BY DEF TypeOK, getNetworkID, Networks
<1>2. e % 256 = e
  BY BusAssumption DEF Byte
<1> QED
  BY <1>1, <1>2 DEF DevIds, getDeviceIDFromPath

\* The receive callbacks are given known endpoints.
LEMMA HandedType ==
  ASSUME TypeOK, NEW m \in Message, m.type = "message"
  PROVE  Handed(m) \in SUBSET Delivery
<1>1. m.from \in Name /\ m.eid \in Eids
  BY MessageFields
<1>2. DeviceID(m.eid, getNetworkID(m.from)) \in DevIds
  <2>1. getNetworkID(m.from) \in Networks
    BY <1>1 DEF TypeOK, getNetworkID, Networks
  <2> QED
    BY <1>1, <2>1 DEF DevIds
<1>3. [callback |-> "plain", from |-> m.eid] \in Delivery
  BY <1>1 DEF Delivery
<1>4. [callback |-> "extended", from |-> DeviceID(m.eid, getNetworkID(m.from))]
        \in Delivery
  BY <1>2 DEF Delivery
<1> QED
  BY <1>3, <1>4 DEF Handed

-----------------------------------------------------------------------------
(* Type correctness: the operators the actions are built from. *)

\* The operators the handlers are built from return values of the right type.
LEMMA OperatorTypes ==
  ASSUME TypeOK
  PROVE  /\ \A d \in DevIds : eraseDevice(d) \in EndpointMap
         /\ \A d \in DevIds, n \in Name : Emplaced(d, n) \in EndpointMap
         /\ \A names, answered, late \in SUBSET Name, v \in Versions \cup {NoVersion} :
              Registered(names, answered, late, v) \in [Services -> Registration]
         /\ \A names, answered \in SUBSET Name :
              OwnEidsRead(names, answered) \in [Name -> Report]
<1> USE DEF TypeOK, EndpointMap
<1>1. \A d \in DevIds : eraseDevice(d) \in EndpointMap
  BY DEF eraseDevice
<1>2. \A d \in DevIds, n \in Name : Emplaced(d, n) \in EndpointMap
  BY DEF Emplaced
<1>3. \A names, answered, late \in SUBSET Name, v \in Versions \cup {NoVersion} :
        Registered(names, answered, late, v) \in [Services -> Registration]
  BY DEF Registered, Registration, BusTypeOK
<1>4. \A names, answered \in SUBSET Name :
        OwnEidsRead(names, answered) \in [Name -> Report]
  BY DEF OwnEidsRead, Report, BusTypeOK, Name
<1> QED
  BY <1>1, <1>2, <1>3, <1>4

\* Of the calls to names only calls to names are answered.
LEMMA AnsweringType ==
  ASSUME NEW names \in SUBSET Name
  PROVE  \A answered \in Answering(names) : answered \subseteq names
BY DEF Answering

\* Registering with the services, and reading their own EIDs, leaves what is
\* known of them of its type.
LEMMA CallsType ==
  ASSUME TypeOK, NEW names \in SUBSET Name
  PROVE  /\ \A answered \in Answering(names), v \in Versions :
              Register(names, answered, v) => registered' \in [Services -> Registration]
         /\ RegisterAgain(names) => registered' \in [Services -> Registration]
         /\ ReadOwnEids(names) => ownReported' \in [Name -> Report]
         /\ ReadOwnEidsAgain(names) => ownReported' \in [Name -> Report]
<1>1. \A answered \in Answering(names), v \in Versions \cup {NoVersion} :
        Register(names, answered, v) => registered' \in [Services -> Registration]
  <2> SUFFICES ASSUME NEW answered \in Answering(names),
                      NEW v \in Versions \cup {NoVersion}, Register(names, answered, v)
               PROVE  registered' \in [Services -> Registration]
    OBVIOUS
  <2>1. answered \in SUBSET Name /\ names \ answered \in SUBSET Name
    BY AnsweringType
  <2>2. PICK late \in Answering(names \ answered) :
          registered' = Registered(names, answered, late, v)
    BY DEF Register
  <2>3. late \in SUBSET Name
    BY <2>1, <2>2, AnsweringType
  <2> QED
    BY <2>1, <2>2, <2>3, OperatorTypes
<1>2. RegisterAgain(names) => registered' \in [Services -> Registration]
  BY <1>1 DEF RegisterAgain, TypeOK, BusTypeOK
<1>3. ReadOwnEids(names) => ownReported' \in [Name -> Report]
  <2> SUFFICES ASSUME NEW answered \in Answering(names),
                      ownReported' = OwnEidsRead(names, answered)
               PROVE  ownReported' \in [Name -> Report]
    BY DEF ReadOwnEids
  <2> QED
    BY AnsweringType, OperatorTypes
<1> QED
  BY <1>1, <1>2, <1>3 DEF ReadOwnEidsAgain, TypeOK

\* What FindBuses and BuildMap leave of the variables they set.
FindOK ==
  /\ endpointMap' \in EndpointMap
  /\ scan' \in [Callers -> Scan]
  /\ isInitialisationsDone' \in BOOLEAN
  /\ calls' \in SUBSET Call
  /\ registered' \in [Services -> Registration]
  /\ ownReported' \in [Name -> Report]
  /\ known' \in SUBSET DevIds
  /\ ScanShape'

\* The map of a fresh scan is an endpoint map.
LEMMA EmptyMapType == EmptyMap \in EndpointMap
BY DEF EmptyMap, EndpointMap

\* The tail of detectMctpEndpoints keeps the types of what it changes.
LEMMA FinishDetectType ==
  ASSUME TypeOK, matchedBuses' \in SUBSET Name, FinishDetect
  PROVE  /\ calls' \in SUBSET Call
         /\ registered' \in [Services -> Registration]
         /\ ownReported' \in [Name -> Report]
         /\ known' \in SUBSET DevIds
BY CallsType DEF FinishDetect, Entries, TypeOK, BusTypeOK

\* A scan that yields leaves well-typed locals, and a bus to wait for.
LEMMA SuspendType ==
  ASSUME TypeInv, NEW c \in Callers, NEW todo \in SUBSET Services,
         NEW buses \in Seq(Services), NEW found \in EndpointMap,
         NEW pc \in {"services", "owner", "objects"},
         pc \in {"owner", "objects"} => buses # <<>>,
         Suspend(c, pc, todo, buses, found)
  PROVE  scan' \in [Callers -> Scan] /\ ScanShape'
<1>1. [pc |-> pc, todo |-> todo, buses |-> buses, found |-> found,
       ec |-> "none", mapperFailed |-> FALSE] \in Scan
  BY DEF Scan
<1> QED
  BY <1>1 DEF Suspend, TypeInv, TypeOK, ScanShape

\* A scan that returns leaves well-typed locals.
LEMMA ReturnType ==
  ASSUME TypeInv, NEW c \in Callers, NEW failed \in BOOLEAN, Return(c, failed)
  PROVE  scan' \in [Callers -> Scan] /\ ScanShape'
<1>1. [pc |-> "done", todo |-> {}, buses |-> <<>>, found |-> EmptyMap,
       ec |-> "success", mapperFailed |-> failed] \in Scan
  BY EmptyMapType DEF Scan
<1> QED
  BY <1>1 DEF Return, TypeInv, TypeOK, ScanShape

\* buildMatchingEndpointMap's step keeps the types of what it changes.
LEMMA BuildMapType ==
  ASSUME TypeInv, matchedBuses' \in SUBSET Name,
         isInitialisationsDone' \in BOOLEAN,
         NEW c \in Callers, NEW buses \in Seq(Services), NEW found \in EndpointMap,
         BuildMap(c, buses, found)
  PROVE  FindOK
<1>1. CASE buses # <<>>
  <2>1. Head(buses) \in Services
    BY <1>1
  <2>2. (IF up[Head(buses)] THEN life[Head(buses)] ELSE 0) \in 0 .. MaxLives
    BY <2>1, BusAssumption DEF TypeInv, TypeOK, BusTypeOK
  <2>3. [caller |-> c, method |-> "GetManagedObjects", service |-> Head(buses),
         life |-> IF up[Head(buses)] THEN life[Head(buses)] ELSE 0] \in Call
    BY <2>1, <2>2 DEF Call
  <2>4. scan' \in [Callers -> Scan] /\ ScanShape'
    <3>1. Suspend(c, "objects", {}, buses, found)
      BY <1>1 DEF BuildMap
    <3> QED
      BY <1>1, <3>1, SuspendType
  <2> QED
    BY <1>1, <2>3, <2>4 DEF BuildMap, FindOK, TypeInv, TypeOK, BusTypeOK
<1>2. CASE buses = <<>>
  <2>1. scan' \in [Callers -> Scan] /\ ScanShape'
    <3>1. Return(c, FALSE)
      BY <1>2 DEF BuildMap
    <3> QED
      BY <3>1, ReturnType
  <2>2. endpointMap' = found /\ FinishDetect
    BY <1>2 DEF BuildMap
  <2> QED
    BY <2>1, <2>2, FinishDetectType DEF FindOK, TypeInv
<1> QED
  BY <1>1, <1>2

\* findBusByBindingType's step keeps the types of what it changes.
LEMMA FindBusesType ==
  ASSUME TypeInv, matchedBuses' \in SUBSET Name,
         NEW c \in Callers, NEW todo \in SUBSET Services,
         NEW buses \in Seq(Services), FindBuses(c, todo, buses)
  PROVE  FindOK
<1>1. CASE isInitialisationsDone' = TRUE /\ BuildMap(c, buses, EmptyMap)
  BY <1>1, BuildMapType, EmptyMapType
<1>2. ASSUME NEW w \in todo, NEW skipped \in SUBSET todo,
             calls' = calls \cup
               {[caller |-> c, method |-> "GetNameOwner", service |-> w]},
             Suspend(c, "owner", todo \ (skipped \cup {w}), Append(buses, w),
                     EmptyMap),
             UNCHANGED <<isInitialisationsDone, endpointMap, registered,
                         ownReported, known>>
      PROVE  FindOK
  <2>1. [caller |-> c, method |-> "GetNameOwner", service |-> w] \in Call
    BY DEF Call
  <2>2. Append(buses, w) \in Seq(Services) /\ Append(buses, w) # <<>>
    OBVIOUS
  <2>3. scan' \in [Callers -> Scan] /\ ScanShape'
    BY <1>2, <2>2, EmptyMapType, SuspendType
  <2> QED
    BY <1>2, <2>1, <2>3 DEF FindOK, TypeInv, TypeOK, BusTypeOK
<1> QED
  BY <1>1, <1>2 DEF FindBuses

-----------------------------------------------------------------------------
(* Type correctness: the handlers. *)

\* FindOK and what a scan's step leaves alone give the type invariant.
LEMMA ScanStepType ==
  ASSUME TypeInv, FindOK, inbox' \in Seq(Message), matchedBuses' \in SUBSET Name,
         networkIDCache' \in [Name -> Networks \cup {NoNetwork}],
         received' \in SUBSET Delivery,
         UNCHANGED <<up, life, eps, ownEid, watching>>,
         UNCHANGED <<responderVersions, eidChangeCallback, spawned, regStatus>>,
         UNCHANGED extReceiveCallback
  PROVE  TypeInv'
BY DEF TypeInv, TypeOK, BusTypeOK, FindOK

\* The same for a signal handler, which leaves the scans alone.
LEMMA HandlerStepType ==
  ASSUME TypeInv, inbox' \in Seq(Message), matchedBuses' \in SUBSET Name,
         networkIDCache' \in [Name -> Networks \cup {NoNetwork}],
         endpointMap' \in EndpointMap, spawned' \in Seq(Event),
         registered' \in [Services -> Registration],
         ownReported' \in [Name -> Report],
         received' \in SUBSET Delivery,
         UNCHANGED <<up, life, eps, ownEid, watching>>,
         UNCHANGED <<isInitialisationsDone, responderVersions, eidChangeCallback,
                     scan, calls, known, regStatus, extReceiveCallback>>
  PROVE  TypeInv'
BY DEF TypeInv, TypeOK, BusTypeOK, ScanShape

\* Handling a message preserves the type invariant.
LEMMA DispatchType ==
  ASSUME TypeInv, Dispatch
  PROVE  TypeInv'
<1> DEFINE m == Head(inbox)
<1>1. /\ m \in Message /\ inbox' \in Seq(Message)
      /\ UNCHANGED <<up, life, eps, ownEid, watching>>
  BY DEF Dispatch, TypeInv, TypeOK, BusTypeOK
<1>r. UNCHANGED extReceiveCallback /\ received' \in SUBSET Delivery
  <2>1. CASE received' = {} /\ UNCHANGED extReceiveCallback
    BY <2>1
  <2>2. CASE OnMessageReceived(m)
    BY <1>1, <2>2, HandedType DEF OnMessageReceived, TypeInv
  <2> QED
    BY <2>1, <2>2 DEF Dispatch
<1> HIDE DEF m
<1> USE MessageFields, <1>1, <1>r
<1>2. CASE OnServices(m)
  <2>1. /\ m.to \in Callers /\ m.services \in SUBSET Services
        /\ <<>> \in Seq(Services) /\ FindBuses(m.to, m.services, <<>>)
    BY <1>2 DEF OnServices
  <2>2. matchedBuses' \in SUBSET Name
    BY <1>2 DEF OnServices, TypeInv, TypeOK
  <2>3. FindOK
    BY <2>1, <2>2, FindBusesType
  <2> QED
    BY <1>2, <2>2, <2>3, ScanStepType DEF OnServices, TypeInv, TypeOK
<1>3. CASE OnMapperError(m)
  <2>1. Return(m.to, TRUE) /\ FinishDetect /\ m.to \in Callers
    BY <1>3 DEF OnMapperError
  <2>2. FindOK
    BY <1>3, <2>1, ReturnType, FinishDetectType DEF OnMapperError, FindOK, TypeInv, TypeOK
  <2> QED
    BY <1>3, <2>2, ScanStepType DEF OnMapperError, TypeInv, TypeOK
<1>4. CASE OnOwner(m)
  <2> DEFINE buses == scan[m.to].buses
             w == buses[Len(buses)]
  <2>1. m.to \in Callers /\ scan[m.to] \in Scan /\ buses # <<>>
    BY <1>4 DEF OnOwner, TypeInv, TypeOK, ScanShape
  <2>2. buses \in Seq(Services) /\ w \in Services /\ scan[m.to].todo \in SUBSET Services
    BY <2>1 DEF Scan
  <2>3. NameToMatch(m, w) \in Name
    BY <2>2, BusAssumption DEF NameToMatch, WellKnown, Name
  <2>4. matchedBuses' \in SUBSET Name
    BY <1>4, <2>3 DEF OnOwner, TypeInv, TypeOK
  <2>5. FindOK
    BY <1>4, <2>1, <2>2, <2>4, FindBusesType DEF OnOwner
  <2> QED
    BY <1>4, <2>4, <2>5, ScanStepType DEF OnOwner, TypeInv, TypeOK
<1>5. CASE OnObjects(m)
  <2> DEFINE w == Head(scan[m.to].buses)
  <2>1. /\ m.to \in Callers /\ scan[m.to] \in Scan
        /\ scan[m.to].buses # <<>> /\ m.eids \in SUBSET Eids
    BY <1>5 DEF OnObjects, TypeInv, TypeOK, ScanShape
  <2>2. /\ w \in Services /\ Tail(scan[m.to].buses) \in Seq(Services)
        /\ scan[m.to].found \in EndpointMap
    BY <2>1 DEF Scan
  <2>3. WellKnown(w) \in Name
    BY <2>2, BusAssumption DEF WellKnown, Name
  <2>4. networkIDCache' \in [Name -> Networks \cup {NoNetwork}]
    BY <1>5, <2>3, NetworkCacheType DEF OnObjects, TypeInv
  <2>5. PICK listed \in Listings(w, m.eids) :
          BuildMap(m.to, Tail(scan[m.to].buses), FoundOn(m.to, w, listed))
    BY <1>5 DEF OnObjects
  <2>6. FoundOn(m.to, w, listed) \in EndpointMap
    BY <2>2, <2>3 DEF FoundOn, EndpointMap
  <2>7. FindOK
    BY <1>5, <2>1, <2>2, <2>5, <2>6, BuildMapType DEF OnObjects, TypeInv, TypeOK
  <2> QED
    BY <1>5, <2>4, <2>7, ScanStepType DEF OnObjects, TypeInv, TypeOK
<1>6. CASE OnObjectsError(m)
  <2>1. /\ m.to \in Callers /\ scan[m.to] \in Scan
        /\ scan[m.to].buses # <<>>
    BY <1>6 DEF OnObjectsError, TypeInv, TypeOK, ScanShape
  <2>2. /\ Tail(scan[m.to].buses) \in Seq(Services)
        /\ scan[m.to].found \in EndpointMap
    BY <2>1 DEF Scan
  <2>3. FindOK
    BY <1>6, <2>1, <2>2, BuildMapType DEF OnObjectsError, TypeInv, TypeOK
  <2> QED
    BY <1>6, <2>3, ScanStepType DEF OnObjectsError, TypeInv, TypeOK
<1>7. CASE OnNewService(m)
  <2>1. m.from \in Name
    BY <1>7 DEF OnNewService
  <2>2. matchedBuses' \in SUBSET Name
    BY <1>7, <2>1 DEF OnNewService, TypeInv, TypeOK
  <2>3. /\ registered' \in [Services -> Registration]
        /\ ownReported' \in [Name -> Report]
    BY <1>7, <2>1, CallsType DEF OnNewService, TypeInv
  <2> QED
    BY <1>7, <2>2, <2>3, HandlerStepType DEF OnNewService, TypeInv, TypeOK
<1>8. CASE OnNewEID(m)
  <2>1. m.from \in Name /\ m.eid \in Eids
    BY <1>8 DEF OnNewEID
  <2>2. networkIDCache' \in [Name -> Networks \cup {NoNetwork}]
    BY <1>8, <2>1, NetworkCacheType DEF OnNewEID, TypeInv
  <2>3. [type |-> "deviceAdded", service |-> m.from,
         deviceId |-> getDeviceIDFromPath(m.eid, m.from)] \in Event
    BY <2>1, DeviceIdType DEF Event, TypeInv
  <2>4. spawned' \in Seq(Event)
    BY <1>8, <2>3 DEF OnNewEID, TypeInv, TypeOK
  <2> QED
    BY <1>8, <2>2, <2>4, HandlerStepType
       DEF OnNewEID, TypeInv, TypeOK, BusTypeOK
<1>9. CASE OnEIDRemoved(m)
  <2> DEFINE d == getDeviceIDFromPath(m.eid, m.from)
  <2>1. m.from \in Name /\ m.eid \in Eids
    BY <1>9 DEF OnEIDRemoved
  <2>2. d \in DevIds /\ networkIDCache' \in [Name -> Networks \cup {NoNetwork}]
    BY <1>9, <2>1, DeviceIdType, NetworkCacheType DEF OnEIDRemoved, TypeInv
  <2>3. endpointMap' \in EndpointMap
    BY <1>9, <2>2, OperatorTypes DEF OnEIDRemoved, TypeInv
  <2>4. [type |-> "deviceRemoved", deviceId |-> d] \in Event
    BY <2>2 DEF Event
  <2>5. spawned' \in Seq(Event)
    BY <1>9, <2>4 DEF OnEIDRemoved, TypeInv, TypeOK
  <2> QED
    BY <1>9, <2>2, <2>3, <2>5, HandlerStepType
       DEF OnEIDRemoved, TypeInv, TypeOK, BusTypeOK
<1>10. CASE OnServiceRemoved(m)
  BY <1>10, HandlerStepType DEF OnServiceRemoved, TypeInv, TypeOK, BusTypeOK
<1>11. CASE OnOwnEIDChange(m)
  <2>1. ownReported' \in [Name -> Report]
    BY <1>11 DEF OnOwnEIDChange, Report, TypeInv, TypeOK
  <2> QED
    BY <1>11, <2>1, HandlerStepType DEF OnOwnEIDChange, TypeInv, TypeOK, BusTypeOK
<1>12. CASE IgnoreEvent(m)
  BY <1>12, HandlerStepType
     DEF IgnoreEvent, libVars, appVars, TypeInv, TypeOK, BusTypeOK
<1>13. CASE OnMessageReceived(m)
  <2>1. m.from \in Name
    BY <1>13 DEF OnMessageReceived
  <2>2. networkIDCache' \in [Name -> Networks \cup {NoNetwork}]
    BY <1>13, <2>1, NetworkCacheType DEF OnMessageReceived, TypeInv, TypeOK
  <2> QED
    BY <1>13, <2>2, HandlerStepType
       DEF OnMessageReceived, appVars, TypeInv, TypeOK, BusTypeOK
<1> QED
  BY <1>2, <1>3, <1>4, <1>5, <1>6, <1>7, <1>8, <1>9, <1>10, <1>11, <1>12, <1>13
     DEF Dispatch, m

-----------------------------------------------------------------------------
(* Type correctness: coroutines, the application, the services. *)

\* A spawned coroutine preserves the type invariant.
LEMMA RunSpawnedType ==
  ASSUME TypeInv, RunSpawned
  PROVE  TypeInv'
<1> DEFINE event == Head(spawned)
           d == event.deviceId
<1>1. event \in Event /\ spawned' \in Seq(Event)
  BY DEF RunSpawned, TypeInv, TypeOK
<1>2. d \in DevIds /\ (event.type = "deviceAdded" => event.service \in Name)
  BY <1>1, EventFields
<1>3. endpointMap' \in EndpointMap /\ known' \in SUBSET DevIds
  BY <1>2, OperatorTypes DEF RunSpawned, TypeInv, TypeOK
<1> QED
  BY <1>1, <1>3 DEF RunSpawned, busVars, rxVars, TypeInv, TypeOK, BusTypeOK, ScanShape

\* The application's calls preserve the type invariant.
LEMMA ApplicationType ==
  ASSUME TypeInv, Application
  PROVE  TypeInv'
<1>1. ASSUME NEW c \in Callers, DetectMctpEndpoints(c)
      PROVE  TypeInv'
  <2>1. [caller |-> c, method |-> "GetObject"] \in Call
    BY DEF Call
  <2>2. calls' \in SUBSET Call
    BY <1>1, <2>1 DEF DetectMctpEndpoints, TypeInv, TypeOK, BusTypeOK
  <2>3. <<>> \in Seq(Services)
    OBVIOUS
  <2>4. scan' \in [Callers -> Scan] /\ ScanShape'
    BY <1>1, <2>3, EmptyMapType, SuspendType DEF DetectMctpEndpoints
  <2> QED
    BY <1>1, <2>2, <2>4
       DEF DetectMctpEndpoints, listenForMCTPChanges, appVars, rxVars, TypeInv,
           TypeOK, BusTypeOK
<1>2. ASSUME NEW v \in Versions, RegisterResponder(v)
      PROVE  TypeInv'
  <2>1. registered' \in [Services -> Registration]
    BY <1>2, CallsType DEF RegisterResponder, TypeInv, TypeOK
  <2>2. regStatus' \in {"none", "success", "io_error"}
    BY <1>2 DEF RegisterResponder
  <2> QED
    BY <1>2, <2>1, <2>2
       DEF RegisterResponder, rxVars, TypeInv, TypeOK, BusTypeOK, ScanShape
<1>3. ASSUME GetOwnEIDs
      PROVE  TypeInv'
  <2>1. ownReported' \in [Name -> Report]
    BY <1>3, CallsType DEF GetOwnEIDs, TypeInv, TypeOK
  <2> QED
    BY <1>3, <2>1 DEF GetOwnEIDs, busVars, rxVars, TypeInv, TypeOK, BusTypeOK, ScanShape
<1>4. CASE RegisterNothing
  BY <1>4 DEF RegisterNothing, busVars, libVars, rxVars, TypeInv, TypeOK, BusTypeOK,
              ScanShape
<1>5. CASE SetExtendedReceiveCallback
  BY <1>5 DEF SetExtendedReceiveCallback, busVars, libVars, appVars, TypeInv, TypeOK,
              BusTypeOK, ScanShape
<1> QED
  BY <1>1, <1>2, <1>3, <1>4, <1>5 DEF Application

\* A signal leaves a well-typed inbox.
LEMMA EmitType ==
  ASSUME inbox \in Seq(Message), NEW m \in Message, Emit(m)
  PROVE  inbox' \in Seq(Message)
BY DEF Emit

\* The unique name of a service is a name.
LEMMA UniqueType ==
  ASSUME BusTypeOK, NEW w \in Services
  PROVE  Unique(w) \in Name
BY DEF BusTypeOK, Unique, Name

\* The steps of the services preserve the type invariant.
LEMMA ServiceStepType ==
  ASSUME BusTypeOK, NEW w \in Services, ServiceStep(w)
  PROVE  BusTypeOK'
<1>1. CASE StartService(w)
  <2>1. <<w, life[w] + 1>> \in Name /\ life[w] + 1 \in 0 .. MaxLives
    BY <1>1, BusAssumption DEF StartService, BusTypeOK, Name
  <2>2. inbox' \in Seq(Message)
    BY <1>1, <2>1, SignalTypes, EmitType DEF StartService, BusTypeOK
  <2> QED
    BY <1>1, <2>1, <2>2 DEF StartService, BusTypeOK
<1>2. CASE StopService(w)
  <2>1. inbox' \in Seq(Message)
    BY <1>2, UniqueType, SignalTypes, EmitType DEF StopService, BusTypeOK
  <2> QED
    BY <1>2, <2>1 DEF StopService, Unregistered, Registration, BusTypeOK
<1>3. CASE CrashService(w)
  BY <1>3 DEF CrashService, Unregistered, Registration, BusTypeOK
<1>4. ASSUME NEW e \in Eids, AddEndpoint(w, e)
      PROVE  BusTypeOK'
  <2>1. inbox' \in Seq(Message)
    BY <1>4, UniqueType, SignalTypes, EmitType DEF AddEndpoint, BusTypeOK
  <2> QED
    BY <1>4, <2>1 DEF AddEndpoint, BusTypeOK
<1>5. ASSUME NEW e \in Eids, RemoveEndpoint(w, e)
      PROVE  BusTypeOK'
  <2>1. inbox' \in Seq(Message)
    BY <1>5, UniqueType, SignalTypes, EmitType DEF RemoveEndpoint, BusTypeOK
  <2> QED
    BY <1>5, <2>1 DEF RemoveEndpoint, BusTypeOK
<1>6. CASE ChangeOwnEid(w)
  <2>1. inbox' \in Seq(Message)
    BY <1>6, UniqueType, SignalTypes, EmitType DEF ChangeOwnEid, BusTypeOK
  <2> QED
    BY <1>6, <2>1 DEF ChangeOwnEid, BusTypeOK
<1>7. ASSUME NEW e \in Eids, SendMessage(w, e)
      PROVE  BusTypeOK'
  <2>1. inbox' \in Seq(Message)
    BY <1>7, UniqueType, SignalTypes, EmitType DEF SendMessage, BusTypeOK
  <2> QED
    BY <1>7, <2>1 DEF SendMessage, BusTypeOK
<1> QED
  BY <1>1, <1>2, <1>3, <1>4, <1>5, <1>6, <1>7 DEF ServiceStep

\* The answers to yielding calls preserve the type invariant.
LEMMA AnswerType ==
  ASSUME BusTypeOK, NEW call \in calls, Answer(call)
  PROVE  BusTypeOK'
<1>1. call \in Call
  BY DEF BusTypeOK
<1>2. ASSUME NEW reply \in Message, AnswerCall(call, reply)
      PROVE  BusTypeOK'
  BY <1>2 DEF AnswerCall, BusTypeOK
<1>3. ErrorTo(call) \in Message
  BY <1>1, CallFields, ReplyTypes DEF ErrorTo
<1>4. CASE AnswerGetObject(call)
  <2> DEFINE found == {w \in Bound : up[w]}
  <2>1. [type |-> "services", to |-> call.caller, services |-> found] \in Message
    BY <1>1, CallFields, ReplyTypes, BusAssumption
  <2> QED
    BY <1>2, <1>3, <1>4, <2>1 DEF AnswerGetObject
<1>5. CASE AnswerGetNameOwner(call)
  <2>1. call.service \in Services
    BY <1>1, <1>5, CallFields DEF AnswerGetNameOwner
  <2>2. [type |-> "owner", to |-> call.caller, owner |-> Unique(call.service)]
          \in Message
    BY <1>1, <2>1, UniqueType, CallFields, ReplyTypes
  <2> QED
    BY <1>2, <1>3, <1>5, <2>2 DEF AnswerGetNameOwner
<1>6. CASE AnswerGetManagedObjects(call)
  <2>1. call.service \in Services
    BY <1>1, <1>6, CallFields DEF AnswerGetManagedObjects
  <2>2. [type |-> "objects", to |-> call.caller, eids |-> eps[call.service]]
          \in Message
    BY <1>1, <2>1, CallFields, ReplyTypes DEF BusTypeOK
  <2> QED
    BY <1>2, <1>3, <1>6, <2>2 DEF AnswerGetManagedObjects
<1>7. CASE FailCall(call)
  BY <1>2, <1>3, <1>7 DEF FailCall
<1> QED
  BY <1>4, <1>5, <1>6, <1>7 DEF Answer

-----------------------------------------------------------------------------

\* Initial states are well typed.
LEMMA TypeInit == Init => TypeInv
<1> SUFFICES ASSUME Init PROVE TypeInv
  OBVIOUS
<1>1. BusTypeOK
  <2> USE DEF Init, BusInit
  <2>1. life \in [Services -> 0 .. MaxLives]
    BY BusAssumption
  <2>2. watching \in BOOLEAN /\ up \in [Services -> BOOLEAN]
    BY Zenon
  <2>3. registered \in [Services -> Registration]
    BY DEF Unregistered, Registration
  <2>4. calls \in SUBSET Call /\ inbox \in Seq(Message)
    OBVIOUS
  <2> QED
    BY <2>1, <2>2, <2>3, <2>4 DEF BusTypeOK
<1>2. [pc |-> "idle", todo |-> {}, buses |-> <<>>, found |-> EmptyMap,
       ec |-> "none", mapperFailed |-> FALSE] \in Scan
  BY EmptyMapType DEF Scan
<1>3. scan \in [Callers -> Scan] /\ ScanShape
  BY <1>2 DEF Init, ScanShape
<1>4. /\ networkIDCache \in [Name -> Networks \cup {NoNetwork}]
      /\ ownReported \in [Name -> Report]
  BY DEF Init, Report
<1>5. /\ isInitialisationsDone \in BOOLEAN /\ eidChangeCallback \in BOOLEAN
      /\ extReceiveCallback \in BOOLEAN
  BY Zenon DEF Init
<1>6. /\ endpointMap \in EndpointMap /\ matchedBuses \in SUBSET Name
      /\ responderVersions \in Versions \cup {NoVersion}
      /\ spawned \in Seq(Event) /\ known \in SUBSET DevIds
      /\ regStatus \in {"none", "success", "io_error"} /\ received \in SUBSET Delivery
  BY EmptyMapType DEF Init
<1> QED
  BY <1>1, <1>3, <1>4, <1>5, <1>6 DEF TypeInv, TypeOK

\* Every step preserves the type invariant.
LEMMA TypeStep ==
  ASSUME TypeInv, [Next]_vars
  PROVE  TypeInv'
<1>1. ASSUME BusTypeOK', UNCHANGED <<libVars, appVars, rxVars>>
      PROVE  TypeInv'
  BY <1>1 DEF libVars, appVars, rxVars, TypeInv, TypeOK, ScanShape
<1>2. CASE AnyService
  BY <1>1, <1>2, ServiceStepType DEF AnyService, TypeInv, TypeOK
<1>3. ASSUME NEW c \in Callers, Answers(c)
      PROVE  TypeInv'
  BY <1>1, <1>3, AnswerType DEF Answers, TypeInv, TypeOK
<1>4. CASE UNCHANGED vars
  BY <1>4 DEF vars, busVars, libVars, appVars, rxVars, TypeInv, TypeOK, BusTypeOK,
              ScanShape
<1> QED
  BY <1>2, <1>3, <1>4, DispatchType, RunSpawnedType, ApplicationType DEF Next

\* Every variable keeps the values its declaration in MCTPImpl can hold, and a
\* suspended coroutine has the bus it waits for.
THEOREM TypeCorrect == Spec => []TypeOK
<1>1. Spec => []TypeInv
  BY TypeInit, TypeStep, PTL DEF Spec
<1>2. TypeInv => TypeOK
  BY DEF TypeInv
<1> QED
  BY <1>1, <1>2, PTL

-----------------------------------------------------------------------------
(* Only services of the configured binding count.  The mapper names only      *)
(* them, so a scan visits, matches and finds only them; an added base object  *)
(* is matched only with the binding's interface; and an endpoint is heard     *)
(* only from a matched sender.                                                *)

BoundName == {n \in Name : n[1] \in Bound}
BoundMap == [DevIds -> BoundName \cup {NoService}]
BoundMessage ==
  {m \in Message : /\ m.type = "services" => m.services \subseteq Bound
                   /\ m.type = "owner" => m.owner \in BoundName}
BoundEvent ==
  {event \in Event : event.type = "deviceAdded" => event.service \in BoundName}

BoundScan ==
  \A c \in Callers : /\ scan[c].todo \subseteq Bound
                     /\ scan[c].buses \in Seq(Bound)
                     /\ scan[c].found \in BoundMap

BoundBus ==
  /\ \A call \in calls : call.method = "GetNameOwner" => call.service \in Bound
  /\ inbox \in Seq(BoundMessage)

BoundLib ==
  /\ matchedBuses \subseteq BoundName
  /\ endpointMap \in BoundMap
  /\ spawned \in Seq(BoundEvent)

BoundInv == BoundScan /\ BoundBus /\ BoundLib

\* The inductive invariant implies the property of the runs.
LEMMA BoundImplies == TypeInv /\ BoundInv => OnlyBoundServices
<1> SUFFICES ASSUME TypeInv, BoundInv PROVE OnlyBoundServices
  OBVIOUS
<1>1. \A n \in matchedBuses : n[1] \in Bound
  BY DEF BoundInv, BoundLib, BoundName
<1>2. \A d \in DevIds : endpointMap[d] # NoService => endpointMap[d][1] \in Bound
  BY DEF BoundInv, BoundLib, BoundMap, BoundName
<1>3. \A i \in DOMAIN spawned : spawned[i] \in BoundEvent
  BY DEF BoundInv, BoundLib
<1> QED
  BY <1>1, <1>2, <1>3 DEF OnlyBoundServices, BoundEvent, BoundName

\* The map of a fresh scan names no service.
LEMMA EmptyBound == EmptyMap \in BoundMap
BY DEF EmptyMap, BoundMap

\* Initially no service is matched or listed.
LEMMA BoundInit == Init => BoundInv
<1> SUFFICES ASSUME Init PROVE BoundInv
  OBVIOUS
<1>1. BoundScan
  <2>1. ASSUME NEW c \in Callers
        PROVE  scan[c].todo = {} /\ scan[c].buses = <<>> /\ scan[c].found = EmptyMap
    BY DEF Init
  <2>2. <<>> \in Seq(Bound)
    OBVIOUS
  <2> QED
    BY <2>1, <2>2, EmptyBound DEF BoundScan
<1>2. BoundBus /\ BoundLib
  BY EmptyBound DEF Init, BusInit, BoundBus, BoundLib
<1> QED
  BY <1>1, <1>2 DEF BoundInv

\* What a scan's step leaves of the parts of BoundInv it can disturb.
BoundFind ==
  /\ BoundScan'
  /\ endpointMap' \in BoundMap
  /\ \A call \in calls' : call.method = "GetNameOwner" => call.service \in Bound

\* A scan that yields with services of the binding keeps BoundScan.
LEMMA SuspendBound ==
  ASSUME TypeInv, BoundInv, NEW c \in Callers, NEW todo \in SUBSET Bound,
         NEW buses \in Seq(Bound), NEW found \in BoundMap, NEW pc,
         Suspend(c, pc, todo, buses, found)
  PROVE  BoundScan'
BY DEF Suspend, TypeInv, TypeOK, BoundInv, BoundScan

\* A scan that returns keeps BoundScan.
LEMMA ReturnBound ==
  ASSUME TypeInv, BoundInv, NEW c \in Callers, NEW failed, Return(c, failed)
  PROVE  BoundScan'
BY EmptyBound DEF Return, TypeInv, TypeOK, BoundInv, BoundScan

\* buildMatchingEndpointMap lists and asks only services of the binding.
LEMMA BuildMapBound ==
  ASSUME TypeInv, BoundInv, NEW c \in Callers, NEW buses \in Seq(Bound),
         NEW found \in BoundMap, BuildMap(c, buses, found)
  PROVE  BoundFind
<1>1. CASE buses # <<>>
  <2>1. Suspend(c, "objects", {}, buses, found)
    BY <1>1 DEF BuildMap
  <2>2. BoundScan'
    BY <2>1, SuspendBound
  <2>3. \A call \in calls' : call \in calls \/ call.method = "GetManagedObjects"
    <3> DEFINE asked == IF up[Head(buses)] THEN life[Head(buses)] ELSE 0
    <3>1. calls' = calls \cup {[caller |-> c, method |-> "GetManagedObjects",
                                service |-> Head(buses), life |-> asked]}
      BY <1>1 DEF BuildMap
    <3> HIDE DEF asked
    <3> QED
      BY <3>1
  <2>4. endpointMap' \in BoundMap
    BY <1>1 DEF BuildMap, BoundInv, BoundLib
  <2> QED
    BY <2>2, <2>3, <2>4 DEF BoundFind, BoundInv, BoundBus
<1>2. CASE buses = <<>>
  <2>1. Return(c, FALSE) /\ endpointMap' = found /\ calls' = calls
    BY <1>2 DEF BuildMap, FinishDetect
  <2>2. BoundScan'
    BY <2>1, ReturnBound
  <2> QED
    BY <2>1, <2>2 DEF BoundFind, BoundInv, BoundBus
<1> QED
  BY <1>1, <1>2

\* findBusByBindingType visits only services of the binding.
LEMMA FindBusesBound ==
  ASSUME TypeInv, BoundInv, NEW c \in Callers, NEW todo \in SUBSET Bound,
         NEW buses \in Seq(Bound), FindBuses(c, todo, buses)
  PROVE  BoundFind
<1>1. CASE BuildMap(c, buses, EmptyMap)
  BY <1>1, BuildMapBound, EmptyBound
<1>2. ASSUME NEW w \in todo, NEW skipped \in SUBSET todo,
             calls' = calls \cup
               {[caller |-> c, method |-> "GetNameOwner", service |-> w]},
             Suspend(c, "owner", todo \ (skipped \cup {w}), Append(buses, w),
                     EmptyMap),
             UNCHANGED endpointMap
      PROVE  BoundFind
  <2>1. Append(buses, w) \in Seq(Bound) /\ todo \ (skipped \cup {w}) \in SUBSET Bound
    OBVIOUS
  <2>2. BoundScan'
    BY <1>2, <2>1, EmptyBound, SuspendBound
  <2> QED
    BY <1>2, <2>2 DEF BoundFind, BoundInv, BoundBus, BoundLib
<1> QED
  BY <1>1, <1>2 DEF FindBuses

\* Handling a message preserves BoundInv.
LEMMA BoundDispatch ==
  ASSUME TypeInv, BoundInv, Dispatch
  PROVE  BoundInv'
<1> DEFINE m == Head(inbox)
<1>1. m \in BoundMessage /\ inbox' \in Seq(BoundMessage)
  BY DEF Dispatch, BoundInv, BoundBus
<1>2. m \in Message
  BY <1>1 DEF BoundMessage
<1> HIDE DEF m
<1>a. ASSUME BoundFind, UNCHANGED spawned, matchedBuses' \subseteq BoundName
      PROVE  BoundInv'
  BY <1>a, <1>1 DEF BoundFind, BoundInv, BoundBus, BoundLib
<1>b. ASSUME BoundLib', UNCHANGED <<scan, calls>>
      PROVE  BoundInv'
  BY <1>b, <1>1 DEF BoundInv, BoundBus, BoundScan
<1>2a. CASE OnServices(m)
  <2>1. /\ m.to \in Callers /\ m.services \in SUBSET Bound /\ <<>> \in Seq(Bound)
        /\ FindBuses(m.to, m.services, <<>>)
    BY <1>1, <1>2, <1>2a, MessageFields DEF OnServices, BoundMessage
  <2> QED
    BY <1>a, <1>2a, <2>1, FindBusesBound DEF OnServices, BoundInv, BoundLib
<1>3. CASE OnMapperError(m)
  <2>1. m.to \in Callers
    BY <1>2, <1>3, MessageFields DEF OnMapperError
  <2>2. BoundScan'
    BY <1>3, <2>1, ReturnBound DEF OnMapperError
  <2>3. BoundFind
    BY <1>3, <2>2 DEF OnMapperError, FinishDetect, BoundFind, BoundInv, BoundBus, BoundLib
  <2> QED
    BY <1>a, <1>3, <2>3 DEF OnMapperError, BoundInv, BoundLib
<1>4. CASE OnOwner(m)
  <2> DEFINE buses == scan[m.to].buses
             w == buses[Len(buses)]
  <2>1. m.to \in Callers /\ buses # <<>>
    BY <1>2, <1>4, MessageFields DEF OnOwner, TypeInv, ScanShape
  <2>2. buses \in Seq(Bound) /\ scan[m.to].todo \in SUBSET Bound
    BY <2>1 DEF BoundInv, BoundScan
  <2>3. w \in Bound
    BY <2>1, <2>2
  <2>4. NameToMatch(m, w) \in BoundName
    BY <1>1, <2>3, BusAssumption
       DEF NameToMatch, WellKnown, Name, BoundName, BoundMessage
  <2>5. matchedBuses' \subseteq BoundName
    BY <1>4, <2>4 DEF OnOwner, BoundInv, BoundLib
  <2>6. BoundFind
    BY <1>4, <2>1, <2>2, FindBusesBound DEF OnOwner
  <2> QED
    BY <1>a, <1>4, <2>5, <2>6 DEF OnOwner
<1>5. CASE OnObjects(m)
  <2> DEFINE w == Head(scan[m.to].buses)
  <2>1. m.to \in Callers /\ scan[m.to].buses # <<>>
    BY <1>2, <1>5, MessageFields DEF OnObjects, TypeInv, ScanShape
  <2>2. /\ w \in Bound /\ Tail(scan[m.to].buses) \in Seq(Bound)
        /\ scan[m.to].found \in BoundMap
    BY <2>1 DEF BoundInv, BoundScan
  <2>3. WellKnown(w) \in BoundName
    BY <2>2, BusAssumption DEF WellKnown, Name, BoundName
  <2>4. PICK listed \in Listings(w, m.eids) :
          BuildMap(m.to, Tail(scan[m.to].buses), FoundOn(m.to, w, listed))
    BY <1>5 DEF OnObjects
  <2>5. FoundOn(m.to, w, listed) \in BoundMap
    BY <2>2, <2>3 DEF FoundOn, BoundMap
  <2>6. BoundFind
    BY <2>1, <2>2, <2>4, <2>5, BuildMapBound
  <2> QED
    BY <1>a, <1>5, <2>6 DEF OnObjects, BoundInv, BoundLib
<1>6. CASE OnObjectsError(m)
  <2>1. m.to \in Callers /\ scan[m.to].buses # <<>>
    BY <1>2, <1>6, MessageFields DEF OnObjectsError, TypeInv, ScanShape
  <2>2. Tail(scan[m.to].buses) \in Seq(Bound) /\ scan[m.to].found \in BoundMap
    BY <2>1 DEF BoundInv, BoundScan
  <2>3. BoundFind
    BY <1>6, <2>1, <2>2, BuildMapBound DEF OnObjectsError
  <2> QED
    BY <1>a, <1>6, <2>3 DEF OnObjectsError, BoundInv, BoundLib
<1>7. CASE OnNewService(m)
  <2>1. m.from \in BoundName
    BY <1>2, <1>7, MessageFields DEF OnNewService, OffersBinding, BoundName
  <2>2. BoundLib'
    BY <1>7, <2>1 DEF OnNewService, BoundInv, BoundLib
  <2> QED
    BY <1>b, <1>7, <2>2 DEF OnNewService
<1>8. CASE OnNewEID(m)
  <2>1. m.from \in BoundName /\ m.eid \in Eids
    BY <1>2, <1>8, MessageFields DEF OnNewEID, Heard, BoundInv, BoundLib
  <2>2. getDeviceIDFromPath(m.eid, m.from) \in DevIds
    BY <2>1, DeviceIdType DEF BoundName, TypeInv
  <2>3. [type |-> "deviceAdded", service |-> m.from,
         deviceId |-> getDeviceIDFromPath(m.eid, m.from)] \in BoundEvent
    BY <2>1, <2>2 DEF BoundEvent, BoundName, Event
  <2>4. BoundLib'
    BY <1>8, <2>3 DEF OnNewEID, BoundInv, BoundLib
  <2> QED
    BY <1>b, <1>8, <2>4 DEF OnNewEID
<1>9. CASE OnEIDRemoved(m)
  <2> DEFINE d == getDeviceIDFromPath(m.eid, m.from)
  <2>1. d \in DevIds
    BY <1>2, <1>9, MessageFields, DeviceIdType DEF OnEIDRemoved, TypeInv
  <2>2. eraseDevice(d) \in BoundMap
    BY DEF eraseDevice, BoundInv, BoundLib, BoundMap
  <2>3. [type |-> "deviceRemoved", deviceId |-> d] \in BoundEvent
    BY <2>1 DEF BoundEvent, Event
  <2>4. BoundLib'
    BY <1>9, <2>2, <2>3 DEF OnEIDRemoved, BoundInv, BoundLib
  <2> QED
    BY <1>b, <1>9, <2>4 DEF OnEIDRemoved
<1>10. CASE OnServiceRemoved(m)
  BY <1>b, <1>10 DEF OnServiceRemoved, BoundInv, BoundLib
<1>11. CASE OnOwnEIDChange(m)
  BY <1>b, <1>11 DEF OnOwnEIDChange, BoundInv, BoundLib
<1>12. CASE IgnoreEvent(m)
  BY <1>b, <1>12 DEF IgnoreEvent, libVars, BoundInv, BoundLib
<1>13. CASE OnMessageReceived(m)
  BY <1>b, <1>13 DEF OnMessageReceived, BoundInv, BoundLib
<1> QED
  BY <1>2a, <1>3, <1>4, <1>5, <1>6, <1>7, <1>8, <1>9, <1>10, <1>11, <1>12, <1>13
     DEF Dispatch, m

\* A spawned coroutine preserves BoundInv.
LEMMA BoundSpawned ==
  ASSUME TypeInv, BoundInv, RunSpawned
  PROVE  BoundInv'
<1> DEFINE event == Head(spawned)
<1>1. event \in BoundEvent /\ spawned' \in Seq(BoundEvent)
  BY DEF RunSpawned, BoundInv, BoundLib
<1>2. endpointMap' \in BoundMap
  BY <1>1 DEF RunSpawned, Emplaced, BoundEvent, BoundInv, BoundLib, BoundMap
<1> QED
  BY <1>1, <1>2 DEF RunSpawned, busVars, BoundInv, BoundScan, BoundBus, BoundLib

\* The application's calls preserve BoundInv.
LEMMA BoundApplication ==
  ASSUME TypeInv, BoundInv, Application
  PROVE  BoundInv'
<1>1. ASSUME NEW c \in Callers, DetectMctpEndpoints(c)
      PROVE  BoundInv'
  <2>1. <<>> \in Seq(Bound)
    OBVIOUS
  <2>2. BoundScan'
    BY <1>1, <2>1, EmptyBound, SuspendBound DEF DetectMctpEndpoints
  <2>3. \A call \in calls' : call \in calls \/ call.method = "GetObject"
    BY <1>1 DEF DetectMctpEndpoints
  <2> QED
    BY <1>1, <2>2, <2>3 DEF DetectMctpEndpoints, BoundInv, BoundBus, BoundLib
<1>2. ASSUME NEW v \in Versions, RegisterResponder(v)
      PROVE  BoundInv'
  BY <1>2 DEF RegisterResponder, BoundInv, BoundScan, BoundBus, BoundLib
<1>3. ASSUME GetOwnEIDs
      PROVE  BoundInv'
  BY <1>3 DEF GetOwnEIDs, busVars, BoundInv, BoundScan, BoundBus, BoundLib
<1>4. CASE RegisterNothing
  BY <1>4 DEF RegisterNothing, busVars, libVars, BoundInv, BoundScan, BoundBus, BoundLib
<1>5. CASE SetExtendedReceiveCallback
  BY <1>5 DEF SetExtendedReceiveCallback, busVars, libVars, BoundInv, BoundScan,
              BoundBus, BoundLib
<1> QED
  BY <1>1, <1>2, <1>3, <1>4, <1>5 DEF Application

\* The signals of the services preserve BoundInv.
LEMMA BoundServiceStep ==
  ASSUME TypeInv, BoundBus, NEW w \in Services, ServiceStep(w)
  PROVE  BoundBus'
<1>1. ASSUME NEW m \in Message, m.type \notin {"services", "owner"}, Emit(m),
             UNCHANGED calls
      PROVE  BoundBus'
  BY <1>1 DEF Emit, BoundBus, BoundMessage
<1> USE SignalTypes, UniqueType DEF TypeInv, TypeOK
<1>2. CASE StartService(w)
  <2>1. <<w, life[w] + 1>> \in Name
    BY <1>2, BusAssumption DEF StartService, BusTypeOK, Name
  <2> QED
    BY <1>1, <1>2, <2>1 DEF StartService
<1>3. CASE StopService(w)
  BY <1>1, <1>3 DEF StopService
<1>4. CASE CrashService(w)
  BY <1>4 DEF CrashService, BoundBus
<1>5. ASSUME NEW e \in Eids, AddEndpoint(w, e)
      PROVE  BoundBus'
  BY <1>1, <1>5 DEF AddEndpoint
<1>6. ASSUME NEW e \in Eids, RemoveEndpoint(w, e)
      PROVE  BoundBus'
  BY <1>1, <1>6 DEF RemoveEndpoint
<1>7. CASE ChangeOwnEid(w)
  BY <1>1, <1>7 DEF ChangeOwnEid
<1>8. ASSUME NEW e \in Eids, SendMessage(w, e)
      PROVE  BoundBus'
  BY <1>1, <1>8 DEF SendMessage
<1> QED
  BY <1>2, <1>3, <1>4, <1>5, <1>6, <1>7, <1>8 DEF ServiceStep

\* The mapper and the bus answer with services of the binding only.
LEMMA BoundAnswer ==
  ASSUME TypeInv, BoundBus, NEW call \in calls, Answer(call)
  PROVE  BoundBus'
<1>1. call \in Call /\ BusTypeOK
  BY DEF TypeInv, TypeOK, BusTypeOK
<1>2. ASSUME NEW reply \in BoundMessage, AnswerCall(call, reply)
      PROVE  BoundBus'
  BY <1>2 DEF AnswerCall, BoundBus
<1>3. ErrorTo(call) \in BoundMessage
  BY <1>1, CallFields, ReplyTypes DEF ErrorTo, BoundMessage
<1>4. CASE AnswerGetObject(call)
  <2> DEFINE found == {w \in Bound : up[w]}
  <2>1. [type |-> "services", to |-> call.caller, services |-> found]
          \in BoundMessage
    BY <1>1, CallFields, ReplyTypes, BusAssumption DEF BoundMessage
  <2> QED
    BY <1>2, <1>3, <1>4, <2>1 DEF AnswerGetObject
<1>5. CASE AnswerGetNameOwner(call)
  <2>1. call.service \in Bound
    BY <1>5 DEF AnswerGetNameOwner, BoundBus
  <2>2. Unique(call.service) \in BoundName
    BY <1>1, <2>1, BusAssumption, UniqueType DEF BoundName, Unique
  <2>3. [type |-> "owner", to |-> call.caller, owner |-> Unique(call.service)]
          \in BoundMessage
    BY <1>1, <2>2, CallFields, ReplyTypes DEF BoundMessage, BoundName
  <2> QED
    BY <1>2, <1>3, <1>5, <2>3 DEF AnswerGetNameOwner
<1>6. CASE AnswerGetManagedObjects(call)
  <2>1. [type |-> "objects", to |-> call.caller, eids |-> eps[call.service]]
          \in BoundMessage
    BY <1>1, <1>6, CallFields, ReplyTypes
       DEF AnswerGetManagedObjects, BoundMessage, BusTypeOK
  <2> QED
    BY <1>2, <1>3, <1>6, <2>1 DEF AnswerGetManagedObjects
<1>7. CASE FailCall(call)
  BY <1>2, <1>3, <1>7 DEF FailCall
<1> QED
  BY <1>4, <1>5, <1>6, <1>7 DEF Answer

\* Every step preserves BoundInv.
LEMMA BoundStep ==
  ASSUME TypeInv, BoundInv, [Next]_vars
  PROVE  BoundInv'
<1>1. ASSUME BoundBus', UNCHANGED libVars
      PROVE  BoundInv'
  BY <1>1 DEF libVars, BoundInv, BoundScan, BoundLib
<1>2. CASE AnyService
  BY <1>1, <1>2, BoundServiceStep DEF AnyService, BoundInv
<1>3. ASSUME NEW c \in Callers, Answers(c)
      PROVE  BoundInv'
  BY <1>1, <1>3, BoundAnswer DEF Answers, BoundInv
<1>4. CASE UNCHANGED vars
  BY <1>4 DEF vars, busVars, libVars, BoundInv, BoundScan, BoundBus, BoundLib
<1> QED
  BY <1>2, <1>3, <1>4, BoundDispatch, BoundSpawned, BoundApplication DEF Next

\* Services without the configured binding never get into the set of matched
\* services, the endpoint map or the coroutines that extend it, whatever
\* services start, signal or fail: findBusByBindingType and onNewInterface are
\* the only ways in, and both go by the binding's interface.
THEOREM OnlyBound == Spec => []OnlyBoundServices
<1>1. Init => TypeInv /\ BoundInv
  BY TypeInit, BoundInit
<1>2. TypeInv /\ BoundInv /\ [Next]_vars => (TypeInv /\ BoundInv)'
  BY TypeStep, BoundStep
<1> QED
  BY <1>1, <1>2, BoundImplies, PTL DEF Spec

-----------------------------------------------------------------------------
(* Responders.  A name that is matched, or on its way to be, belongs to a     *)
(* start of its service that has happened.  So a service that starts is not   *)
(* matched under its new name yet, and one that is matched under its present  *)
(* name and runs has run all the time since.                                  *)

Started(n, lives) == n[2] <= lives[n[1]]

StartedMessage(m, lives) ==
  /\ m.type \in {"serviceAdded", "serviceRemoved", "endpointAdded",
                 "endpointRemoved", "eidChanged", "message"} => Started(m.from, lives)
  /\ m.type = "owner" => Started(m.owner, lives)

LifeInv ==
  /\ \A n \in matchedBuses : Started(n, life)
  /\ \A i \in DOMAIN inbox : StartedMessage(inbox[i], life)

\* Initially nothing is matched or on its way.
LEMMA LifeInit == Init => LifeInv
BY DEF Init, BusInit, LifeInv

\* A handler matches only names that messages carried, or well-known ones.
LEMMA LifeDispatch ==
  ASSUME TypeInv, LifeInv, Dispatch
  PROVE  LifeInv'
<1> DEFINE m == Head(inbox)
<1>1. /\ m \in Message /\ StartedMessage(m, life)
      /\ \A i \in DOMAIN inbox' : StartedMessage(inbox'[i], life)
      /\ life' = life
  BY DEF Dispatch, LifeInv, TypeInv, TypeOK, BusTypeOK
<1> HIDE DEF m
<1>2. ASSUME \A n \in matchedBuses' : n \in matchedBuses \/ Started(n, life)
      PROVE  LifeInv'
  BY <1>1, <1>2 DEF LifeInv, Started, StartedMessage
<1>3. CASE OnServices(m)
  BY <1>2, <1>3 DEF OnServices
<1>4. CASE OnMapperError(m)
  BY <1>2, <1>4 DEF OnMapperError
<1>5. CASE OnOwner(m)
  <2> DEFINE buses == scan[m.to].buses
             w == buses[Len(buses)]
  <2>1. m.to \in Callers /\ scan[m.to] \in Scan /\ buses # <<>>
    BY <1>1, <1>5, MessageFields DEF OnOwner, TypeInv, TypeOK, ScanShape
  <2>2. w \in Services
    BY <2>1 DEF Scan
  <2>3. Started(NameToMatch(m, w), life)
    BY <1>1, <2>2 DEF NameToMatch, WellKnown, Started, StartedMessage, TypeInv,
                      TypeOK, BusTypeOK
  <2> QED
    BY <1>2, <1>5, <2>3 DEF OnOwner
<1>6. CASE OnObjects(m)
  BY <1>2, <1>6 DEF OnObjects
<1>7. CASE OnObjectsError(m)
  BY <1>2, <1>7 DEF OnObjectsError
<1>8. CASE OnNewService(m)
  BY <1>1, <1>2, <1>8 DEF OnNewService, StartedMessage
<1>9. CASE OnNewEID(m)
  BY <1>2, <1>9 DEF OnNewEID
<1>10. CASE OnEIDRemoved(m)
  BY <1>2, <1>10 DEF OnEIDRemoved
<1>11. CASE OnServiceRemoved(m)
  BY <1>2, <1>11 DEF OnServiceRemoved
<1>12. CASE OnOwnEIDChange(m)
  BY <1>2, <1>12 DEF OnOwnEIDChange
<1>13. CASE IgnoreEvent(m)
  BY <1>2, <1>13 DEF IgnoreEvent, libVars
<1>14. CASE OnMessageReceived(m)
  BY <1>2, <1>14 DEF OnMessageReceived
<1> QED
  BY <1>3, <1>4, <1>5, <1>6, <1>7, <1>8, <1>9, <1>10, <1>11, <1>12, <1>13, <1>14
     DEF Dispatch, m

\* A service signs its signals with the name of a start that has happened.
LEMMA LifeServiceStep ==
  ASSUME TypeInv, LifeInv, NEW w \in Services, ServiceStep(w), UNCHANGED libVars
  PROVE  LifeInv'
<1> USE DEF TypeInv, TypeOK, BusTypeOK
<1>1. ASSUME life' = life \/ life' = [life EXCEPT ![w] = @ + 1],
             NEW m \in Message, StartedMessage(m, life'), Emit(m)
      PROVE  LifeInv'
  <2>1. \A n \in Name : Started(n, life) => Started(n, life')
    <3>1. \A s \in Services :
            life[s] \in Int /\ (life'[s] = life[s] \/ life'[s] = life[s] + 1)
      BY <1>1
    <3> TAKE n \in Name
    <3>2. n[1] \in Services /\ n[2] \in Int
      BY BusAssumption DEF Name
    <3> DEFINE a == n[2]
               b == life[n[1]]
               d == life'[n[1]]
    <3>3. a \in Int /\ b \in Int /\ (d = b \/ d = b + 1)
      BY <3>1, <3>2
    <3>4. (Started(n, life) <=> a <= b) /\ (Started(n, life') <=> a <= d)
      BY DEF Started
    <3> HIDE DEF a, b, d
    <3>5. a <= b => a <= d
      BY <3>3
    <3> QED
      BY <3>4, <3>5
  <2>2. \A x \in Message : StartedMessage(x, life) => StartedMessage(x, life')
    BY <2>1, MessageFields DEF StartedMessage
  <2>3. \A i \in DOMAIN inbox' :
          inbox'[i] = m \/ \E j \in DOMAIN inbox : inbox'[i] = inbox[j]
    BY <1>1 DEF Emit
  <2>4. \A j \in DOMAIN inbox : inbox[j] \in Message
    OBVIOUS
  <2>5. \A i \in DOMAIN inbox' : StartedMessage(inbox'[i], life')
    BY <1>1, <2>2, <2>3, <2>4 DEF LifeInv
  <2>6. \A n \in matchedBuses' : Started(n, life')
    BY <2>1 DEF LifeInv, libVars
  <2> QED
    BY <2>5, <2>6 DEF LifeInv
<1>2. Started(Unique(w), life) /\ Unique(w) \in Name
  BY UniqueType DEF Started, Unique
<1> USE SignalTypes
<1>3. CASE StartService(w)
  <2> DEFINE n == <<w, life[w] + 1>>
             m == [type |-> "serviceAdded", from |-> n]
  <2>1. n \in Name /\ life'[w] = life[w] + 1 /\ n[1] = w /\ n[2] = life[w] + 1
    BY <1>3, BusAssumption DEF StartService, Name
  <2>2. Started(n, life')
    BY <2>1 DEF Started
  <2> HIDE DEF n
  <2>3. m \in Message /\ StartedMessage(m, life')
    BY <2>1, <2>2 DEF StartedMessage
  <2>4. Emit(m) /\ life' = [life EXCEPT ![w] = @ + 1]
    BY <1>3 DEF StartService, n
  <2> HIDE DEF m
  <2> QED
    BY <1>1, <2>3, <2>4
<1>4. CASE StopService(w)
  BY <1>1, <1>2, <1>4 DEF StopService, StartedMessage, Started
<1>5. CASE CrashService(w)
  BY <1>5 DEF CrashService, LifeInv, libVars, Started, StartedMessage
<1>6. ASSUME NEW e \in Eids, AddEndpoint(w, e)
      PROVE  LifeInv'
  BY <1>1, <1>2, <1>6 DEF AddEndpoint, StartedMessage, Started
<1>7. ASSUME NEW e \in Eids, RemoveEndpoint(w, e)
      PROVE  LifeInv'
  BY <1>1, <1>2, <1>7 DEF RemoveEndpoint, StartedMessage, Started
<1>8. CASE ChangeOwnEid(w)
  BY <1>1, <1>2, <1>8 DEF ChangeOwnEid, StartedMessage, Started
<1>9. ASSUME NEW e \in Eids, SendMessage(w, e)
      PROVE  LifeInv'
  BY <1>1, <1>2, <1>9 DEF SendMessage, StartedMessage, Started
<1> QED
  BY <1>3, <1>4, <1>5, <1>6, <1>7, <1>8, <1>9 DEF ServiceStep

\* GetNameOwner is answered with the name of a start that has happened.
LEMMA LifeAnswer ==
  ASSUME TypeInv, LifeInv, NEW call \in calls, Answer(call), UNCHANGED libVars
  PROVE  LifeInv'
<1> USE DEF TypeInv, TypeOK, BusTypeOK
<1>1. call \in Call
  OBVIOUS
<1>2. ASSUME NEW reply, StartedMessage(reply, life), AnswerCall(call, reply)
      PROVE  LifeInv'
  <2>1. \A i \in DOMAIN inbox' : inbox'[i] = reply \/ \E j \in DOMAIN inbox : inbox'[i] = inbox[j]
    BY <1>2 DEF AnswerCall
  <2> QED
    BY <1>2, <2>1 DEF AnswerCall, LifeInv, libVars, Started, StartedMessage
<1>3. StartedMessage(ErrorTo(call), life)
  BY DEF ErrorTo, StartedMessage
<1>4. CASE AnswerGetObject(call)
  BY <1>2, <1>3, <1>4 DEF AnswerGetObject, StartedMessage
<1>5. CASE AnswerGetNameOwner(call)
  <2>1. call.service \in Services
    BY <1>1, <1>5, CallFields DEF AnswerGetNameOwner
  <2>2. Started(Unique(call.service), life)
    BY <2>1 DEF Started, Unique
  <2>3. StartedMessage([type |-> "owner", to |-> call.caller,
                        owner |-> Unique(call.service)], life)
    BY <2>2 DEF StartedMessage
  <2> QED
    BY <1>2, <1>3, <1>5, <2>3 DEF AnswerGetNameOwner
<1>6. CASE AnswerGetManagedObjects(call)
  BY <1>2, <1>3, <1>6 DEF AnswerGetManagedObjects, StartedMessage
<1>7. CASE FailCall(call)
  BY <1>2, <1>3, <1>7 DEF FailCall
<1> QED
  BY <1>4, <1>5, <1>6, <1>7 DEF Answer

\* Every step preserves LifeInv.
LEMMA LifeStep ==
  ASSUME TypeInv, LifeInv, [Next]_vars
  PROVE  LifeInv'
<1>1. ASSUME UNCHANGED <<inbox, life, matchedBuses>>
      PROVE  LifeInv'
  BY <1>1 DEF LifeInv, Started, StartedMessage
<1>2. CASE RunSpawned
  BY <1>1, <1>2 DEF RunSpawned, busVars
<1>3. CASE Application
  BY <1>1, <1>3 DEF Application, DetectMctpEndpoints, RegisterResponder,
                    RegisterNothing, GetOwnEIDs, SetExtendedReceiveCallback,
                    busVars, libVars
<1>4. CASE AnyService
  BY <1>4, LifeServiceStep DEF AnyService
<1>5. ASSUME NEW c \in Callers, Answers(c)
      PROVE  LifeInv'
  BY <1>5, LifeAnswer DEF Answers
<1>6. CASE UNCHANGED vars
  BY <1>1, <1>6 DEF vars, busVars, libVars
<1> QED
  BY <1>2, <1>3, <1>4, <1>5, <1>6, LifeDispatch DEF Next

\* Service w has these versions unless the last call that was to tell it failed.
Covered(w, versions) == ~registered[w].missed => registered[w].versions = versions

\* registerResponder on each of names leaves every running service among them
\* that does not refuse with the versions, unless the call failed.
LEMMA RegisterCovers ==
  ASSUME NEW names \in SUBSET Name, NEW answered \in Answering(names), NEW v,
         NEW n \in names, n[2] # 0, Reachable(n), n[1] \notin Refusing,
         Register(names, answered, v)
  PROVE  Covered(n[1], v)'
<1>1. PICK late : registered' = Registered(names, answered, late, v)
  BY DEF Register
<1>2. n[1] \in Services
  BY DEF Name
<1> DEFINE Reached(called) == \E x \in called : Reachable(x) /\ x[1] = n[1]
<1>3. /\ Reached(answered \cup late) => registered'[n[1]].versions = v
      /\ registered'[n[1]].missed <=>
           ~Reached(answered) /\ (registered[n[1]].missed \/ Reached(names))
  BY <1>1, <1>2 DEF Registered
<1>4. Reached(names)
  OBVIOUS
<1>5. Reached(answered) => Reached(answered \cup late)
  OBVIOUS
<1> HIDE DEF Reached
<1> QED
  BY <1>3, <1>4, <1>5 DEF Covered

\* Registering again never takes the current versions from a service.
LEMMA RegisterAgainKeeps ==
  ASSUME NEW names \in SUBSET Name, NEW w \in Services \ Refusing,
         Covered(w, responderVersions), RegisterAgain(names)
  PROVE  ~registered'[w].missed => registered'[w].versions = responderVersions
<1>1. CASE UNCHANGED registered
  BY <1>1 DEF Covered
<1>2. ASSUME NEW answered \in Answering(names),
             Register(names, answered, responderVersions)
      PROVE  ~registered'[w].missed => registered'[w].versions = responderVersions
  <2>1. PICK late :
          registered' = Registered(names, answered, late, responderVersions)
    BY <1>2 DEF Register
  <2> DEFINE Reached(called) == \E x \in called : Reachable(x) /\ x[1] = w
  <2>2. /\ registered'[w].versions = IF Reached(answered \cup late)
                                    THEN responderVersions ELSE registered[w].versions
        /\ registered'[w].missed <=>
             ~Reached(answered) /\ (registered[w].missed \/ Reached(names))
    BY <2>1 DEF Registered
  <2>3. Reached(answered) => Reached(answered \cup late)
    OBVIOUS
  <2>4. Reached(answered) => Reached(names)
    BY DEF Answering
  <2> HIDE DEF Reached
  <2> QED
    BY <2>2, <2>3, <2>4 DEF Covered
<1> QED
  BY <1>1, <1>2 DEF RegisterAgain

\* Registering again with a service leaves it with the current versions, unless
\* the call failed.
LEMMA RegisterAgainCovers ==
  ASSUME NEW names \in SUBSET Name, NEW n \in names, n[2] # 0, Reachable(n),
         n[1] \notin Refusing, responderVersions # NoVersion, RegisterAgain(names)
  PROVE  ~registered'[n[1]].missed => registered'[n[1]].versions = responderVersions
<1>1. PICK answered \in Answering(names) : Register(names, answered, responderVersions)
  BY DEF RegisterAgain
<1> QED
  BY <1>1, RegisterCovers DEF Covered

\* What a step of a scan needs to leave ResponderCoverage true: that the scan is
\* still collecting, or has registered with everything matched.
LEMMA ScanCovers ==
  ASSUME matchedBuses' \in SUBSET Name, UNCHANGED <<up, life, responderVersions>>,
         Collecting' \/ RegisterAgain(matchedBuses')
  PROVE  ResponderCoverage'
<1> SUFFICES ASSUME responderVersions # NoVersion, ~Collecting',
                    NEW n \in Serving', n[1] \notin Refusing
             PROVE  ~registered'[n[1]].missed
                      => registered'[n[1]].versions = responderVersions
  BY DEF ResponderCoverage
<1>1. n \in matchedBuses' /\ n[2] # 0 /\ Reachable(n)
  BY DEF Serving, Reachable
<1> QED
  BY <1>1, RegisterAgainCovers

\* buildMatchingEndpointMap's step goes on collecting or registers again.
LEMMA BuildMapCovers ==
  ASSUME TypeInv, NEW c \in Callers, NEW buses, NEW found, BuildMap(c, buses, found)
  PROVE  Collecting' \/ RegisterAgain(matchedBuses')
<1>1. CASE Suspend(c, "objects", {}, buses, found)
  BY <1>1 DEF Suspend, Collecting, TypeInv, TypeOK
<1> QED
  BY <1>1 DEF BuildMap, FinishDetect

\* findBusByBindingType's step goes on collecting or registers again.
LEMMA FindBusesCovers ==
  ASSUME TypeInv, NEW c \in Callers, NEW todo, NEW buses, FindBuses(c, todo, buses)
  PROVE  Collecting' \/ RegisterAgain(matchedBuses')
<1>1. ASSUME NEW left, NEW next, Suspend(c, "owner", left, next, EmptyMap)
      PROVE  Collecting'
  BY <1>1 DEF Suspend, Collecting, TypeInv, TypeOK
<1> QED
  BY <1>1, BuildMapCovers DEF FindBuses

\* Handling a message preserves ResponderCoverage.
LEMMA CoverDispatch ==
  ASSUME TypeInv, TypeInv', ResponderCoverage, Dispatch
  PROVE  ResponderCoverage'
<1> DEFINE m == Head(inbox)
<1>1. m \in Message /\ UNCHANGED <<up, life>> /\ matchedBuses' \in SUBSET Name
  BY DEF Dispatch, TypeInv, TypeOK, BusTypeOK
<1> HIDE DEF m
<1>2. ASSUME UNCHANGED <<responderVersions, scan, registered>>,
             matchedBuses' \subseteq matchedBuses
      PROVE  ResponderCoverage'
  BY <1>1, <1>2 DEF ResponderCoverage, Collecting, Serving, Reachable
<1>3. ASSUME UNCHANGED responderVersions,
             Collecting' \/ RegisterAgain(matchedBuses')
      PROVE  ResponderCoverage'
  BY <1>1, <1>3, ScanCovers
<1>4. CASE OnServices(m)
  <2>1. m.to \in Callers /\ FindBuses(m.to, m.services, <<>>)
    BY <1>1, <1>4, MessageFields DEF OnServices
  <2> QED
    BY <1>3, <1>4, <2>1, FindBusesCovers DEF OnServices
<1>5. CASE OnMapperError(m)
  BY <1>3, <1>5 DEF OnMapperError, FinishDetect
<1>6. CASE OnOwner(m)
  <2>1. m.to \in Callers /\ FindBuses(m.to, scan[m.to].todo, scan[m.to].buses)
    BY <1>1, <1>6, MessageFields DEF OnOwner
  <2> QED
    BY <1>3, <1>6, <2>1, FindBusesCovers DEF OnOwner
<1>7. CASE OnObjects(m)
  <2>1. m.to \in Callers /\ \E buses, found : BuildMap(m.to, buses, found)
    BY <1>1, <1>7, MessageFields DEF OnObjects
  <2> QED
    BY <1>3, <1>7, <2>1, BuildMapCovers DEF OnObjects
<1>8. CASE OnObjectsError(m)
  <2>1. m.to \in Callers /\ \E buses, found : BuildMap(m.to, buses, found)
    BY <1>1, <1>8, MessageFields DEF OnObjectsError
  <2> QED
    BY <1>3, <1>8, <2>1, BuildMapCovers DEF OnObjectsError
<1>9. CASE OnNewService(m)
  <2> SUFFICES ASSUME responderVersions # NoVersion, ~Collecting,
                      NEW n \in Serving', n[1] \notin Refusing
               PROVE  ~registered'[n[1]].missed
                        => registered'[n[1]].versions = responderVersions
    BY <1>9 DEF OnNewService, ResponderCoverage, Collecting
  <2>1. /\ n \in matchedBuses \cup {m.from} /\ n[2] # 0 /\ Reachable(n)
        /\ RegisterAgain({m.from})
        /\ m.from \in Name /\ n \in Name /\ n[1] \in Services
    BY <1>1, <1>9, MessageFields DEF OnNewService, Serving, Reachable, Name
  <2>2. CASE n = m.from
    BY <2>1, <2>2, RegisterAgainCovers
  <2>3. CASE n \in matchedBuses
    <3>1. Covered(n[1], responderVersions)
      BY <2>1, <2>3 DEF ResponderCoverage, Serving, Covered
    <3> QED
      BY <2>1, <3>1, RegisterAgainKeeps
  <2> QED
    BY <2>1, <2>2, <2>3
<1>10. CASE OnNewEID(m)
  BY <1>2, <1>10 DEF OnNewEID
<1>11. CASE OnEIDRemoved(m)
  BY <1>2, <1>11 DEF OnEIDRemoved
<1>12. CASE OnServiceRemoved(m)
  BY <1>2, <1>12 DEF OnServiceRemoved
<1>13. CASE OnOwnEIDChange(m)
  BY <1>2, <1>13 DEF OnOwnEIDChange
<1>14. CASE IgnoreEvent(m)
  BY <1>2, <1>14 DEF IgnoreEvent, libVars
<1>15. CASE OnMessageReceived(m)
  BY <1>2, <1>15 DEF OnMessageReceived
<1> QED
  BY <1>4, <1>5, <1>6, <1>7, <1>8, <1>9, <1>10, <1>11, <1>12, <1>13, <1>14, <1>15
     DEF Dispatch, m

\* The application's calls preserve ResponderCoverage.
LEMMA CoverApplication ==
  ASSUME TypeInv, ResponderCoverage, Application
  PROVE  ResponderCoverage'
<1>1. ASSUME NEW c \in Callers, DetectMctpEndpoints(c)
      PROVE  ResponderCoverage'
  <2>1. \A d \in Callers : scan'[d].pc \in {"owner", "objects"}
                            <=> scan[d].pc \in {"owner", "objects"}
    BY <1>1 DEF DetectMctpEndpoints, Suspend, TypeInv, TypeOK
  <2> QED
    BY <1>1, <2>1 DEF DetectMctpEndpoints, ResponderCoverage, Collecting, Serving,
                      Reachable
<1>2. ASSUME NEW v \in Versions, RegisterResponder(v)
      PROVE  ResponderCoverage'
  <2> SUFFICES ASSUME NEW n \in Serving', n[1] \notin Refusing
               PROVE  ~registered'[n[1]].missed
                        => registered'[n[1]].versions = responderVersions'
    BY DEF ResponderCoverage
  <2>1. /\ matchedBuses \in SUBSET Name
        /\ n \in matchedBuses /\ n[2] # 0 /\ Reachable(n)
    BY <1>2 DEF RegisterResponder, Serving, Reachable, TypeInv, TypeOK
  <2> QED
    BY <1>2, <2>1, RegisterCovers DEF RegisterResponder, Covered
<1>3. CASE GetOwnEIDs
  BY <1>3 DEF GetOwnEIDs, busVars, ResponderCoverage, Collecting, Serving, Reachable
<1>4. CASE RegisterNothing
  BY <1>4 DEF RegisterNothing, busVars, libVars, ResponderCoverage, Collecting,
              Serving, Reachable
<1>5. CASE SetExtendedReceiveCallback
  BY <1>5 DEF SetExtendedReceiveCallback, busVars, libVars, ResponderCoverage,
              Collecting, Serving, Reachable
<1> QED
  BY <1>1, <1>2, <1>3, <1>4, <1>5 DEF Application

\* A service that comes or goes takes names away from the bus, and adds only
\* that of its new start.
LEMMA StaysReachable ==
  ASSUME TypeInv, NEW w \in Services, ServiceStep(w), NEW n \in Name,
         n[2] # 0, Started(n, life), Reachable(n)'
  PROVE  Reachable(n) /\ (StartService(w) => n[1] # w)
<1>1. n[2] \in Int /\ n[1] \in Services
  BY BusAssumption DEF Name
<1>2. CASE StartService(w)
  <2>1. CASE n[1] = w
    <3>1. n[2] = life[w] + 1 /\ n[2] <= life[w] /\ life[w] \in Int
      BY <1>1, <1>2, <2>1
         DEF StartService, Reachable, Started, TypeInv, TypeOK, BusTypeOK
    <3> QED
      BY <1>1, <3>1
  <2>2. CASE n[1] # w
    BY <1>1, <1>2, <2>2 DEF StartService, Reachable, TypeInv, TypeOK, BusTypeOK
  <2> QED
    BY <2>1, <2>2
<1>3. CASE ~StartService(w)
  <2>1. life' = life /\ \A x \in Services : up'[x] => up[x]
    BY <1>3 DEF ServiceStep, StopService, CrashService, AddEndpoint, RemoveEndpoint,
                ChangeOwnEid, SendMessage, TypeInv, TypeOK, BusTypeOK
  <2> QED
    BY <1>1, <1>3, <2>1 DEF Reachable
<1> QED
  BY <1>2, <1>3

\* A service that comes or goes preserves ResponderCoverage: under the name of
\* a new start it is not matched yet.
LEMMA CoverServiceStep ==
  ASSUME TypeInv, LifeInv, ResponderCoverage, NEW w \in Services, ServiceStep(w),
         UNCHANGED libVars
  PROVE  ResponderCoverage'
<1>1. \A x \in Services : up'[x] => registered'[x] = registered[x]
  BY DEF ServiceStep, StartService, StopService, CrashService, AddEndpoint,
         RemoveEndpoint, ChangeOwnEid, SendMessage, TypeInv, TypeOK, BusTypeOK
<1>2. ASSUME NEW n \in matchedBuses, n[2] # 0, Reachable(n)'
      PROVE  Reachable(n) /\ registered'[n[1]] = registered[n[1]]
  <2>1. n \in Name /\ Started(n, life) /\ n[1] \in Services
    BY DEF LifeInv, TypeInv, TypeOK, Name
  <2>2. up'[n[1]]
    BY <1>2 DEF Reachable
  <2> QED
    BY <1>1, <1>2, <2>1, <2>2, StaysReachable
<1> QED
  BY <1>1, <1>2 DEF libVars, ResponderCoverage, Collecting, Serving

\* Every step preserves ResponderCoverage.
LEMMA CoverStep ==
  ASSUME TypeInv, TypeInv', LifeInv, ResponderCoverage, [Next]_vars
  PROVE  ResponderCoverage'
<1>1. ASSUME UNCHANGED <<up, life, registered, matchedBuses, responderVersions, scan>>
      PROVE  ResponderCoverage'
  BY <1>1 DEF ResponderCoverage, Collecting, Serving, Reachable
<1>2. CASE RunSpawned
  BY <1>1, <1>2 DEF RunSpawned, busVars
<1>3. CASE AnyService
  BY <1>3, CoverServiceStep DEF AnyService
<1>4. ASSUME NEW c \in Callers, Answers(c)
      PROVE  ResponderCoverage'
  <2>1. \E call, reply : AnswerCall(call, reply)
    BY <1>4 DEF Answers, Answer, AnswerGetObject, AnswerGetNameOwner,
               AnswerGetManagedObjects, FailCall
  <2> QED
    BY <1>1, <1>4, <2>1 DEF Answers, AnswerCall, libVars
<1>5. CASE UNCHANGED vars
  BY <1>1, <1>5 DEF vars, busVars, libVars
<1> QED
  BY <1>2, <1>3, <1>4, <1>5, CoverDispatch, CoverApplication DEF Next

\* Once the application has registered a responder, every running matched
\* service that does not refuse holds the versions registered last: those
\* registerResponder reached, those a scan found since and those onNewInterface
\* matched since, however often services stop, crash and come back, unless the
\* last call that was to tell the service failed.
THEOREM RespondersCovered == Spec => []ResponderCoverage
<1> DEFINE Inv == TypeInv /\ LifeInv /\ ResponderCoverage
<1>1. Init => Inv
  <2>1. Init => ResponderCoverage
    BY DEF Init, ResponderCoverage, Serving
  <2> QED
    BY <2>1, TypeInit, LifeInit
<1>2. Inv /\ [Next]_vars => Inv'
  BY TypeStep, LifeStep, CoverStep
<1>3. Inv => ResponderCoverage
  OBVIOUS
<1> QED
  BY <1>1, <1>2, <1>3, PTL DEF Spec

=============================================================================
