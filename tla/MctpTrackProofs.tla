--------------------------- MODULE MctpTrackProofs ---------------------------
(***************************************************************************)
(* Proofs about MctpTracking, part two: the endpoint map follows the bus,  *)
(* and the application is told what it needs to know, for every set of     *)
(* services, endpoints and callers, while services come and go.            *)
(***************************************************************************)
EXTENDS MctpScanProofs, MctpFeedProofs, DeviceIdsProofs

-----------------------------------------------------------------------------
(* What the proofs about the map start from. *)

GroundInv == TypeInv /\ BoundInv /\ LifeInv /\ BusInv /\ FirstInv /\ ScanInv

LEMMA GroundInitially == ASSUME Steady, Init PROVE GroundInv
BY TypeInit, BoundInit, LifeInit, BusInitially, FirstInitially, ScanInitially DEF GroundInv

LEMMA GroundStep == ASSUME Steady, GroundInv, [Next]_vars PROVE GroundInv'
BY TypeStep, BoundStep, LifeStep, BusStep, FirstStep, ScanStep DEF GroundInv, BusInv

\* What a service's step does to its state and to the inbox.
LEMMA ServiceSays ==
  ASSUME TypeInv, Steady, EndpointInv, watching, NEW w \in Services, ServiceStep(w)
  PROVE
    /\ \A x \in Services : x # w => up'[x] = up[x] /\ life'[x] = life[x] /\ eps'[x] = eps[x]
    /\ \/ /\ Crashes /\ inbox' = inbox /\ up[w] /\ ~up'[w] /\ life'[w] = life[w]
          /\ eps'[w] = {}
       \/ \E m \in Message :
            /\ inbox' = Append(inbox, m)
            /\ \/ /\ m.type = "serviceAdded" /\ m.from = <<w, life[w] + 1>> /\ m.from \in Name
                  /\ ~up[w] /\ up'[w] /\ life'[w] = life[w] + 1 /\ eps'[w] = eps[w]
               \/ /\ m.type = "serviceRemoved" /\ m.from = Unique(w) /\ up[w] /\ ~up'[w]
                  /\ life'[w] = life[w] /\ eps[w] = {} /\ eps'[w] = eps[w]
               \/ /\ m.type = "endpointAdded" /\ m.from = Unique(w) /\ m.eid \in Eids
                  /\ up[w] /\ up'[w] /\ life'[w] = life[w]
                  /\ eps'[w] = eps[w] \cup {m.eid} /\ \A x \in Services : m.eid \notin eps[x]
               \/ /\ m.type = "endpointRemoved" /\ m.from = Unique(w) /\ m.eid \in eps[w]
                  /\ up[w] /\ up'[w] /\ life'[w] = life[w] /\ eps'[w] = eps[w] \ {m.eid}
               \/ /\ m.type = "eidChanged"
                  /\ up'[w] = up[w] /\ life'[w] = life[w] /\ eps'[w] = eps[w]
               \/ /\ m.type = "message" /\ m.from = Unique(w) /\ m.eid \in eps[w] /\ up[w]
                  /\ up'[w] = up[w] /\ life'[w] = life[w] /\ eps'[w] = eps[w]
<1>1. /\ Unique(w) \in Name /\ up \in [Services -> BOOLEAN]
      /\ life \in [Services -> 0 .. MaxLives] /\ eps \in [Services -> SUBSET Eids]
  BY UniqueFacts DEF TypeInv, TypeOK, BusTypeOK
<1>2. \A m : Emit(m) => inbox' = Append(inbox, m)
  BY DEF Emit
<1>3. CASE StartService(w)
  <2> DEFINE m == [type |-> "serviceAdded", from |-> <<w, life[w] + 1>>]
  <2>1. <<w, life[w] + 1>> \in Name
    BY <1>1, <1>3, BusAssumption DEF StartService, Name
  <2>2. m \in Message /\ m.type = "serviceAdded" /\ m.from = <<w, life[w] + 1>>
    BY <2>1, SignalTypes
  <2>3. Emit(m)
    BY <1>3 DEF StartService
  <2> HIDE DEF m
  <2>4. /\ ~up[w] /\ up'[w] /\ life'[w] = life[w] + 1 /\ eps' = eps
        /\ \A x \in Services : x # w => up'[x] = up[x] /\ life'[x] = life[x]
    BY <1>1, <1>3 DEF StartService
  <2> QED
    BY <1>2, <2>1, <2>2, <2>3, <2>4
<1>4. CASE StopService(w)
  <2> DEFINE m == [type |-> "serviceRemoved", from |-> Unique(w)]
  <2>1. m \in Message /\ m.type = "serviceRemoved" /\ m.from = Unique(w) /\ Emit(m)
    BY <1>1, <1>4, SignalTypes DEF StopService
  <2> HIDE DEF m
  <2>2. /\ up[w] /\ ~up'[w] /\ life' = life /\ eps' = eps /\ eps[w] = {}
        /\ \A x \in Services : x # w => up'[x] = up[x]
    BY <1>1, <1>4 DEF StopService
  <2> QED
    BY <1>2, <2>1, <2>2
<1>5. CASE Crashes /\ CrashService(w)
  BY <1>1, <1>5 DEF CrashService
<1>6. ASSUME NEW e \in Eids, AddEndpoint(w, e)
      PROVE  \E m \in Message :
               /\ inbox' = Append(inbox, m)
               /\ m.type = "endpointAdded" /\ m.from = Unique(w) /\ m.eid = e
               /\ up[w] /\ UNCHANGED <<up, life>> /\ eps'[w] = eps[w] \cup {e}
               /\ \A x \in Services : e \notin eps[x] /\ (x # w => eps'[x] = eps[x])
  <2> DEFINE m == [type |-> "endpointAdded", from |-> Unique(w), eid |-> e]
  <2>1. /\ m \in Message /\ m.type = "endpointAdded" /\ m.from = Unique(w) /\ m.eid = e
        /\ Emit(m)
    BY <1>1, <1>6, SignalTypes DEF AddEndpoint
  <2> HIDE DEF m
  <2>2. /\ up[w] /\ UNCHANGED <<up, life>> /\ eps'[w] = eps[w] \cup {e}
        /\ \A x \in Services : e \notin eps[x] /\ (x # w => eps'[x] = eps[x])
    BY <1>1, <1>6, OneNetwork DEF AddEndpoint
  <2> QED
    BY <1>2, <2>1, <2>2
<1>7. ASSUME NEW e \in Eids, RemoveEndpoint(w, e)
      PROVE  \E m \in Message :
               /\ inbox' = Append(inbox, m)
               /\ m.type = "endpointRemoved" /\ m.from = Unique(w) /\ m.eid = e
               /\ up[w] /\ UNCHANGED <<up, life>> /\ eps'[w] = eps[w] \ {e} /\ e \in eps[w]
               /\ \A x \in Services : x # w => eps'[x] = eps[x]
  <2> DEFINE m == [type |-> "endpointRemoved", from |-> Unique(w), eid |-> e]
  <2>1. /\ m \in Message /\ m.type = "endpointRemoved" /\ m.from = Unique(w) /\ m.eid = e
        /\ Emit(m)
    BY <1>1, <1>7, SignalTypes DEF RemoveEndpoint
  <2> HIDE DEF m
  <2>2. /\ up[w] /\ UNCHANGED <<up, life>> /\ eps'[w] = eps[w] \ {e} /\ e \in eps[w]
        /\ \A x \in Services : x # w => eps'[x] = eps[x]
    BY <1>1, <1>7 DEF RemoveEndpoint
  <2> QED
    BY <1>2, <2>1, <2>2
<1>8. CASE ChangeOwnEid(w)
  <2>1. PICK own \in OwnEids : Emit([type |-> "eidChanged", from |-> Unique(w), own |-> own])
    BY <1>8 DEF ChangeOwnEid
  <2> DEFINE m == [type |-> "eidChanged", from |-> Unique(w), own |-> own]
  <2>2. m \in Message /\ m.type = "eidChanged" /\ Emit(m)
    BY <1>1, <2>1, SignalTypes
  <2> HIDE DEF m
  <2>3. UNCHANGED <<up, life, eps>>
    BY <1>8 DEF ChangeOwnEid
  <2> QED
    BY <1>2, <2>2, <2>3
<1>9. ASSUME NEW e \in Eids, SendMessage(w, e)
      PROVE  \E m \in Message :
               /\ inbox' = Append(inbox, m)
               /\ m.type = "message" /\ m.from = Unique(w) /\ m.eid \in eps[w]
               /\ up[w] /\ UNCHANGED <<up, life, eps>>
  <2>1. PICK h \in Headers :
          Emit([type |-> "message", from |-> Unique(w), eid |-> e, header |-> h])
    BY <1>9 DEF SendMessage
  <2> DEFINE m == [type |-> "message", from |-> Unique(w), eid |-> e, header |-> h]
  <2>2. m \in Message /\ m.type = "message" /\ m.from = Unique(w) /\ m.eid = e /\ Emit(m)
    BY <1>1, <2>1, SignalTypes
  <2> HIDE DEF m
  <2>3. up[w] /\ e \in eps[w] /\ UNCHANGED <<up, life, eps>>
    BY <1>9 DEF SendMessage
  <2> QED
    BY <1>2, <2>2, <2>3
<1>10. CASE \E e \in Eids : AddEndpoint(w, e)
  BY <1>6, <1>10
<1>11. CASE \E e \in Eids : RemoveEndpoint(w, e)
  BY <1>7, <1>11
<1>12. CASE \E e \in Eids : SendMessage(w, e)
  BY <1>9, <1>12
<1> QED
  BY <1>3, <1>4, <1>5, <1>8, <1>10, <1>11, <1>12 DEF ServiceStep

\* A scan's reply concerns neither services nor endpoints, and moves one scan on.
LEMMA ReplyTracks ==
  ASSUME Steady, GroundInv, Dispatch,
         Head(inbox).type \in {"services", "owner", "objects", "error"}
  PROVE  /\ \/ Snapshot'
            \/ Active' = {} /\ ~Occurs(inbox', Outdated') /\ UNCHANGED <<endpointMap, matchedBuses>>
            \/ /\ UNCHANGED endpointMap /\ (Discovered' => Discovered)
               /\ \A n \in matchedBuses' : n \in matchedBuses \/ n \in Current
         /\ matchedBuses \subseteq matchedBuses'
         /\ UNCHANGED spawned
         /\ \A A : Occurs(inbox, A) => Head(inbox) \in A \/ Occurs(inbox', A)
<1> DEFINE c == Head(inbox).to
<1>1. /\ inbox \in Seq(Message) /\ Head(inbox) \in Message /\ inbox # <<>> /\ inbox' = Tail(inbox)
      /\ UNCHANGED <<up, life, eps>>
  BY DEF Dispatch, GroundInv, TypeInv, TypeOK, BusTypeOK
<1>2. c \in Callers
  BY <1>1, MessageFields
<1>3. ScanOK(c) /\ SessionInv /\ TypeInv /\ FirstInv
  BY <1>2 DEF GroundInv, ScanInv, ScanOK, BusInv
<1>4. \A A : Occurs(inbox, A) => Head(inbox) \in A \/ Occurs(inbox', A)
  BY <1>1, InboxRead
<1>5. matchedBuses \subseteq matchedBuses' /\ matchedBuses' \subseteq matchedBuses \cup Current
  BY <1>3, ReplyMatches
<1>6. UNCHANGED spawned /\ \A k \in Callers : k # c => scan'[k] = scan[k]
  BY <1>3, ReplyGoes
<1>7. CASE scan'[c].pc = "done"
  BY <1>2, <1>3, <1>4, <1>5, <1>6, <1>7, ReplyMoves
<1>8. CASE scan'[c].pc # "done"
  <2>1. UNCHANGED endpointMap
    BY <1>3, <1>8, ReplyGoes
  <2>2. Discovered' => Discovered
    BY <1>2, <1>6, <1>8 DEF Discovered
  <2> QED
    BY <1>4, <1>5, <1>6, <2>1, <2>2
<1> QED
  BY <1>7, <1>8

\* A signal from a service that is heard, or will be, is heard once what came
\* before it has been read.
LEMMA HeardHead ==
  ASSUME TypeInv, SessionInv, inbox # <<>>, NEW n \in Name, Hearable(n),
         Head(inbox).from = n, Head(inbox).type \in {"endpointAdded", "endpointRemoved", "message"}
  PROVE  n \in matchedBuses
<1>1. inbox \in Seq(Message) /\ Head(inbox) \in Message
  BY DEF TypeInv, TypeOK, BusTypeOK
<1>2. Head(inbox) \in About({n}) /\ Head(inbox) \notin Came({n})
  <2>1. Head(inbox) \in About({n}) <=>
          Head(inbox).type \in {"endpointAdded", "endpointRemoved", "message"}
            /\ Head(inbox).from \in {n}
    BY <1>1, Kinds
  <2> QED
    BY <1>1, <2>1, KindsOne
<1>3. /\ ~Occurs(Tail(inbox), Came({n}))
      /\ Occurs(inbox, Came({n})) <=> Head(inbox) \in Came({n}) \/ Occurs(Tail(inbox), Came({n}))
  <2>1. Closes(inbox, About({n}), Came({n}))
    BY DEF SessionInv
  <2> QED
    BY <1>1, <1>2, <2>1, ClosesTail, OccursTail
<1> QED
  BY <1>2, <1>3 DEF Hearable

\* A device stays listed unless its removal is read.
LEMMA ListedStays ==
  ASSUME GroundInv, Steady, Dispatch,
         Head(inbox).type \notin {"services", "owner", "objects", "error"},
         NEW e \in Eids, Listed(DeviceID(e, 0))
  PROVE  \/ Listed(DeviceID(e, 0))'
         \/ Head(inbox).type = "endpointRemoved" /\ Head(inbox).eid = e
              /\ Head(inbox).from \in matchedBuses
<1> DEFINE m == Head(inbox)
           d == DeviceID(e, 0)
<1>1. m \in Message /\ spawned \in Seq(Event) /\ endpointMap \in [DevIds -> Name \cup {NoService}]
  BY DEF Dispatch, GroundInv, TypeInv, TypeOK, BusTypeOK, EndpointMap
<1>2. d \in DevIds
  BY SteadyIds DEF GroundInv
<1>3. \/ OnNewService(m) \/ OnNewEID(m) \/ OnEIDRemoved(m) \/ OnServiceRemoved(m)
      \/ OnOwnEIDChange(m) \/ IgnoreEvent(m) \/ OnMessageReceived(m)
  BY DEF Dispatch, OnServices, OnMapperError, OnOwner, OnObjects, OnObjectsError
<1>4. ASSUME NEW event, spawned' = Append(spawned, event), NEW i \in DOMAIN spawned
      PROVE  i \in DOMAIN spawned' /\ spawned'[i] = spawned[i]
  BY <1>1, <1>4, AppendFacts
<1> HIDE DEF m, d
<1>5. CASE UNCHANGED <<endpointMap, spawned>>
  BY <1>5 DEF Listed, d
<1>6. CASE OnNewEID(m)
  <2>1. UNCHANGED endpointMap /\ (spawned' = spawned \/ \E event : spawned' = Append(spawned, event))
    BY <1>6 DEF OnNewEID
  <2> QED
    BY <1>4, <1>5, <2>1 DEF Listed, d
<1>7. CASE OnEIDRemoved(m)
  <2>1. /\ m.from \in matchedBuses /\ m.type = "endpointRemoved"
        /\ endpointMap' = eraseDevice(getDeviceIDFromPath(m.eid, m.from))
        /\ (spawned' = spawned \/ \E event : spawned' = Append(spawned, event))
    BY <1>7 DEF OnEIDRemoved, Heard
  <2>2. m.eid \in Eids /\ m.from \in Name
    BY <1>1, <2>1, MessageFields
  <2>3. getDeviceIDFromPath(m.eid, m.from) = m.eid /\ d = e
    BY <2>2, SteadyIds DEF GroundInv, d
  <2>4. m.eid # e => endpointMap'[d] = endpointMap[d]
    BY <1>2, <2>1, <2>3 DEF eraseDevice
  <2> QED
    BY <1>4, <2>1, <2>4 DEF Listed, d, m
<1> QED
  BY <1>3, <1>5, <1>6, <1>7 DEF OnNewService, OnServiceRemoved, OnOwnEIDChange, IgnoreEvent,
                                OnMessageReceived, libVars

\* A device is listed once its addition is read.
LEMMA NewListed ==
  ASSUME GroundInv, Steady, NetworkChangeCallback, Dispatch, Head(inbox).type = "endpointAdded",
         Heard(Head(inbox)), NEW e, e = Head(inbox).eid, Fits(e)
  PROVE  Listed(DeviceID(e, 0))'
<1> DEFINE m == Head(inbox)
           d == getDeviceIDFromPath(m.eid, m.from)
           event == [type |-> "deviceAdded", service |-> m.from, deviceId |-> d]
<1>1. m \in Message /\ spawned \in Seq(Event)
  BY DEF Dispatch, GroundInv, TypeInv, TypeOK, BusTypeOK
<1>2. m.eid \in Eids /\ m.from \in Name
  BY <1>1, MessageFields
<1>3. d = DeviceID(m.eid, 0)
  BY <1>2, SteadyIds DEF GroundInv
<1>4. spawned' = Append(spawned, event)
  BY DEF Dispatch, OnServices, OnMapperError, OnOwner, OnObjects, OnObjectsError,
         OnNewService, OnNewEID, OnEIDRemoved, OnServiceRemoved, OnOwnEIDChange,
         IgnoreEvent, OnMessageReceived, Fits
<1>5. event.type = "deviceAdded" /\ event.deviceId = d
  OBVIOUS
<1> HIDE DEF d, event
<1>6. Len(spawned) + 1 \in DOMAIN spawned' /\ spawned'[Len(spawned) + 1] = event
  BY <1>1, <1>4, AppendFacts
<1>7. \E i \in DOMAIN spawned' :
        spawned'[i].type = "deviceAdded" /\ spawned'[i].deviceId = DeviceID(e, 0)
  BY <1>3, <1>5, <1>6
<1> QED
  BY <1>7 DEF Listed

\* Coroutines list the devices they were spawned for.
LEMMA ListedRuns ==
  ASSUME TypeInv, RunSpawned, NEW d \in DevIds, Listed(d)
  PROVE  Listed(d)'
<1>1. spawned \in Seq(Event) /\ spawned # <<>> /\ spawned' = Tail(spawned)
  BY DEF RunSpawned, TypeInv, TypeOK
<1>2. Head(spawned) \in Event /\ (Head(spawned).type = "deviceAdded" => Head(spawned).service \in Name)
  BY <1>1, EventFields
<1>3. endpointMap[d] # NoService => endpointMap'[d] # NoService
  BY DEF RunSpawned, Emplaced
<1>4. ASSUME NEW i \in DOMAIN spawned, spawned[i].type = "deviceAdded", spawned[i].deviceId = d
      PROVE  Listed(d)'
  <2>1. CASE i = 1
    <3>1. Head(spawned).type = "deviceAdded" /\ Head(spawned).deviceId = d
      BY <1>1, <1>4, <2>1, TailFacts
    <3>2. endpointMap'[d] # NoService
      BY <1>2, <3>1, ImplAssumption DEF RunSpawned, Emplaced
    <3> QED
      BY <3>2 DEF Listed
  <2>2. CASE i # 1
    <3>1. i - 1 \in DOMAIN spawned' /\ spawned'[i - 1] = spawned[i]
      BY <1>1, <2>2, TailFacts
    <3> QED
      BY <1>4, <3>1 DEF Listed
  <2> QED
    BY <2>1, <2>2
<1> QED
  BY <1>3, <1>4 DEF Listed

-----------------------------------------------------------------------------
(* Nothing is missing from the map. *)

LEMMA CompleteDispatch ==
  ASSUME Steady, NetworkChangeCallback, GroundInv, GroundInv', CompleteInv, Dispatch
  PROVE  CompleteInv'
<1> DEFINE m == Head(inbox)
<1> SUFFICES ASSUME Discovered'
             PROVE  /\ \A n \in Current' : Hearable(n)'
                    /\ \A w \in Active' : \A e \in eps'[w] :
                         Fits(e) => \/ Listed(DeviceID(e, 0))'
                                    \/ Occurs(inbox', Added({Unique(w)'}, {e}))
  BY DEF CompleteInv
<1>1. /\ inbox \in Seq(Message) /\ m \in Message /\ inbox # <<>> /\ inbox' = Tail(inbox)
      /\ UNCHANGED <<up, life, eps>>
  BY DEF Dispatch, GroundInv, TypeInv, TypeOK, BusTypeOK
<1>2. /\ \A w : Unique(w)' = Unique(w)
      /\ Active' = Active /\ Current' = Current
  BY <1>1 DEF Unique, Active, Current
<1>3. /\ \A w \in Active : w \in Services /\ w \in Bound /\ up[w] /\ Unique(w) \in Name
           /\ Unique(w) \in Current /\ Unique(w)[1] = w /\ eps[w] \subseteq Eids
      /\ \A n \in Current : \E w \in Active : n = Unique(w)
  BY UniqueFacts, BusAssumption DEF Active, Current, GroundInv, TypeInv, TypeOK, BusTypeOK
<1>4. SessionInv /\ PresenceInv /\ TypeInv /\ FirstInv
  BY DEF GroundInv, BusInv
<1>5. CASE m.type \in {"services", "owner", "objects", "error"}
  <2>1. CASE Snapshot'
    <3>1. \A n \in Current' : Hearable(n)'
      BY <2>1 DEF Snapshot, Hearable
    <3>2. \A w \in Active' : \A e \in eps'[w] : Fits(e) => Listed(DeviceID(e, 0))'
      BY <2>1 DEF Snapshot, MapOf, Listed
    <3> QED
      BY <3>1, <3>2
  <2>2. CASE Active' = {}
    BY <1>2, <2>2 DEF Current
  <2>3. CASE ~Snapshot' /\ Active' # {}
    <3>1. /\ Discovered /\ matchedBuses \subseteq matchedBuses' /\ UNCHANGED <<endpointMap, spawned>>
          /\ \A A : Occurs(inbox, A) => m \in A \/ Occurs(inbox', A)
      BY <1>5, <2>3, ReplyTracks
    <3>2. \A n, e : m \notin Came({n}) /\ m \notin Added({n}, {e})
      BY <1>1, <1>5, KindsOne
    <3>3. \A n : Hearable(n) => Hearable(n)'
      BY <3>1, <3>2 DEF Hearable
    <3>4. \A d : Listed(d) => Listed(d)'
      BY <3>1 DEF Listed
    <3> QED
      BY <1>1, <1>2, <3>1, <3>2, <3>3, <3>4 DEF CompleteInv
  <2> QED
    BY <2>1, <2>2, <2>3
<1>6. CASE m.type \notin {"services", "owner", "objects", "error"}
  <2>1. Discovered /\ isInitialisationsDone
    BY <1>4, <1>6, SignalGoes DEF Discovered, FirstInv
  <2>2. ASSUME NEW n \in Current
        PROVE  Hearable(n)'
    <3>1. Hearable(n)
      BY <2>1, <2>2 DEF CompleteInv
    <3>2. CASE n \in matchedBuses
      BY <1>4, <2>2, <3>2, MatchedStay DEF Hearable
    <3>3. CASE Occurs(inbox, Came({n})) /\ m \notin Came({n})
      BY <1>1, <3>3, InboxRead DEF Hearable
    <3>4. CASE m \in Came({n})
      <4>1. m.type = "serviceAdded" /\ m.from = n
        BY <1>1, <3>4, KindsOne
      <4>2. OnNewService(m)
        BY <1>3, <2>1, <2>2, <4>1 DEF Dispatch, OnServices, OnMapperError, OnOwner, OnObjects,
             OnObjectsError, OnNewEID, OnEIDRemoved, OnServiceRemoved, OnOwnEIDChange,
             IgnoreEvent, OnMessageReceived, OffersBinding
      <4> QED
        BY <4>1, <4>2 DEF OnNewService, Hearable
    <3> QED
      BY <3>1, <3>2, <3>3, <3>4 DEF Hearable
  <2>3. ASSUME NEW w \in Active, NEW e \in eps[w], Fits(e)
        PROVE  Listed(DeviceID(e, 0))' \/ Occurs(inbox', Added({Unique(w)}, {e}))
    <3>1. Listed(DeviceID(e, 0)) \/ Occurs(inbox, Added({Unique(w)}, {e}))
      BY <2>1, <2>3 DEF CompleteInv
    <3>2. e \in Eids /\ w \in Services
      BY <1>3, <2>3
    <3>3. CASE Listed(DeviceID(e, 0))
      <4>1. CASE m.type = "endpointRemoved" /\ m.eid = e
        <5>1. m \in Removed(Name, {e})
          BY <1>1, <4>1, KindsOne
        <5>2. Followed(inbox, Removed(Name, {e}), Added({Unique(w)}, {e}))
          BY <1>4, <2>3, <3>2 DEF PresenceInv
        <5> QED
          BY <1>1, <5>1, <5>2, InboxRead
      <4>2. CASE ~(m.type = "endpointRemoved" /\ m.eid = e)
        BY <1>6, <3>2, <3>3, <4>2, ListedStays
      <4> QED
        BY <4>1, <4>2
    <3>4. CASE m \in Added({Unique(w)}, {e})
      <4>1. m.type = "endpointAdded" /\ m.from = Unique(w) /\ m.eid = e
        BY <1>1, <3>4, KindsOne
      <4>2. Hearable(Unique(w)) /\ Unique(w) \in Name
        BY <1>3, <2>1, <2>3 DEF CompleteInv
      <4>3. Unique(w) \in matchedBuses
        BY <1>1, <1>4, <4>1, <4>2, HeardHead
      <4>4. Heard(m) /\ e = m.eid
        BY <2>1, <2>3, <4>1, <4>3 DEF Heard
      <4> QED
        BY <2>3, <4>1, <4>4, NewListed
    <3>5. CASE Occurs(inbox, Added({Unique(w)}, {e})) /\ m \notin Added({Unique(w)}, {e})
      BY <1>1, <3>5, InboxRead
    <3> QED
      BY <3>1, <3>3, <3>4, <3>5
  <2> QED
    BY <1>1, <1>2, <2>2, <2>3
<1> QED
  BY <1>5, <1>6

\* Steps that change neither the map nor what is matched, but for coroutines.
LEMMA CompleteKept ==
  ASSUME CompleteInv, UNCHANGED <<up, life, eps, matchedBuses>>, Discovered' => Discovered,
         \A A : Occurs(inbox, A) => Occurs(inbox', A),
         \A d \in DevIds : Listed(d) => Listed(d)', Steady, GroundInv
  PROVE  CompleteInv'
<1>1. /\ \A w : Unique(w)' = Unique(w)
      /\ Active' = Active /\ Current' = Current
  BY DEF Unique, Active, Current
<1>2. \A n : Hearable(n) => Hearable(n)'
  BY DEF Hearable
<1>3. \A w \in Active : \A e \in eps[w] : DeviceID(e, 0) \in DevIds
  <2>1. \A w \in Active : eps[w] \subseteq Eids
    BY BusAssumption DEF Active, GroundInv, TypeInv, TypeOK, BusTypeOK
  <2> QED
    BY <2>1, SteadyIds DEF GroundInv
<1> QED
  BY <1>1, <1>2, <1>3 DEF CompleteInv

LEMMA CompleteServiceStep ==
  ASSUME Steady, GroundInv, CompleteInv, AnyService
  PROVE  CompleteInv'
<1> SUFFICES ASSUME Discovered'
             PROVE  /\ \A n \in Current' : Hearable(n)'
                    /\ \A w \in Active' : \A e \in eps'[w] :
                         Fits(e) => \/ Listed(DeviceID(e, 0))'
                                    \/ Occurs(inbox', Added({Unique(w)'}, {e}))
  BY DEF CompleteInv
<1>1. UNCHANGED libVars /\ \E w \in Services : ServiceStep(w)
  BY DEF AnyService
<1>2. PICK w \in Services : ServiceStep(w)
  BY <1>1
<1>3. Discovered /\ watching
  BY <1>1 DEF libVars, Discovered, GroundInv, FirstInv
<1>4. /\ \A d : Listed(d) <=> Listed(d)'
      /\ matchedBuses' = matchedBuses
  BY <1>1 DEF libVars, Listed
<1>5. /\ \A n \in Current : Hearable(n)
      /\ \A x \in Active : \A e \in eps[x] :
           Fits(e) => \/ Listed(DeviceID(e, 0))
                      \/ Occurs(inbox, Added({Unique(x)}, {e}))
  BY <1>3 DEF CompleteInv
<1>6. TypeInv /\ EndpointInv /\ inbox \in Seq(Message) /\ Bound \subseteq Services
  BY BusAssumption DEF GroundInv, BusInv, TypeInv, TypeOK, BusTypeOK
<1>7. ASSUME \A A : Occurs(inbox, A) => Occurs(inbox', A),
             \A n \in Current' : n \in Current \/ Hearable(n)',
             \A x \in Active' : \A e \in eps'[x] :
               \/ x \in Active /\ e \in eps[x] /\ Unique(x)' = Unique(x)
               \/ Occurs(inbox', Added({Unique(x)'}, {e}))
      PROVE  /\ \A n \in Current' : Hearable(n)'
             /\ \A x \in Active' : \A e \in eps'[x] :
                         Fits(e) => \/ Listed(DeviceID(e, 0))'
                                    \/ Occurs(inbox', Added({Unique(x)'}, {e}))
  <2>1. \A n : Hearable(n) => Hearable(n)'
    BY <1>4, <1>7 DEF Hearable
  <2>2. \A n \in Current' : Hearable(n)'
    BY <1>5, <1>7, <2>1
  <2>3. ASSUME NEW x \in Active', NEW e \in eps'[x], Fits(e)
        PROVE  Listed(DeviceID(e, 0))' \/ Occurs(inbox', Added({Unique(x)'}, {e}))
    BY <1>4, <1>5, <1>7, <2>3
  <2> QED
    BY <2>2, <2>3
<1>8. /\ \A x \in Services : x # w => up'[x] = up[x] /\ life'[x] = life[x] /\ eps'[x] = eps[x]
      /\ \/ inbox' = inbox /\ ~up'[w]
         \/ \E m \in Message :
              /\ inbox' = Append(inbox, m)
              /\ \/ ~up'[w]
                 \/ up[w] /\ life'[w] = life[w] /\ eps'[w] \subseteq eps[w]
                 \/ m.type = "serviceAdded" /\ m.from = <<w, life'[w]>> /\ eps'[w] = {}
                 \/ m.type = "endpointAdded" /\ m.from = Unique(w) /\ up[w]
                      /\ life'[w] = life[w] /\ eps'[w] = eps[w] \cup {m.eid}
  BY <1>2, <1>3, <1>6, ServiceSays DEF EndpointInv
<1>9. /\ \A x \in Active' : x \in Services /\ up'[x]
      /\ \A x \in Active' : x # w => x \in Active /\ Unique(x)' = Unique(x) /\ eps'[x] = eps[x]
      /\ w \in Active' /\ up[w] /\ life'[w] = life[w] => w \in Active /\ Unique(w)' = Unique(w)
      /\ Unique(w)' = <<w, life'[w]>>
  BY <1>6, <1>8 DEF Active, Unique
<1>10. CASE inbox' = inbox /\ ~up'[w]
  BY <1>7, <1>9, <1>10 DEF Current
<1>11. ASSUME NEW m \in Message, inbox' = Append(inbox, m)
       PROVE  \A A : Occurs(inbox', A) <=> Occurs(inbox, A) \/ m \in A
  BY <1>6, <1>11, InboxGets
<1>12. ASSUME NEW m \in Message, inbox' = Append(inbox, m),
              ~up'[w] \/ (up[w] /\ life'[w] = life[w] /\ eps'[w] \subseteq eps[w])
       PROVE  /\ \A n \in Current' : Hearable(n)'
              /\ \A x \in Active' : \A e \in eps'[x] :
                         Fits(e) => \/ Listed(DeviceID(e, 0))'
                                    \/ Occurs(inbox', Added({Unique(x)'}, {e}))
  <2>1. \A n \in Current' : n \in Current
    BY <1>9, <1>12 DEF Current
  <2> QED
    BY <1>7, <1>9, <1>11, <1>12, <2>1
<1>13. ASSUME NEW m \in Message, inbox' = Append(inbox, m),
              m.type = "serviceAdded", m.from = <<w, life'[w]>>, eps'[w] = {}
       PROVE  /\ \A n \in Current' : Hearable(n)'
              /\ \A x \in Active' : \A e \in eps'[x] :
                         Fits(e) => \/ Listed(DeviceID(e, 0))'
                                    \/ Occurs(inbox', Added({Unique(x)'}, {e}))
  <2>1. m \in Came({m.from})
    BY <1>13, KindsOne
  <2>2. ASSUME NEW n \in Current'
        PROVE  n \in Current \/ Hearable(n)'
    <3>1. n \in Current \/ n = m.from
      BY <1>9, <1>13 DEF Current
    <3>2. n = m.from => Occurs(inbox', Came({n}))
      BY <1>11, <1>13, <2>1
    <3> QED
      BY <3>1, <3>2 DEF Hearable
  <2> QED
    BY <1>7, <1>9, <1>11, <1>13, <2>2
<1>14. ASSUME NEW m \in Message, inbox' = Append(inbox, m),
              m.type = "endpointAdded", m.from = Unique(w), up[w],
              life'[w] = life[w], eps'[w] = eps[w] \cup {m.eid}
       PROVE  /\ \A n \in Current' : Hearable(n)'
              /\ \A x \in Active' : \A e \in eps'[x] :
                         Fits(e) => \/ Listed(DeviceID(e, 0))'
                                    \/ Occurs(inbox', Added({Unique(x)'}, {e}))
  <2>1. m \in Added({Unique(w)}, {m.eid})
    BY <1>14, KindsOne
  <2>2. \A n \in Current' : n \in Current
    BY <1>9, <1>14 DEF Current
  <2>3. Occurs(inbox', Added({Unique(w)}, {m.eid}))
    BY <1>11, <1>14, <2>1
  <2> QED
    BY <1>7, <1>9, <1>11, <1>14, <2>2, <2>3
<1> QED
  BY <1>8, <1>10, <1>12, <1>13, <1>14

LEMMA CompleteStep ==
  ASSUME Steady, NetworkChangeCallback, GroundInv, GroundInv', CompleteInv, [Next]_vars
  PROVE  CompleteInv'
<1>1. CASE UNCHANGED <<up, life, eps, matchedBuses, scan, endpointMap, spawned>>
             /\ \A A : Occurs(inbox, A) => Occurs(inbox', A)
  <2>1. Discovered' => Discovered
    BY <1>1 DEF Discovered
  <2>2. \A d \in DevIds : Listed(d) => Listed(d)'
    BY <1>1 DEF Listed
  <2> QED
    BY <1>1, <2>1, <2>2, CompleteKept
<1>2. CASE RunSpawned
  <2>1. /\ UNCHANGED <<up, life, eps, matchedBuses, scan, inbox>>
        /\ \A d \in DevIds : Listed(d) => Listed(d)'
    BY <1>2, ListedRuns DEF RunSpawned, busVars, GroundInv
  <2>2. Discovered' => Discovered
    BY <2>1 DEF Discovered
  <2>3. \A A : Occurs(inbox, A) => Occurs(inbox', A)
    BY <2>1
  <2> QED
    BY <2>1, <2>2, <2>3, CompleteKept
<1>3. ASSUME NEW c \in Callers, DetectMctpEndpoints(c)
      PROVE  CompleteInv'
  <2>1. /\ UNCHANGED <<up, life, eps, matchedBuses, inbox, endpointMap, spawned>>
        /\ scan'[c].pc = "services" /\ \A d \in Callers : d # c => scan'[d] = scan[d]
    BY <1>3 DEF DetectMctpEndpoints, Suspend, GroundInv, TypeInv, TypeOK
  <2>2. Discovered' => Discovered
    BY <2>1 DEF Discovered
  <2>3. /\ \A d \in DevIds : Listed(d) => Listed(d)'
        /\ \A A : Occurs(inbox, A) => Occurs(inbox', A)
    BY <2>1 DEF Listed
  <2> QED
    BY <2>1, <2>2, <2>3, CompleteKept
<1>4. CASE Application
  BY <1>1, <1>3, <1>4 DEF Application, RegisterResponder, RegisterNothing, GetOwnEIDs,
       SetExtendedReceiveCallback, busVars, libVars
<1>5. ASSUME NEW c \in Callers, Answers(c)
      PROVE  CompleteInv'
  <2>1. PICK call \in calls : Answer(call)
    BY <1>5 DEF Answers
  <2>2. PICK reply \in Message : AnswerCall(call, reply)
    BY <2>1, AnswerReply DEF GroundInv
  <2>3. UNCHANGED <<up, life, eps>> /\ inbox' = Append(inbox, reply) /\ inbox \in Seq(Message)
    BY <2>2 DEF AnswerCall, GroundInv, TypeInv, TypeOK, BusTypeOK
  <2>4. \A A : Occurs(inbox, A) => Occurs(inbox', A)
    BY <2>3, InboxGets
  <2> QED
    BY <1>1, <1>5, <2>3, <2>4 DEF Answers, libVars
<1>6. CASE UNCHANGED vars
  BY <1>1, <1>6 DEF vars, busVars, libVars
<1> QED
  BY <1>2, <1>4, <1>5, <1>6, CompleteDispatch, CompleteServiceStep DEF Next

-----------------------------------------------------------------------------
(* Nothing in the map is stale. *)

\* Order among smaller and larger sets of messages.
LEMMA PrecededMore ==
  ASSUME NEW s, NEW A, NEW B, NEW C, NEW D, A \subseteq C, D \subseteq B,
         Preceded(s, C, D)
  PROVE  Preceded(s, A, B)
BY DEF Preceded

\* Messages of C may be left out of B where there is none of C.
LEMMA OrderWithout ==
  ASSUME NEW s, NEW A, NEW B, NEW C, NEW D, B \subseteq D \cup C, ~Occurs(s, C)
  PROVE  /\ Occurs(s, B) => Occurs(s, D)
         /\ Preceded(s, A, B) => Preceded(s, A, D)
BY DEF Preceded, Occurs

\* An entry stays backed while messages are read that do not remove it.
LEMMA BackedReads ==
  ASSUME TypeInv, inbox # <<>>, inbox' = Tail(inbox), UNCHANGED <<up, life, eps>>,
         NEW e \in Eids, NEW n \in Name, Backed(e, n),
         Head(inbox) \notin Removed(matchedBuses, {e}),
         Live(e, n) => Unique(n[1]) \in matchedBuses',
         NEW C, matchedBuses \subseteq matchedBuses' \cup C, ~Occurs(inbox', Removed(C, {e}))
  PROVE  Backed(e, n)'
<1> DEFINE R == Removed(matchedBuses, {e})
           S == Removed(matchedBuses', {e})
           A == Added(NamesOf(Bound), {e})
<1>1. inbox \in Seq(Message)
  BY DEF TypeInv, TypeOK, BusTypeOK
<1>2. R \subseteq S \cup Removed(C, {e})
  BY DEF Removed
<1>3. Live(e, n) => Live(e, n)'
  BY DEF Live, Reachable, Unique
<1>4. Live(e, n) \/ Occurs(inbox, R)
  BY DEF Backed
<1>5. Preceded(inbox, A, R) /\ Head(inbox) \notin R
  BY DEF Backed
<1> HIDE DEF R, S
<1>6. Occurs(inbox, R) => Occurs(inbox', R)
  BY <1>1, <1>5, InboxRead
<1>7. Preceded(inbox', A, R)
  BY <1>1, <1>5, InboxRead
<1>8. Occurs(inbox', R) => Occurs(inbox', S)
  BY <1>2, OrderWithout
<1>9. Preceded(inbox', A, S)
  BY <1>2, <1>7, OrderWithout
<1> QED
  BY <1>3, <1>4, <1>6, <1>8, <1>9 DEF Backed, S

\* And while messages arrive, if an endpoint that goes says so.
LEMMA BackedGets ==
  ASSUME TypeInv, NEW m \in Message, inbox' = Append(inbox, m),
         NEW e \in Eids, NEW n \in Name, Backed(e, n), UNCHANGED matchedBuses,
         Live(e, n) => Live(e, n)' \/ m \in Removed(matchedBuses, {e}),
         m \in Added(NamesOf(Bound), {e}) => ~Live(e, n)
  PROVE  Backed(e, n)'
<1> DEFINE R == Removed(matchedBuses, {e})
           A == Added(NamesOf(Bound), {e})
<1>1. inbox \in Seq(Message)
  BY DEF TypeInv, TypeOK, BusTypeOK
<1>2. (Live(e, n) \/ Occurs(inbox, R)) /\ Preceded(inbox, A, R) /\ R' = R
  BY DEF Backed
<1>3. Occurs(inbox', R) <=> Occurs(inbox, R) \/ m \in R
  BY <1>1, InboxGets
<1>4. Preceded(inbox', A, R)
  BY <1>1, <1>2, InboxGets
<1> QED
  BY <1>2, <1>3, <1>4 DEF Backed

\* The entries of the map, and the one about to be made, by their endpoints.
LEMMA EntryFacts ==
  ASSUME Steady, GroundInv
  PROVE  /\ \A e \in Eids : endpointMap[DeviceID(e, 0)] # NoService =>
              /\ endpointMap[DeviceID(e, 0)] \in Name
              /\ endpointMap[DeviceID(e, 0)][1] \in Bound
              /\ isInitialisationsDone /\ watching
         /\ spawned # <<>> =>
              /\ isInitialisationsDone /\ watching
              /\ Head(spawned) \in Event
              /\ Head(spawned).type = "deviceAdded" =>
                   Head(spawned).service \in Name /\ Head(spawned).service[1] \in Bound
<1>1. \A e \in Eids : DeviceID(e, 0) \in DevIds
  BY SteadyIds DEF GroundInv
<1>2. isInitialisationsDone => watching
  BY DEF GroundInv, FirstInv
<1>3. ASSUME NEW d \in DevIds, endpointMap[d] # NoService
      PROVE  endpointMap[d] \in Name /\ endpointMap[d][1] \in Bound /\ isInitialisationsDone
  BY <1>3 DEF GroundInv, BoundInv, BoundLib, BoundMap, BoundName, FirstInv, Entries
<1>4. ASSUME spawned # <<>>
      PROVE  /\ isInitialisationsDone /\ Head(spawned) \in BoundEvent
  BY <1>4 DEF GroundInv, FirstInv, BoundInv, BoundLib
<1>5. Head(spawned) \in BoundEvent =>
        /\ Head(spawned) \in Event
        /\ Head(spawned).type = "deviceAdded" =>
             Head(spawned).service \in Name /\ Head(spawned).service[1] \in Bound
  BY EventFields DEF BoundEvent, BoundName
<1> QED
  BY <1>1, <1>2, <1>3, <1>4, <1>5

\* A scan's reply leaves the entries backed, or makes them anew.
LEMMA BackedReply ==
  ASSUME Steady, SpawnInline, GroundInv, BackedInv, Dispatch,
         Head(inbox).type \in {"services", "owner", "objects", "error"}
  PROVE  BackedInv'
<1> DEFINE m == Head(inbox)
<1>1. /\ inbox \in Seq(Message) /\ m \in Message /\ inbox # <<>> /\ inbox' = Tail(inbox)
      /\ UNCHANGED <<up, life, eps>> /\ spawned = <<>>
  BY DEF Dispatch, Settled, GroundInv, TypeInv, TypeOK, BusTypeOK
<1>2. UNCHANGED spawned /\ matchedBuses \subseteq matchedBuses'
  BY ReplyTracks
<1>3. /\ \A w : Unique(w)' = Unique(w)
      /\ Active' = Active /\ Current' = Current
  BY <1>1 DEF Unique, Active, Current
<1>4. TypeInv
  BY DEF GroundInv
<1>5. CASE Snapshot'
  <2>1. ASSUME NEW e \in Eids, NEW n, n = endpointMap'[DeviceID(e, 0)], n # NoService
        PROVE  Backed(e, n)'
    <3>1. PICK w \in Active : e \in eps[w] /\ n = WellKnown(w)
      BY <1>1, <1>3, <1>5, <2>1 DEF Snapshot, MapOf
    <3>2. up[w] /\ w \in Bound /\ Unique(w) \in matchedBuses' /\ n[1] = w /\ n[2] = 0
      BY <1>3, <1>5, <3>1 DEF Snapshot, Active, Current, WellKnown
    <3>3. Live(e, n)'
      BY <1>1, <1>3, <3>1, <3>2 DEF Live, Reachable
    <3>4. Added(NamesOf(Bound), {e}) \subseteq Changes(NamesOf(Bound))
      BY DEF Changes, Added
    <3>5. ~Occurs(inbox', Added(NamesOf(Bound), {e}))
      BY <1>5, <3>4, OccursMore DEF Snapshot
    <3> QED
      BY <3>3, <3>5, OrderVoid DEF Backed
  <2> QED
    BY <1>1, <1>2, <2>1 DEF BackedInv
<1>6. CASE UNCHANGED endpointMap
  <2>1. ASSUME NEW e \in Eids, NEW n, n = endpointMap[DeviceID(e, 0)], n # NoService
        PROVE  Backed(e, n)'
    <3>1. n \in Name /\ Backed(e, n)
      BY <2>1, EntryFacts DEF BackedInv
    <3>2. m \notin Removed(matchedBuses, {e})
      <4>1. m \in Removed(matchedBuses, {e}) => m.type = "endpointRemoved"
        BY <1>1, Kinds
      <4> QED
        BY <4>1
    <3>3. ~Occurs(inbox', Removed({}, {e}))
      BY DEF Occurs, Removed
    <3>4. Live(e, n) => Unique(n[1]) \in matchedBuses'
      BY <1>2 DEF Live
    <3> HIDE DEF m
    <3>5. matchedBuses \subseteq matchedBuses' \cup {}
      BY <1>2
    <3> QED
      BY <1>1, <1>4, <3>1, <3>2, <3>3, <3>4, <3>5, BackedReads DEF m
  <2> QED
    BY <1>1, <1>2, <1>6, <2>1 DEF BackedInv
<1> QED
  BY <1>5, <1>6, ReplyTracks

\* A removal that is heard erases the entry at once.
LEMMA BackedRemoval ==
  ASSUME Steady, GroundInv, BackedInv, spawned = <<>>,
         NEW m, m = Head(inbox), OnEIDRemoved(m),
         inbox # <<>>, inbox' = Tail(inbox), UNCHANGED <<up, life, eps>>
  PROVE  BackedInv'
<1> DEFINE d == getDeviceIDFromPath(m.eid, m.from)
           event == [type |-> "deviceRemoved", deviceId |-> d]
<1>1. /\ inbox \in Seq(Message) /\ m \in Message /\ TypeInv
      /\ m.type = "endpointRemoved" /\ UNCHANGED matchedBuses
      /\ endpointMap' = eraseDevice(d)
      /\ spawned' = <<>> \/ spawned' = <<event>>
  BY DEF GroundInv, TypeInv, TypeOK, BusTypeOK, OnEIDRemoved
<1>2. m.eid \in Eids /\ m.from \in Name
  BY <1>1, MessageFields
<1>3. d = m.eid /\ \A e \in Eids : DeviceID(e, 0) = e /\ e \in DevIds
  BY <1>2, SteadyIds DEF GroundInv
<1>4. event.type = "deviceRemoved"
  OBVIOUS
<1>5. Head(<<event>>) = event /\ Tail(<<event>>) = <<>>
  OBVIOUS
<1> HIDE DEF d, event
<1>6. ASSUME NEW e \in Eids, NEW n, n = endpointMap'[DeviceID(e, 0)], n # NoService
      PROVE  Backed(e, n)'
  <2>1. e # m.eid /\ n = endpointMap[DeviceID(e, 0)]
    BY <1>1, <1>3, <1>6 DEF eraseDevice
  <2>2. n \in Name /\ Backed(e, n)
    BY <1>6, <2>1, EntryFacts DEF BackedInv
  <2>3. m \notin Removed(matchedBuses, {e})
    <3>1. m \in Removed(matchedBuses, {e}) => m.eid \in {e}
      BY <1>1, Kinds
    <3> QED
      BY <2>1, <3>1
  <2>4. ~Occurs(inbox', Removed({}, {e}))
    BY DEF Occurs, Removed
  <2>5. (Live(e, n) => Unique(n[1]) \in matchedBuses') /\ matchedBuses \subseteq matchedBuses' \cup {}
    BY <1>1 DEF Live
  <2> QED
    BY <1>1, <2>2, <2>3, <2>4, <2>5, BackedReads
<1>7. spawned' # <<>> => Tail(spawned') = <<>> /\ Head(spawned').type = "deviceRemoved"
  BY <1>1, <1>4, <1>5
<1> QED
  BY <1>6, <1>7 DEF BackedInv

\* An addition that is heard is of a device without an entry.
LEMMA BackedAddition ==
  ASSUME Steady, GroundInv, FifoInv, BackedInv, spawned = <<>>,
         NEW m, m = Head(inbox), NEW x, x = m.eid, NEW u, u = m.from, OnNewEID(m),
         inbox # <<>>, inbox' = Tail(inbox), UNCHANGED <<up, life, eps>>
  PROVE  BackedInv'
<1> DEFINE d == getDeviceIDFromPath(x, u)
           event == [type |-> "deviceAdded", service |-> u, deviceId |-> d]
<1>1. /\ inbox \in Seq(Message) /\ m \in Message /\ TypeInv
      /\ m.type = "endpointAdded" /\ UNCHANGED <<matchedBuses, endpointMap>>
      /\ u \in matchedBuses
      /\ spawned' = <<>> \/ spawned' = <<event>>
  BY DEF GroundInv, TypeInv, TypeOK, BusTypeOK, OnNewEID, Heard
<1>2. x \in Eids /\ u \in Name /\ u[1] \in Bound
  BY <1>1, MessageFields DEF GroundInv, BoundInv, BoundLib, BoundName
<1>3. d = x /\ \A e \in Eids : DeviceID(e, 0) = e
  BY <1>2, SteadyIds DEF GroundInv
<1>4. event.deviceId = d /\ event.service = u
  OBVIOUS
<1>5. Head(<<event>>) = event /\ Tail(<<event>>) = <<>>
  OBVIOUS
<1> HIDE DEF d, event
<1>6. /\ m \in Added({u}, {x}) /\ m \in Added(NamesOf(Bound), {x})
      /\ \A e : m \notin Removed(matchedBuses, {e})
  <2>1. /\ m \in Added(NamesOf(Bound), {x}) <=>
             m.type = "endpointAdded" /\ m.from \in NamesOf(Bound) /\ m.eid \in {x}
        /\ \A e : m \in Removed(matchedBuses, {e}) => m.type = "endpointRemoved"
    BY <1>1, Kinds
  <2>2. m \in Added({u}, {x})
    BY <1>1, KindsOne
  <2>3. u \in NamesOf(Bound)
    BY <1>2 DEF NamesOf
  <2> QED
    BY <1>1, <2>1, <2>2, <2>3
<1>7. ASSUME NEW e \in Eids, NEW n, n = endpointMap'[DeviceID(e, 0)], n # NoService
      PROVE  Backed(e, n)'
  <2>1. n \in Name /\ Backed(e, n)
    BY <1>1, <1>7, EntryFacts DEF BackedInv
  <2>2. ~Occurs(inbox', Removed({}, {e}))
    BY DEF Occurs, Removed
  <2>3. (Live(e, n) => Unique(n[1]) \in matchedBuses') /\ matchedBuses \subseteq matchedBuses' \cup {}
    BY <1>1 DEF Live
  <2> QED
    BY <1>1, <1>6, <2>1, <2>2, <2>3, BackedReads
<1>8. endpointMap[DeviceID(x, 0)] = NoService
  <2>1. Preceded(inbox, Added(NamesOf(Bound), {x}), Removed(matchedBuses, {x}))
           => m \notin Added(NamesOf(Bound), {x})
    BY <1>1, InboxRead
  <2> QED
    BY <1>2, <1>6, <2>1 DEF BackedInv, Backed
<1>9. Backed(x, u)'
  <2>1. Parted(inbox, Added({u}, {x}), Added(Name, {x}), Removed({u}, {x}))
    BY <1>2 DEF FifoInv
  <2>2. Preceded(inbox', Added(Name, {x}), Removed({u}, {x}))
    BY <1>1, <1>6, <2>1, InboxRead
  <2>3. Added(NamesOf(Bound), {x}) \subseteq Added(Name, {x})
    BY DEF Added, NamesOf
  <2>4. Removed({u}, {x}) \subseteq Removed(matchedBuses', {x})
    BY <1>1 DEF Removed
  <2>5. Preceded(inbox', Added(NamesOf(Bound), {x}), Removed(matchedBuses', {x}))
    BY <2>2, <2>3, <2>4, PrecededMore
  <2>6. CASE up[u[1]] /\ u = Unique(u[1]) /\ x \in eps[u[1]]
    <3>1. u[2] = life[u[1]]
      BY <2>6 DEF Unique
    <3>2. Live(x, u)'
      BY <1>1, <2>6, <3>1 DEF Live, Reachable, Unique
    <3> QED
      BY <2>5, <3>2 DEF Backed
  <2>7. CASE ~(up[u[1]] /\ u = Unique(u[1]) /\ x \in eps[u[1]])
    <3>1. Followed(inbox, Added({u}, {x}), Removed({u}, {x}))
      BY <1>2, <2>7 DEF FifoInv
    <3>2. Occurs(inbox', Removed({u}, {x}))
      BY <1>1, <1>6, <3>1, InboxRead
    <3>3. Occurs(inbox', Removed(matchedBuses', {x}))
      BY <2>4, <3>2, OccursMore
    <3> QED
      BY <2>5, <3>3 DEF Backed
  <2> QED
    BY <2>6, <2>7
<1>10. spawned' # <<>> => /\ Tail(spawned') = <<>> /\ Head(spawned').service = u
                          /\ \A e \in Eids : Head(spawned').deviceId = DeviceID(e, 0) => e = x
  BY <1>1, <1>3, <1>4, <1>5
<1>11. \A e \in Eids : spawned' # <<>> /\ Head(spawned').deviceId = DeviceID(e, 0)
         => Backed(e, u)' /\ endpointMap'[DeviceID(e, 0)] = NoService
  BY <1>1, <1>8, <1>9, <1>10
<1> QED
  BY <1>7, <1>10, <1>11 DEF BackedInv

\* What else is read changes neither the entries nor what backs them.
LEMMA BackedSignal ==
  ASSUME Steady, GroundInv, BackedInv, Dispatch, spawned = <<>>,
         NEW m, m = Head(inbox), NEW u, u = m.from,
         OnNewService(m) \/ OnServiceRemoved(m) \/ OnOwnEIDChange(m) \/ IgnoreEvent(m)
           \/ OnMessageReceived(m)
  PROVE  BackedInv'
<1>1. /\ inbox \in Seq(Message) /\ m \in Message /\ TypeInv /\ SessionInv
      /\ inbox # <<>> /\ inbox' = Tail(inbox) /\ UNCHANGED <<up, life, eps>>
  BY DEF Dispatch, GroundInv, BusInv, TypeInv, TypeOK, BusTypeOK
<1>2. UNCHANGED <<endpointMap, spawned>>
  BY DEF OnNewService, OnServiceRemoved, OnOwnEIDChange, IgnoreEvent, OnMessageReceived, libVars
<1>3. isInitialisationsDone /\ m.type = "endpointRemoved" => u \notin matchedBuses
  BY DEF OnNewService, OnServiceRemoved, OnOwnEIDChange, IgnoreEvent, OnMessageReceived, Heard
<1>4. \/ matchedBuses \subseteq matchedBuses'
      \/ m.type = "serviceRemoved" /\ matchedBuses' = matchedBuses \ {u}
  BY DEF OnNewService, OnServiceRemoved, OnOwnEIDChange, IgnoreEvent, OnMessageReceived, libVars
<1>5. \E C : /\ matchedBuses \subseteq matchedBuses' \cup C
             /\ \A e \in Eids : ~Occurs(inbox', Removed(C, {e}))
  <2>1. CASE matchedBuses \subseteq matchedBuses'
    <3>1. \A e : ~Occurs(inbox', Removed({}, {e}))
      BY DEF Occurs, Removed
    <3>2. matchedBuses \subseteq matchedBuses' \cup {}
      BY <2>1
    <3> QED
      BY <3>1, <3>2
  <2>2. CASE m.type = "serviceRemoved" /\ matchedBuses' = matchedBuses \ {u}
    <3>1. m \in Left({u})
      BY <1>1, <2>2, KindsOne
    <3>2. u \in Name
      BY <1>1, <2>2, MessageFields
    <3>3. Closes(inbox, Left({u}), About({u}))
      BY <1>1, <3>2 DEF SessionInv
    <3>4. ~Occurs(inbox', About({u}))
      BY <1>1, <3>1, <3>3, InboxRead
    <3>5. \A e \in Eids : Removed({u}, {e}) \subseteq About({u})
      BY DEF Removed, About, Changes
    <3>6. \A e \in Eids : ~Occurs(inbox', Removed({u}, {e}))
      BY <3>4, <3>5, OccursMore
    <3>7. matchedBuses \subseteq matchedBuses' \cup {u}
      BY <2>2
    <3> QED
      BY <3>6, <3>7
  <2> QED
    BY <1>4, <2>1, <2>2
<1>6. PICK C : /\ matchedBuses \subseteq matchedBuses' \cup C
               /\ \A e \in Eids : ~Occurs(inbox', Removed(C, {e}))
  BY <1>5
<1>7. ASSUME NEW e \in Eids, NEW n, n = endpointMap[DeviceID(e, 0)], n # NoService
      PROVE  Backed(e, n)'
  <2>1. n \in Name /\ n[1] \in Bound /\ isInitialisationsDone /\ Backed(e, n)
    BY <1>7, EntryFacts DEF BackedInv
  <2>2. m \notin Removed(matchedBuses, {e})
    <3>1. m \in Removed(matchedBuses, {e}) => m.type = "endpointRemoved" /\ m.from \in matchedBuses
      BY <1>1, Kinds
    <3> QED
      BY <1>3, <2>1, <3>1
  <2>3. Live(e, n) => Unique(n[1]) \in matchedBuses'
    BY <1>1, <2>1, MatchedStay DEF Live, Reachable, Current, Active
  <2> QED
    BY <1>1, <1>6, <2>1, <2>2, <2>3, BackedReads
<1> QED
  BY <1>2, <1>7 DEF BackedInv

LEMMA BackedDispatch ==
  ASSUME Steady, SpawnInline, GroundInv, FifoInv, BackedInv, Dispatch
  PROVE  BackedInv'
<1>1. spawned = <<>> /\ inbox # <<>> /\ inbox' = Tail(inbox) /\ UNCHANGED <<up, life, eps>>
  BY DEF Dispatch, Settled
<1>2. PICK m, u, x : m = Head(inbox) /\ u = m.from /\ x = m.eid
  OBVIOUS
<1>3. CASE m.type \in {"services", "owner", "objects", "error"}
  BY <1>2, <1>3, BackedReply
<1>4. CASE m.type \notin {"services", "owner", "objects", "error"}
  <2>1. \/ OnNewEID(m) \/ OnEIDRemoved(m)
        \/ OnNewService(m) \/ OnServiceRemoved(m) \/ OnOwnEIDChange(m) \/ IgnoreEvent(m)
             \/ OnMessageReceived(m)
    BY <1>2, <1>4 DEF Dispatch, OnServices, OnMapperError, OnOwner, OnObjects, OnObjectsError
  <2> QED
    BY <1>1, <1>2, <2>1, BackedAddition, BackedRemoval, BackedSignal
<1> QED
  BY <1>3, <1>4

\* The coroutine makes the entry it was spawned for.
LEMMA BackedRuns ==
  ASSUME Steady, GroundInv, BackedInv, RunSpawned
  PROVE  BackedInv'
<1>1. /\ spawned # <<>> /\ spawned' = <<>>
      /\ UNCHANGED <<up, life, eps, inbox, matchedBuses>>
  BY DEF RunSpawned, BackedInv, busVars
<1>2. \A e, n : Backed(e, n)' <=> Backed(e, n)
  BY <1>1 DEF Backed, Live, Reachable, Unique
<1>3. \A e \in Eids : DeviceID(e, 0) \in DevIds
  BY SteadyIds DEF GroundInv
<1>4. ASSUME NEW e \in Eids, NEW n, n = endpointMap'[DeviceID(e, 0)], n # NoService
      PROVE  Backed(e, n)
  <2>1. CASE n = endpointMap[DeviceID(e, 0)]
    BY <1>4, <2>1 DEF BackedInv
  <2>2. CASE n # endpointMap[DeviceID(e, 0)]
    <3>1. /\ Head(spawned).type = "deviceAdded" /\ Head(spawned).deviceId = DeviceID(e, 0)
          /\ n = Head(spawned).service
      BY <1>3, <1>4, <2>2 DEF RunSpawned, Emplaced
    <3> QED
      BY <1>1, <1>4, <3>1 DEF BackedInv
  <2> QED
    BY <2>1, <2>2
<1> QED
  BY <1>1, <1>2, <1>4 DEF BackedInv

\* Steps that leave the map, the coroutines and what is matched alone.
LEMMA BackedKept ==
  ASSUME BackedInv, UNCHANGED <<endpointMap, spawned>>,
         \A e \in Eids : \A n \in Name : n[1] \in Bound /\ watching /\ Backed(e, n)
           => Backed(e, n)',
         Steady, GroundInv
  PROVE  BackedInv'
<1>1. ASSUME NEW e \in Eids, NEW n, n = endpointMap[DeviceID(e, 0)], n # NoService
      PROVE  Backed(e, n)'
  BY <1>1, EntryFacts DEF BackedInv
<1>2. ASSUME NEW e \in Eids, spawned # <<>>, Head(spawned).type = "deviceAdded",
             Head(spawned).deviceId = DeviceID(e, 0), NEW n, n = Head(spawned).service
      PROVE  Backed(e, n)'
  BY <1>2, EntryFacts DEF BackedInv
<1> QED
  BY <1>1, <1>2 DEF BackedInv

\* A service that takes an endpoint away says so.
LEMMA BackedService ==
  ASSUME Steady, ~Crashes, GroundInv, AnyService, watching,
         NEW e \in Eids, NEW n \in Name, Backed(e, n)
  PROVE  Backed(e, n)'
<1>1. PICK w \in Services : ServiceStep(w)
  BY DEF AnyService
<1>2. TypeInv /\ EndpointInv /\ UNCHANGED matchedBuses
  BY DEF AnyService, libVars, GroundInv, BusInv
<1> DEFINE Says(m) ==
       \/ m.type = "serviceAdded" /\ ~up[w]
       \/ m.type = "serviceRemoved" /\ eps[w] = {}
       \/ /\ up[w] /\ up'[w] /\ life'[w] = life[w]
          /\ \/ m.type = "endpointAdded" /\ eps'[w] = eps[w] \cup {m.eid}
                  /\ \A x \in Services : m.eid \notin eps[x]
             \/ m.type = "endpointRemoved" /\ m.from = Unique(w) /\ eps'[w] = eps[w] \ {m.eid}
       \/ /\ m.type \in {"eidChanged", "message"}
          /\ up'[w] = up[w] /\ life'[w] = life[w] /\ eps'[w] = eps[w]
<1>3. /\ \A x \in Services : x # w => up'[x] = up[x] /\ life'[x] = life[x] /\ eps'[x] = eps[x]
      /\ \E m \in Message : inbox' = Append(inbox, m) /\ Says(m)
  BY <1>1, <1>2, ServiceSays
<1>4. PICK m \in Message : inbox' = Append(inbox, m) /\ Says(m)
  BY <1>3
<1>5. n[1] \in Services
  BY DEF Name
<1>6. Live(e, n) => Live(e, n)' \/ m \in Removed(matchedBuses, {e})
  <2>1. ASSUME Live(e, n), n[1] = w, m.type = "endpointRemoved", m.eid = e, m.from = Unique(w)
        PROVE  m \in Removed(matchedBuses, {e})
    <3>1. m \in Removed(matchedBuses, {e}) <=>
            m.type = "endpointRemoved" /\ m.from \in matchedBuses /\ m.eid \in {e}
      BY Kinds
    <3> QED
      BY <2>1, <3>1 DEF Live
  <2>2. ASSUME Live(e, n), n[1] # w
        PROVE  Live(e, n)'
    BY <1>2, <1>3, <1>5, <2>2 DEF Live, Reachable, Unique
  <2>3. ASSUME Live(e, n), n[1] = w, up'[w], life'[w] = life[w], e \in eps'[w]
        PROVE  Live(e, n)'
    BY <1>2, <2>3 DEF Live, Reachable, Unique
  <2>4. Live(e, n) => up[n[1]] /\ e \in eps[n[1]]
    BY DEF Live, Reachable
  <2> QED
    BY <1>4, <2>1, <2>2, <2>3, <2>4
<1>7. m \in Added(NamesOf(Bound), {e}) => ~Live(e, n)
  <2>1. m \in Added(NamesOf(Bound), {e}) => m.type = "endpointAdded" /\ m.eid \in {e}
    BY Kinds
  <2> QED
    BY <1>4, <1>5, <2>1 DEF Live
<1> HIDE DEF Says
<1> QED
  BY <1>2, <1>4, <1>6, <1>7, BackedGets

LEMMA BackedStep ==
  ASSUME Steady, SpawnInline, ~Crashes, GroundInv, FifoInv, BackedInv, [Next]_vars
  PROVE  BackedInv'
<1>1. CASE Dispatch
  BY <1>1, BackedDispatch
<1>2. CASE RunSpawned
  BY <1>2, BackedRuns
<1>3. CASE Application \/ UNCHANGED vars
  <2>1. UNCHANGED <<up, life, eps, inbox, matchedBuses, endpointMap, spawned>>
    BY <1>3 DEF Application, DetectMctpEndpoints, RegisterResponder, RegisterNothing,
       GetOwnEIDs, SetExtendedReceiveCallback, busVars, libVars, vars
  <2>2. \A e, n : Backed(e, n)' <=> Backed(e, n)
    BY <2>1 DEF Backed, Live, Reachable, Unique
  <2> QED
    BY <2>1, <2>2, BackedKept
<1>4. CASE AnyService
  <2>1. UNCHANGED <<endpointMap, spawned>>
    BY <1>4 DEF AnyService, libVars
  <2> QED
    BY <1>4, <2>1, BackedService, BackedKept
<1>5. ASSUME NEW c \in Callers, Answers(c)
      PROVE  BackedInv'
  <2>1. PICK call \in calls : Answer(call) /\ UNCHANGED libVars
    BY <1>5 DEF Answers
  <2>2. PICK reply \in Message : /\ AnswerCall(call, reply)
                                 /\ reply.type \in {"services", "owner", "objects", "error"}
    BY <2>1, AnswerReply DEF GroundInv
  <2>3. /\ inbox' = Append(inbox, reply) /\ TypeInv
        /\ UNCHANGED <<up, life, eps, matchedBuses, endpointMap, spawned>>
    BY <2>1, <2>2 DEF AnswerCall, GroundInv, libVars
  <2>4. ASSUME NEW e \in Eids, NEW n \in Name, Backed(e, n)
        PROVE  Backed(e, n)'
    <3>1. reply \notin Added(NamesOf(Bound), {e})
      <4>1. reply \in Added(NamesOf(Bound), {e}) => reply.type = "endpointAdded"
        BY Kinds
      <4> QED
        BY <2>2, <4>1
    <3>2. Live(e, n) => Live(e, n)'
      BY <2>3 DEF Live, Reachable, Unique
    <3> QED
      BY <2>3, <2>4, <3>1, <3>2, BackedGets
  <2> QED
    BY <2>3, <2>4, BackedKept
<1> QED
  BY <1>1, <1>2, <1>3, <1>4, <1>5 DEF Next

LEMMA BackedInitially == ASSUME Steady, Init PROVE BackedInv
<1>1. \A e \in Eids : DeviceID(e, 0) \in DevIds
  BY FirstInitially, SteadyIds
<1> QED
  BY <1>1 DEF Init, EmptyMap, BackedInv

-----------------------------------------------------------------------------
(* What follows. *)

\* The invariants of the map, together.
TrackInv == GroundInv /\ CompleteInv
SoundInv == GroundInv /\ FifoInv /\ BackedInv

LEMMA TrackStep ==
  ASSUME Steady, NetworkChangeCallback, TrackInv, [Next]_vars
  PROVE  TrackInv'
BY GroundStep, CompleteStep DEF TrackInv

LEMMA TrackInitially ==
  ASSUME Steady, Init
  PROVE  TrackInv
BY GroundInitially DEF TrackInv, CompleteInv, Discovered, Init

LEMMA SoundStep ==
  ASSUME Steady, SpawnInline, ~Crashes, SoundInv, [Next]_vars
  PROVE  SoundInv'
BY GroundStep, BusStep, BackedStep DEF SoundInv, GroundInv

LEMMA SoundInitially ==
  ASSUME Steady, Init
  PROVE  SoundInv
BY GroundInitially, BusInitially, BackedInitially DEF SoundInv

\* Nothing unread, no coroutine left: the map is complete.
LEMMA CompleteQuiet ==
  ASSUME Steady, TrackInv
  PROVE  AllAvailable
<1> SUFFICES ASSUME Quiet, NEW w \in Services, NEW e \in Eids, Wanted(w, e)
             PROVE  DeviceID(e, Network(w)) \in Entries(endpointMap)
  BY DEF AllAvailable
<1>1. w \in Active /\ e \in eps[w] /\ Fits(e) /\ Discovered
  BY DEF Wanted, Active, Fits, Quiet, Discovered
<1>2. Listed(DeviceID(e, 0)) \/ Occurs(inbox, Added({Unique(w)}, {e}))
  BY <1>1 DEF TrackInv, CompleteInv
<1>3. endpointMap[DeviceID(e, 0)] # NoService
  BY <1>2, NoMessages DEF Quiet, Listed
<1>4. Network(w) = 0 /\ DeviceID(e, 0) \in DevIds
  BY SteadyIds DEF TrackInv, GroundInv
<1> QED
  BY <1>3, <1>4 DEF Entries

\* And every entry of it is right.
LEMMA SoundQuiet ==
  ASSUME Steady, SoundInv
  PROVE  NothingStale
<1> SUFFICES ASSUME Quiet, NEW d \in Entries(endpointMap)
             PROVE  \E w \in Services, e \in Eids :
                      e \in eps[w] /\ d = DeviceID(e, Network(w)) /\ Routed(d, w)
  BY DEF NothingStale
<1>1. d \in DevIds /\ endpointMap[d] # NoService
  BY DEF Entries
<1>2. d \in Eids /\ d = DeviceID(d, 0) /\ \A w \in Services : Network(w) = 0
  BY <1>1, SteadyIds DEF SoundInv, GroundInv
<1>3. endpointMap[d] \in Name /\ Backed(d, endpointMap[d])
  BY <1>1, <1>2, EntryFacts DEF SoundInv, BackedInv
<1>4. Live(d, endpointMap[d])
  BY <1>3, NoMessages DEF Backed, Quiet
<1>5. endpointMap[d][1] \in Services
  BY <1>3 DEF Name
<1> QED
  BY <1>1, <1>2, <1>4, <1>5 DEF Live, Routed

\* README "ep will have all available EIDs in the system", for every set of
\* services and endpoints: while the services hold still for the scans and calls
\* do not fail, no interleaving of scans, signals and replies leaves an endpoint
\* that was asked for without an entry.  Services may crash.
THEOREM AllListed ==
  ASSUME Steady, NetworkChangeCallback
  PROVE  Spec => []AllAvailable
<1>1. Init => TrackInv
  BY TrackInitially
<1>2. TrackInv /\ [Next]_vars => TrackInv'
  BY TrackStep
<1>3. TrackInv => AllAvailable
  BY CompleteQuiet
<1> QED
  BY <1>1, <1>2, <1>3, PTL DEF Spec

\* README "Listen for EIDs added and removed dynamically", for every set of
\* services and endpoints: with calm services that do not crash, every entry is
\* in the end an endpoint that is there and names a service that reaches it.
THEOREM NothingLeftOver ==
  ASSUME Steady, SpawnInline, ~Crashes
  PROVE  Spec => []NothingStale
<1>1. Init => SoundInv
  BY SoundInitially
<1>2. SoundInv /\ [Next]_vars => SoundInv'
  BY SoundStep
<1>3. SoundInv => NothingStale
  BY SoundQuiet
<1> QED
  BY <1>1, <1>2, <1>3, PTL DEF Spec

-----------------------------------------------------------------------------
(* The callbacks alternate. *)

\* A coroutine tells of a device that is new, or of one that was known.
LEMMA AlternateStep ==
  ASSUME Steady, SoundInv, FeedInv, RunSpawned
  PROVE  LET event == Head(spawned)
         IN  (event.type = "deviceAdded") <=> event.deviceId \notin known
<1>1. PICK event \in Event :
        /\ spawned = <<event>>
        /\ \/ /\ event.type = "deviceAdded"
              /\ known = Entries(endpointMap)
           \/ /\ event.type = "deviceRemoved"
              /\ event.deviceId \in known
              /\ Entries(endpointMap) = known \ {event.deviceId}
  BY DEF RunSpawned, FeedInv
<1>2. Head(spawned) = event /\ spawned # <<>>
  BY <1>1, NewsFacts
<1>3. event.deviceId \in DevIds
  BY EventFields
<1>4. event.deviceId \in Eids /\ event.deviceId = DeviceID(event.deviceId, 0)
  BY <1>3, SteadyIds DEF SoundInv, GroundInv
<1>5. event.type = "deviceAdded" => endpointMap[event.deviceId] = NoService
  BY <1>2, <1>4 DEF SoundInv, BackedInv
<1> QED
  BY <1>1, <1>2, <1>5 DEF Entries

\* ReconfigurationCallback tells of changes only, for every set of services and
\* endpoints: with calm services that do not crash, no scan that ends between
\* two callbacks makes it add a device that is known or remove one that is not.
THEOREM CallbacksTellChanges ==
  ASSUME Steady, SpawnInline, NetworkChangeCallback, ~Crashes
  PROVE  Spec => CallbacksAlternate
<1>1. Init => SoundInv /\ FeedInv
  BY SoundInitially, FeedInitially
<1>2. SoundInv /\ FeedInv /\ [Next]_vars => SoundInv' /\ FeedInv'
  BY SoundStep, FeedNextStep DEF SoundInv, GroundInv
<1>3. SoundInv /\ FeedInv /\ [Next]_vars =>
        [RunSpawned => LET event == Head(spawned)
                       IN  (event.type = "deviceAdded") <=> event.deviceId \notin known]_vars
  BY AlternateStep
<1> QED
  BY <1>1, <1>2, <1>3, PTL DEF Spec, CallbacksAlternate

-----------------------------------------------------------------------------
(* No message comes from a device that is not listed. *)

\* A signal is read.
LEMMA SpokenSignal ==
  ASSUME Steady, NetworkChangeCallback, GroundInv, Dispatch, isInitialisationsDone,
         NEW m, m = Head(inbox), m.type \notin {"services", "owner", "objects", "error"},
         NEW n \in NamesOf(Bound), Hearable(n), NEW e \in Eids, Fits(e), Introduced(e, n)
  PROVE  Introduced(e, n)'
<1> DEFINE R == Removed(NamesOf(Bound), {e})
           S == Sent({n}, {e})
           A == Added({n}, {e})
<1>1. /\ inbox \in Seq(Message) /\ m \in Message /\ inbox # <<>> /\ inbox' = Tail(inbox)
      /\ TypeInv /\ SessionInv
  BY DEF Dispatch, GroundInv, BusInv, TypeInv, TypeOK, BusTypeOK
<1>2. Parted(inbox, R, S, A) /\ (Listed(DeviceID(e, 0)) \/ Preceded(inbox, S, A))
  BY DEF Introduced
<1>3. m \in A <=> m.type = "endpointAdded" /\ m.from = n /\ m.eid = e
  BY <1>1, KindsOne
<1>4. m \in R <=> m.type = "endpointRemoved" /\ m.from \in NamesOf(Bound) /\ m.eid \in {e}
  BY <1>1, Kinds
<1> HIDE DEF R, S, A
<1>5. Parted(inbox', R, S, A) /\ (m \in R => Preceded(inbox', S, A))
  BY <1>1, <1>2, InboxRead
<1>6. CASE Listed(DeviceID(e, 0))
  <2>1. \A k \in matchedBuses : k \in NamesOf(Bound)
    BY <1>1 DEF GroundInv, BoundInv, BoundLib, BoundName, NamesOf
  <2>2. Listed(DeviceID(e, 0))' \/ m \in R
    BY <1>4, <1>6, <2>1, ListedStays
  <2> QED
    BY <1>5, <2>2 DEF Introduced, R, S, A
<1>7. CASE Preceded(inbox, S, A) /\ m \in A
  <2>1. n \in Name
    BY DEF NamesOf
  <2>2. n \in matchedBuses
    BY <1>1, <1>3, <1>7, <2>1, HeardHead
  <2>3. Heard(m)
    BY <1>3, <1>7, <2>2 DEF Heard
  <2>4. Listed(DeviceID(e, 0))'
    BY <1>3, <1>7, <2>3, NewListed
  <2> QED
    BY <1>5, <2>4 DEF Introduced, R, S, A
<1>8. CASE Preceded(inbox, S, A) /\ m \notin A
  <2>1. Preceded(inbox', S, A)
    BY <1>1, <1>8, InboxRead
  <2> QED
    BY <1>5, <2>1 DEF Introduced, R, S, A
<1> QED
  BY <1>2, <1>6, <1>7, <1>8

\* A scan has renewed the map: what has spoken is in it.
LEMMA SpokenSnapshot ==
  ASSUME GroundInv', Snapshot', NEW n \in NamesOf(Bound), NEW e \in Eids, Fits(e)
  PROVE  Introduced(e, n)'
<1> DEFINE R == Removed(NamesOf(Bound), {e})
           S == Sent({n}, {e})
           A == Added({n}, {e})
<1>1. ~Occurs(inbox', R)
  <2>1. R \subseteq Changes(NamesOf(Bound))
    BY DEF Changes, Removed
  <2> QED
    BY <2>1, OccursMore DEF Snapshot
<1>2. CASE ~Occurs(inbox', S)
  BY <1>1, <1>2, OrderVoid DEF Introduced
<1>3. CASE Occurs(inbox', S)
  <2>1. n \in Current'
    <3>1. n \notin Current' => S \subseteq Outdated'
      BY DEF Outdated, About, Sent
    <3> QED
      BY <1>3, <3>1, OccursMore DEF Snapshot
  <2>2. PICK w \in Active' : n = <<w, life'[w]>>
    BY <2>1 DEF Current, Unique
  <2>3. w \in Services /\ up'[w] /\ n = Unique(w)'
    BY <2>2, BusAssumption DEF Active, Unique
  <2>4. e \notin eps'[w] => Followed(inbox', S, Removed({n}, {e}))
    BY <2>3 DEF GroundInv, BusInv, PresenceInv
  <2>5. Followed(inbox', S, Removed({n}, {e})) => Occurs(inbox', Removed({n}, {e}))
    BY <1>3 DEF Followed, Occurs
  <2>6. Removed({n}, {e}) \subseteq R
    BY DEF Removed
  <2>7. e \in eps'[w]
    BY <1>1, <2>4, <2>5, <2>6, OccursMore
  <2>8. Listed(DeviceID(e, 0))'
    BY <2>2, <2>7 DEF Snapshot, MapOf, Listed
  <2> QED
    BY <1>1, <2>8, OrderVoid DEF Introduced
<1> QED
  BY <1>2, <1>3

\* No service runs, and none has left messages.
LEMMA SpokenNothing ==
  ASSUME Active' = {}, ~Occurs(inbox', Outdated'), NEW n \in NamesOf(Bound), NEW e \in Eids
  PROVE  Introduced(e, n)'
<1>1. Current' = {}
  BY DEF Current
<1>2. Removed(NamesOf(Bound), {e}) \subseteq Outdated' /\ Sent({n}, {e}) \subseteq Outdated'
  BY <1>1 DEF Outdated, About, Changes, Sent, Removed
<1>3. ~Occurs(inbox', Removed(NamesOf(Bound), {e})) /\ ~Occurs(inbox', Sent({n}, {e}))
  BY <1>2, OccursMore
<1> QED
  BY <1>3, OrderVoid DEF Introduced

\* Another message is read or arrives, and what is listed stays so.
LEMMA SpokenRead ==
  ASSUME inbox \in Seq(Message), inbox # <<>>, inbox' = Tail(inbox),
         NEW n, NEW e, Introduced(e, n), Head(inbox) \notin Added({n}, {e}),
         Listed(DeviceID(e, 0)) => Listed(DeviceID(e, 0))'
  PROVE  Introduced(e, n)'
<1> DEFINE R == Removed(NamesOf(Bound), {e})
           S == Sent({n}, {e})
           A == Added({n}, {e})
<1>1. Parted(inbox, R, S, A) /\ (Listed(DeviceID(e, 0)) \/ Preceded(inbox, S, A))
  BY DEF Introduced
<1>2. Parted(inbox', R, S, A) /\ (Preceded(inbox, S, A) => Preceded(inbox', S, A))
  BY <1>1, InboxRead
<1> QED
  BY <1>1, <1>2 DEF Introduced

LEMMA SpokenArrives ==
  ASSUME inbox \in Seq(Message), NEW m, inbox' = Append(inbox, m),
         NEW n, NEW e, Introduced(e, n), Listed(DeviceID(e, 0)) => Listed(DeviceID(e, 0))',
         m \in Sent({n}, {e}) =>
           /\ Followed(inbox, Removed(NamesOf(Bound), {e}), Added({n}, {e}))
           /\ Listed(DeviceID(e, 0)) \/ Occurs(inbox, Added({n}, {e}))
  PROVE  Introduced(e, n)'
<1> DEFINE R == Removed(NamesOf(Bound), {e})
           S == Sent({n}, {e})
           A == Added({n}, {e})
<1>1. Parted(inbox, R, S, A) /\ (Listed(DeviceID(e, 0)) \/ Preceded(inbox, S, A))
  BY DEF Introduced
<1>2. Parted(inbox', R, S, A)
  BY <1>1, InboxGets
<1>3. Preceded(inbox, S, A) /\ (m \in S => Occurs(inbox, A)) => Preceded(inbox', S, A)
  BY InboxGets
<1> QED
  BY <1>1, <1>2, <1>3 DEF Introduced

LEMMA SpokenDispatch ==
  ASSUME Steady, NetworkChangeCallback, GroundInv, GroundInv', CompleteInv, SpokenInv, Dispatch
  PROVE  SpokenInv'
<1> SUFFICES ASSUME Discovered', NEW n \in NamesOf(Bound), Hearable(n)',
                    NEW e \in Eids, Fits(e)
             PROVE  Introduced(e, n)'
  BY DEF SpokenInv
<1>1. PICK m, u : m = Head(inbox) /\ u = m.from
  OBVIOUS
<1>2. /\ inbox \in Seq(Message) /\ m \in Message /\ inbox # <<>> /\ inbox' = Tail(inbox)
      /\ TypeInv /\ FirstInv
  BY <1>1 DEF Dispatch, GroundInv, TypeInv, TypeOK, BusTypeOK
<1>3. CASE m.type \in {"services", "owner", "objects", "error"}
  <2>1. CASE Snapshot' \/ (Active' = {} /\ ~Occurs(inbox', Outdated'))
    BY <2>1, SpokenSnapshot, SpokenNothing
  <2>2. CASE ~(Snapshot' \/ (Active' = {} /\ ~Occurs(inbox', Outdated')))
    <3>1. /\ Discovered /\ UNCHANGED <<endpointMap, spawned>>
          /\ \A k \in matchedBuses' : k \in matchedBuses \/ k \in Current
      BY <1>1, <1>3, <2>2, ReplyTracks
    <3>2. Occurs(inbox', Came({n})) => Occurs(inbox, Came({n}))
      BY <1>2, InboxRead
    <3>3. Hearable(n)
      BY <3>1, <3>2 DEF Hearable, CompleteInv
    <3>4. Introduced(e, n)
      BY <3>1, <3>3 DEF SpokenInv
    <3>5. m \notin Added({n}, {e})
      <4>1. m \in Added({n}, {e}) => m.type = "endpointAdded"
        BY <1>2, KindsOne
      <4> QED
        BY <1>3, <4>1
    <3>6. Listed(DeviceID(e, 0)) => Listed(DeviceID(e, 0))'
      BY <3>1 DEF Listed
    <3> QED
      BY <1>1, <1>2, <3>4, <3>5, <3>6, SpokenRead
  <2> QED
    BY <2>1, <2>2
<1>4. CASE m.type \notin {"services", "owner", "objects", "error"}
  <2>1. Discovered /\ isInitialisationsDone
    BY <1>1, <1>2, <1>4, SignalGoes DEF Discovered, FirstInv
  <2>2. matchedBuses' \subseteq matchedBuses \/ (m.type = "serviceAdded" /\ matchedBuses' = matchedBuses \cup {u})
    BY <1>1, <1>4 DEF Dispatch, OnServices, OnMapperError, OnOwner, OnObjects, OnObjectsError,
       OnNewService, OnNewEID, OnEIDRemoved, OnServiceRemoved, OnOwnEIDChange, IgnoreEvent,
       OnMessageReceived, libVars
  <2>3. m.type = "serviceAdded" => m \in Came({u})
    BY <1>1, <1>2, KindsOne
  <2>4. \A N : Occurs(inbox, Came(N)) <=> m \in Came(N) \/ Occurs(inbox', Came(N))
    BY <1>1, <1>2, InboxRead
  <2>5. Hearable(n)
    BY <2>2, <2>3, <2>4 DEF Hearable
  <2>6. Introduced(e, n)
    BY <2>1, <2>5 DEF SpokenInv
  <2> QED
    BY <1>1, <1>4, <2>1, <2>5, <2>6, SpokenSignal
<1> QED
  BY <1>3, <1>4

\* A service comes, or says something.
LEMMA SpokenService ==
  ASSUME Steady, GroundInv, CompleteInv, SpokenInv, AnyService
  PROVE  SpokenInv'
<1> SUFFICES ASSUME Discovered', NEW n \in NamesOf(Bound), Hearable(n)',
                    NEW e \in Eids, Fits(e)
             PROVE  Introduced(e, n)'
  BY DEF SpokenInv
<1>1. PICK w \in Services : ServiceStep(w)
  BY DEF AnyService
<1>2. /\ UNCHANGED <<scan, matchedBuses, endpointMap, spawned>>
      /\ inbox \in Seq(Message) /\ TypeInv /\ EndpointInv /\ LifeInv /\ PresenceInv
  BY DEF AnyService, libVars, GroundInv, BusInv, TypeInv, TypeOK, BusTypeOK
<1>3. Discovered /\ watching
  BY <1>2 DEF Discovered, GroundInv, FirstInv
<1>4. Listed(DeviceID(e, 0)) <=> Listed(DeviceID(e, 0))'
  BY <1>2 DEF Listed
<1>5. Hearable(n) => Introduced(e, n)
  BY <1>3 DEF SpokenInv
<1>6. \/ inbox' = inbox
      \/ \E m \in Message :
           /\ inbox' = Append(inbox, m)
           /\ m.type = "serviceAdded" => m.from = <<w, life[w] + 1>>
           /\ m.type = "message" => up[w] /\ m.from = Unique(w) /\ m.eid \in eps[w]
  BY <1>1, <1>2, <1>3, ServiceSays
<1>7. CASE inbox' = inbox
  BY <1>2, <1>4, <1>5, <1>7 DEF Hearable, Introduced
<1>8. ASSUME NEW m \in Message, inbox' = Append(inbox, m),
             m.type = "serviceAdded" => m.from = <<w, life[w] + 1>>,
             m.type = "message" => up[w] /\ m.from = Unique(w) /\ m.eid \in eps[w]
      PROVE  Introduced(e, n)'
  <2>1. m \in Came({n}) <=> m.type = "serviceAdded" /\ m.from = n
    BY KindsOne
  <2>2. m \in Sent({n}, {e}) <=> m.type = "message" /\ m.from = n /\ m.eid = e
    BY KindsOne
  <2>3. n \in Name /\ n[1] \in Bound
    BY DEF NamesOf
  <2>4. CASE m \in Came({n})
    <3>1. ~Occurs(inbox, Sent({n}, {e}))
      BY <1>2, <1>8, <2>1, <2>3, <2>4, NextLife
    <3>2. ~Occurs(inbox', Sent({n}, {e}))
      BY <1>2, <1>8, <2>1, <2>2, <2>4, <3>1, InboxGets
    <3> QED
      BY <3>2, OrderVoid DEF Introduced
  <2>5. CASE m \notin Came({n})
    <3>1. Occurs(inbox', Came({n})) => Occurs(inbox, Came({n}))
      BY <1>2, <1>8, <2>5, InboxGets
    <3>2. Hearable(n) /\ Introduced(e, n)
      BY <1>2, <1>5, <3>1 DEF Hearable
    <3>3. ASSUME m \in Sent({n}, {e})
          PROVE  /\ Followed(inbox, Removed(NamesOf(Bound), {e}), Added({n}, {e}))
                 /\ Listed(DeviceID(e, 0)) \/ Occurs(inbox, Added({n}, {e}))
      <4>1. up[w] /\ n = Unique(w) /\ e \in eps[w]
        BY <1>8, <2>2, <3>3
      <4>2. w \in Active
        BY <1>2, <2>3, <4>1, UniqueFacts DEF Active
      <4>3. Listed(DeviceID(e, 0)) \/ Occurs(inbox, Added({n}, {e}))
        BY <1>3, <4>1, <4>2 DEF CompleteInv
      <4>4. Followed(inbox, Removed(Name, {e}), Added({n}, {e}))
        BY <1>2, <4>1 DEF PresenceInv
      <4>5. Removed(NamesOf(Bound), {e}) \subseteq Removed(Name, {e})
        BY DEF Removed, NamesOf
      <4>6. Followed(inbox, Removed(NamesOf(Bound), {e}), Added({n}, {e}))
        BY <4>4, <4>5 DEF Followed
      <4> QED
        BY <4>3, <4>6
    <3> QED
      BY <1>2, <1>4, <1>8, <3>2, <3>3, SpokenArrives
  <2> QED
    BY <2>4, <2>5
<1> QED
  BY <1>6, <1>7, <1>8

LEMMA SpokenStep ==
  ASSUME Steady, NetworkChangeCallback, GroundInv, GroundInv', CompleteInv, SpokenInv, [Next]_vars
  PROVE  SpokenInv'
<1>1. ASSUME UNCHANGED <<inbox, matchedBuses>>, Discovered' => Discovered,
             \A d \in DevIds : Listed(d) => Listed(d)'
      PROVE  SpokenInv'
  <2>1. \A e \in Eids : DeviceID(e, 0) \in DevIds
    BY SteadyIds DEF GroundInv
  <2>2. \A n : Hearable(n)' <=> Hearable(n)
    BY <1>1 DEF Hearable
  <2>3. \A n, e : e \in Eids /\ Introduced(e, n) => Introduced(e, n)'
    BY <1>1, <2>1 DEF Introduced
  <2> QED
    BY <1>1, <2>2, <2>3 DEF SpokenInv
<1>2. CASE UNCHANGED <<inbox, matchedBuses, scan, endpointMap, spawned>>
  BY <1>1, <1>2 DEF Discovered, Listed
<1>3. CASE RunSpawned
  <2>1. UNCHANGED <<matchedBuses, scan, inbox>>
    BY <1>3 DEF RunSpawned, busVars
  <2>2. \A d \in DevIds : Listed(d) => Listed(d)'
    BY <1>3, ListedRuns DEF GroundInv
  <2> QED
    BY <1>1, <2>1, <2>2 DEF Discovered
<1>4. ASSUME NEW c \in Callers, DetectMctpEndpoints(c)
      PROVE  SpokenInv'
  <2>1. /\ UNCHANGED <<matchedBuses, inbox, endpointMap, spawned>>
        /\ scan'[c].pc = "services" /\ \A d \in Callers : d # c => scan'[d] = scan[d]
    BY <1>4 DEF DetectMctpEndpoints, Suspend, GroundInv, TypeInv, TypeOK
  <2>2. Discovered' => Discovered
    BY <2>1 DEF Discovered
  <2>3. \A d \in DevIds : Listed(d) => Listed(d)'
    BY <2>1 DEF Listed
  <2> QED
    BY <1>1, <2>1, <2>2, <2>3
<1>5. CASE Application
  BY <1>2, <1>4, <1>5 DEF Application, RegisterResponder, RegisterNothing, GetOwnEIDs,
       SetExtendedReceiveCallback, busVars, libVars
<1>6. ASSUME NEW c \in Callers, Answers(c)
      PROVE  SpokenInv'
  <2>1. PICK call \in calls : Answer(call) /\ UNCHANGED libVars
    BY <1>6 DEF Answers
  <2>2. PICK reply \in Message : /\ AnswerCall(call, reply)
                                 /\ reply.type \in {"services", "owner", "objects", "error"}
    BY <2>1, AnswerReply DEF GroundInv
  <2>3. /\ inbox' = Append(inbox, reply) /\ inbox \in Seq(Message)
        /\ UNCHANGED <<scan, matchedBuses, endpointMap, spawned>>
    BY <2>1, <2>2 DEF AnswerCall, GroundInv, TypeInv, TypeOK, BusTypeOK, libVars
  <2>4. \A n, e : reply \notin Came({n}) /\ reply \notin Sent({n}, {e})
    <3>1. /\ \A n : reply \in Came({n}) => reply.type = "serviceAdded"
          /\ \A n, e : reply \in Sent({n}, {e}) => reply.type = "message"
      BY KindsOne
    <3> QED
      BY <2>2, <3>1
  <2>5. \A n : Hearable(n)' => Hearable(n)
    BY <2>3, <2>4, InboxGets DEF Hearable
  <2>6. \A d : Listed(d) => Listed(d)'
    BY <2>3 DEF Listed
  <2>7. \A n, e : Introduced(e, n) => Introduced(e, n)'
    BY <2>3, <2>4, <2>6, SpokenArrives
  <2>8. Discovered' => Discovered
    BY <2>3 DEF Discovered
  <2> QED
    BY <2>5, <2>7, <2>8 DEF SpokenInv
<1>7. CASE UNCHANGED vars
  BY <1>2, <1>7 DEF vars, busVars, libVars
<1> QED
  BY <1>3, <1>5, <1>6, <1>7, SpokenDispatch, SpokenService DEF Next

-----------------------------------------------------------------------------
(* The application knows the devices whose messages it is handed. *)

SpeakerInv == TrackInv /\ FeedInv /\ SpokenInv

LEMMA SpeakerStep ==
  ASSUME Steady, SpawnInline, NetworkChangeCallback, SpeakerInv, [Next]_vars
  PROVE  SpeakerInv'
<1>1. TrackInv'
  BY TrackStep DEF SpeakerInv
<1>2. FeedInv'
  BY FeedNextStep DEF SpeakerInv, TrackInv, GroundInv
<1>3. SpokenInv'
  BY <1>1, SpokenStep DEF SpeakerInv, TrackInv
<1> QED
  BY <1>1, <1>2, <1>3 DEF SpeakerInv

LEMMA SpeakerInitially ==
  ASSUME Steady, Init
  PROVE  SpeakerInv
BY TrackInitially, FeedInitially DEF SpeakerInv, SpokenInv, Discovered, Init

\* A message that was asked for is from an endpoint of the kind asked for.
LEMMA AskedFits ==
  ASSUME GroundInv, ListsWhole, inbox # <<>>, NEW m, m = Head(inbox),
         m.type = "message", Admits(m.header)
  PROVE  Fits(m.eid)
<1>1. inbox \in Seq(Message) /\ m \in Message
  BY DEF GroundInv, TypeInv, TypeOK, BusTypeOK
<1>2. AsksFor(m.header)
  BY <1>1, MessageHeader, FilterExact
<1>3. 1 \in DOMAIN inbox /\ inbox[1] = m
  BY <1>1
<1>4. Speaks(m.eid, m.header)
  BY <1>3 DEF GroundInv, BusInv, SpeechInv
<1>5. m.eid \in Eids /\ m.eid \in Supporting
  BY <1>1, <1>2, <1>4, MessageFields DEF AsksFor, Speaks
<1>6. ASSUME MsgType = vdpci
      PROVE  VendorID[m.eid] \in Vid /\ VdmType \cap VendorTypes[m.eid] # {}
  <2>1. PICK x \in VdmType : m.header.vendorMessageId \cap VdmMask = x \cap VdmMask
    BY <1>2, <1>6 DEF AsksFor
  <2>2. VendorID[m.eid] \in Vid /\ m.header.vendorMessageId \in VendorTypes[m.eid]
    BY <1>2, <1>4, <1>6 DEF AsksFor, Speaks
  <2>3. x \in VendorTypes[m.eid]
    BY <1>5, <2>1, <2>2 DEF ListsWhole
  <2> QED
    BY <2>2, <2>3
<1> QED
  BY <1>5, <1>6 DEF Fits, AsksForEndpoint

\* The device of a message that is handed over has an entry.
LEMMA SpeakerListed ==
  ASSUME Steady, ListsWhole, SpawnInline, SpeakerInv, Dispatch,
         \A c \in Callers : ~Running(c), NEW m, m = Head(inbox), m.type = "message",
         Heard(m), Admits(m.header)
  PROVE  m.eid \in Eids /\ m.from \in Name /\ DeviceID(m.eid, 0) \in known
<1>1. /\ inbox \in Seq(Message) /\ m \in Message /\ inbox # <<>> /\ spawned = <<>>
      /\ GroundInv /\ FirstInv /\ TypeInv
  BY DEF Dispatch, Settled, SpeakerInv, TrackInv, GroundInv, TypeInv, TypeOK, BusTypeOK
<1>2. known = Entries(endpointMap)
  BY <1>1, NewsFacts DEF SpeakerInv, FeedInv
<1>3. m.eid \in Eids /\ m.from \in Name
  BY <1>1, MessageFields
<1>4. Discovered
  BY <1>1 DEF Heard, FirstInv, Discovered, Running
<1>5. m.from \in NamesOf(Bound) /\ Hearable(m.from)
  BY <1>1, <1>3 DEF Heard, Hearable, NamesOf, GroundInv, BoundInv, BoundLib, BoundName
<1>6. Fits(m.eid)
  BY <1>1, AskedFits
<1>7. Introduced(m.eid, m.from)
  BY <1>3, <1>4, <1>5, <1>6 DEF SpeakerInv, SpokenInv
<1>8. m \in Sent({m.from}, {m.eid})
  BY <1>1, KindsOne
<1>9. Listed(DeviceID(m.eid, 0))
  <2>1. Preceded(inbox, Sent({m.from}, {m.eid}), Added({m.from}, {m.eid}))
          => m \notin Sent({m.from}, {m.eid})
    BY <1>1, PrecededTail
  <2> QED
    BY <1>7, <1>8, <2>1 DEF Introduced
<1>10. DeviceID(m.eid, 0) \in DevIds
  BY <1>1, <1>3, SteadyIds
<1> QED
  BY <1>1, <1>2, <1>3, <1>9, <1>10 DEF Listed, Entries

\* Whatever name it is given, it is that of a device the application knows.
LEMMA SpeakerKnown ==
  ASSUME Steady, ListsWhole, SpawnInline, SpeakerInv, Dispatch,
         \A c \in Callers : ~Running(c), NEW m, m = Head(inbox), m.type = "message",
         Heard(m), NEW x \in received'
  PROVE  \E d \in known : IF x.callback = "plain" THEN x.from = mctpEID(d) ELSE x.from = d
<1>1. OnMessageReceived(m)
  BY Zenon DEF Dispatch, OnServices, OnMapperError, OnOwner, OnObjects, OnObjectsError,
         OnNewService, OnNewEID, OnEIDRemoved, OnServiceRemoved, OnOwnEIDChange,
         IgnoreEvent
<1>2. Admits(m.header) /\ x \in Handed(m)
  BY <1>1 DEF OnMessageReceived
<1>3. m.eid \in Eids /\ m.from \in Name /\ DeviceID(m.eid, 0) \in known
  BY <1>2, SpeakerListed
<1>4. mctpEID(DeviceID(m.eid, 0)) = m.eid
  <2>1. m.eid \in Byte
    BY <1>3, BusAssumption
  <2>2. 0 \in Byte
    BY DEF Byte
  <2> QED
    BY <2>1, <2>2, Accessors
<1>5. getNetworkID(m.from) = 0
  BY <1>3, SteadyIds DEF SpeakerInv, TrackInv, GroundInv
<1> QED
  BY <1>2, <1>3, <1>4, <1>5 DEF Handed

\* No message of an unknown device, for every set of services and endpoints: once
\* no scan is at work, whoever a receive callback names was told to the
\* application before, and its removal was not.  Services may crash.  An endpoint
\* that speaks as asked under the mask must list what the scan compares.
THEOREM MessagesAreFromKnown ==
  ASSUME Steady, ListsWhole, SpawnInline, NetworkChangeCallback
  PROVE  Spec => MessagesFromKnown
<1>1. Init => SpeakerInv
  BY SpeakerInitially
<1>2. SpeakerInv /\ [Next]_vars => SpeakerInv'
  BY SpeakerStep
<1>3. SpeakerInv /\ [Next]_vars =>
        [LET m == Head(inbox)
         IN  Dispatch /\ m.type = "message" /\ Heard(m) /\ ~(\E c \in Callers : Running(c))
             => \A x \in received' :
                  \E d \in known : IF x.callback = "plain" THEN x.from = mctpEID(d)
                                   ELSE x.from = d]_vars
  BY SpeakerKnown
<1> QED
  BY <1>1, <1>2, <1>3, PTL DEF Spec, MessagesFromKnown

=============================================================================
