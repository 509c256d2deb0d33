--------------------------- MODULE MctpFeedProofs ---------------------------
(***************************************************************************)
(* Proofs of what the application is told, for every value of the          *)
(* constants: of devices (in a build where spawn() enters the coroutine at *)
(* once, with a ReconfigurationCallback) and of messages.                  *)
(***************************************************************************)
EXTENDS MctpImplProofs, MctpConfigProofs

-----------------------------------------------------------------------------
(* Between two handlers the application knows what is in the map; between a  *)
(* handler and its coroutine at most one device differs.                     *)

FeedInv ==
  \/ spawned = <<>> /\ known = Entries(endpointMap)
  \/ \E event \in Event :
       /\ spawned = <<event>>
       /\ \/ /\ event.type = "deviceAdded"
             /\ known = Entries(endpointMap)
          \/ /\ event.type = "deviceRemoved"
             /\ event.deviceId \in known
             /\ Entries(endpointMap) = known \ {event.deviceId}

\* The steps of the abstract feed, over the state of MCTPImpl.
FeedStep == [Feed!FeedNext]_<<Entries(endpointMap), known, NewsOf(spawned)>>

\* The news of no coroutine and of one.
LEMMA NewsFacts ==
  /\ NewsOf(<<>>) = <<>>
  /\ \A event \in Event :
       /\ NewsOf(<<event>>) = <<[type |-> event.type, deviceId |-> event.deviceId]>>
       /\ Append(<<>>, event) = <<event>>
       /\ Head(<<event>>) = event /\ Tail(<<event>>) = <<>>
BY DEF NewsOf

\* The map after eraseDevice, and after emplace of a service.
LEMMA EntriesFacts ==
  ASSUME TypeOK, NEW d \in DevIds
  PROVE  /\ Entries(eraseDevice(d)) = Entries(endpointMap) \ {d}
         /\ \A n \in Name : Entries(Emplaced(d, n)) = Entries(endpointMap) \cup {d}
BY ImplAssumption DEF Entries, eraseDevice, Emplaced, TypeOK, EndpointMap

\* A step that leaves map, view and coroutines alone, or a scan that renews map
\* and view together, is a step of the feed.
LEMMA RenewStep ==
  ASSUME spawned = <<>>, spawned' = <<>>, known' = Entries(endpointMap')
  PROVE  FeedInv' /\ FeedStep
<1>1. NewsOf(spawned) = <<>> /\ NewsOf(spawned') = <<>>
  BY NewsFacts
<1>2. Entries(endpointMap') \in SUBSET DevIds
  BY DEF Entries
<1>3. Feed!Renew
  BY <1>1, <1>2 DEF Feed!Renew
<1> QED
  BY <1>3 DEF FeedInv, FeedStep, Feed!FeedNext

\* A step that leaves them alone altogether.
LEMMA StillStep ==
  ASSUME FeedInv, UNCHANGED <<endpointMap, known, spawned>>
  PROVE  FeedInv' /\ FeedStep
<1>1. Entries(endpointMap)' = Entries(endpointMap) /\ NewsOf(spawned)' = NewsOf(spawned)
  BY DEF Entries, NewsOf
<1> QED
  BY <1>1 DEF FeedInv, FeedStep

\* A scan's step leaves map and view alone, or renews both.
LEMMA BuildMapFeed ==
  ASSUME NEW c, NEW buses, NEW found, BuildMap(c, buses, found),
         known = Entries(endpointMap)
  PROVE  known' = Entries(endpointMap')
BY DEF BuildMap, FinishDetect, Entries

LEMMA FindBusesFeed ==
  ASSUME NEW c, NEW todo, NEW buses, FindBuses(c, todo, buses),
         known = Entries(endpointMap)
  PROVE  known' = Entries(endpointMap')
BY BuildMapFeed DEF FindBuses, Entries

\* Handling a message is a step of the feed.
LEMMA FeedDispatch ==
  ASSUME SpawnInline, NetworkChangeCallback, TypeInv, FeedInv, Dispatch
  PROVE  FeedInv' /\ FeedStep
<1> DEFINE m == Head(inbox)
<1>1. m \in Message
  BY DEF Dispatch, TypeInv, TypeOK, BusTypeOK
<1>2. spawned = <<>> /\ known = Entries(endpointMap)
  BY NewsFacts DEF Dispatch, Settled, FeedInv
<1> HIDE DEF m
<1>3. ASSUME UNCHANGED spawned, known' = Entries(endpointMap')
      PROVE  FeedInv' /\ FeedStep
  BY <1>2, <1>3, RenewStep
<1>4. CASE OnServices(m)
  BY <1>2, <1>3, <1>4, FindBusesFeed DEF OnServices
<1>5. CASE OnMapperError(m)
  BY <1>3, <1>5 DEF OnMapperError, FinishDetect
<1>6. CASE OnOwner(m)
  BY <1>2, <1>3, <1>6, FindBusesFeed DEF OnOwner
<1>7. CASE OnObjects(m)
  BY <1>2, <1>3, <1>7, BuildMapFeed DEF OnObjects
<1>8. CASE OnObjectsError(m)
  BY <1>2, <1>3, <1>8, BuildMapFeed DEF OnObjectsError
<1>9. CASE OnNewEID(m)
  <2> DEFINE d == getDeviceIDFromPath(m.eid, m.from)
             event == [type |-> "deviceAdded", service |-> m.from, deviceId |-> d]
  <2>1. d \in DevIds /\ m.from \in Name
    BY <1>1, <1>9, MessageFields, DeviceIdType DEF OnNewEID, TypeInv
  <2>2. event \in Event /\ event.type = "deviceAdded" /\ event.deviceId = d
    BY <2>1 DEF Event
  <2>3. spawned' = Append(spawned, event) /\ UNCHANGED <<endpointMap, known>>
    BY <1>9 DEF OnNewEID
  <2> HIDE DEF d, event
  <2>4. /\ spawned' = <<event>> /\ NewsOf(spawned) = <<>>
        /\ NewsOf(spawned)' = <<[type |-> "deviceAdded", deviceId |-> d]>>
        /\ Entries(endpointMap)' = Entries(endpointMap)
    BY <1>2, <2>2, <2>3, NewsFacts DEF Entries
  <2>5. Feed!Announce(d)
    BY <2>3, <2>4 DEF Feed!Announce
  <2> QED
    BY <1>2, <2>1, <2>2, <2>3, <2>4, <2>5 DEF FeedInv, FeedStep, Feed!FeedNext
<1>10. CASE OnEIDRemoved(m)
  <2> DEFINE d == getDeviceIDFromPath(m.eid, m.from)
             event == [type |-> "deviceRemoved", deviceId |-> d]
  <2>1. d \in DevIds
    BY <1>1, <1>10, MessageFields, DeviceIdType DEF OnEIDRemoved, TypeInv
  <2>2. event \in Event /\ event.type = "deviceRemoved" /\ event.deviceId = d
    BY <2>1 DEF Event
  <2>3. /\ endpointMap' = eraseDevice(d) /\ UNCHANGED known
        /\ spawned' = IF d \notin Entries(endpointMap) THEN spawned
                      ELSE Append(spawned, event)
    BY <1>10 DEF OnEIDRemoved, ReportRemoval
  <2>4. Entries(endpointMap)' = Entries(endpointMap) \ {d}
    BY <2>1, <2>3, EntriesFacts DEF TypeInv, Entries
  <2> HIDE DEF d, event
  <2>5. CASE d \notin Entries(endpointMap)
    BY <1>2, <1>3, <2>3, <2>4, <2>5 DEF Entries
  <2>6. CASE d \in Entries(endpointMap)
    <3>1. /\ spawned' = <<event>> /\ NewsOf(spawned) = <<>>
          /\ NewsOf(spawned)' = <<[type |-> "deviceRemoved", deviceId |-> d]>>
      BY <1>2, <2>2, <2>3, <2>6, NewsFacts
    <3>2. Feed!Withdraw(d)
      BY <2>3, <2>4, <2>6, <3>1 DEF Feed!Withdraw
    <3> QED
      BY <1>2, <2>1, <2>2, <2>3, <2>4, <2>6, <3>1, <3>2
         DEF FeedInv, FeedStep, Feed!FeedNext
  <2> QED
    BY <2>5, <2>6
<1>11. CASE UNCHANGED <<endpointMap, known, spawned>>
  BY <1>11, StillStep
<1> QED
  BY <1>4, <1>5, <1>6, <1>7, <1>8, <1>9, <1>10, <1>11
     DEF Dispatch, m, OnNewService, OnServiceRemoved, OnOwnEIDChange,
         OnMessageReceived, IgnoreEvent, libVars, appVars

\* The coroutine's callback is the feed's Tell.
LEMMA FeedSpawned ==
  ASSUME TypeInv, FeedInv, RunSpawned
  PROVE  FeedInv' /\ FeedStep
<1>1. PICK event \in Event :
        /\ spawned = <<event>>
        /\ \/ /\ event.type = "deviceAdded"
              /\ known = Entries(endpointMap)
           \/ /\ event.type = "deviceRemoved"
              /\ event.deviceId \in known
              /\ Entries(endpointMap) = known \ {event.deviceId}
  BY DEF RunSpawned, FeedInv
<1> DEFINE d == event.deviceId
           item == [type |-> event.type, deviceId |-> d]
<1>2. /\ d \in DevIds /\ (event.type = "deviceAdded" => event.service \in Name)
      /\ spawned' = <<>> /\ Head(spawned) = event
      /\ NewsOf(spawned) = <<item>> /\ NewsOf(spawned') = <<>>
  BY <1>1, EventFields, NewsFacts DEF RunSpawned
<1>3. /\ item.type = event.type /\ item.deviceId = d
      /\ Head(<<item>>) = item /\ Tail(<<item>>) = <<>> /\ <<item>> # <<>>
  OBVIOUS
<1> HIDE DEF d, item
<1>4. CASE event.type = "deviceAdded"
  <2>1. endpointMap' = Emplaced(d, event.service) /\ known' = known \cup {d}
    BY <1>2, <1>4 DEF RunSpawned, d
  <2>2. Entries(endpointMap') = Entries(endpointMap) \cup {d}
    BY <1>2, <1>4, <2>1, EntriesFacts DEF TypeInv
  <2>3. Feed!Tell
    BY <1>2, <1>3, <1>4, <2>1, <2>2 DEF Feed!Tell
  <2> QED
    BY <1>1, <1>2, <1>4, <2>1, <2>2, <2>3 DEF FeedInv, FeedStep, Feed!FeedNext
<1>5. CASE event.type = "deviceRemoved"
  <2>1. UNCHANGED endpointMap /\ known' = known \ {d}
    BY <1>2, <1>5 DEF RunSpawned, d
  <2>2. Feed!Tell
    BY <1>2, <1>3, <1>5, <2>1 DEF Feed!Tell, Entries
  <2> QED
    BY <1>1, <1>2, <1>5, <2>1, <2>2 DEF FeedInv, FeedStep, Feed!FeedNext, d, Entries
<1> QED
  BY <1>1, <1>4, <1>5

\* Every step of the library and of its surroundings is a step of the feed.
LEMMA FeedNextStep ==
  ASSUME SpawnInline, NetworkChangeCallback, TypeInv, FeedInv, [Next]_vars
  PROVE  FeedInv' /\ FeedStep
<1>1. ASSUME UNCHANGED <<endpointMap, known, spawned>>
      PROVE  FeedInv' /\ FeedStep
  BY <1>1, StillStep
<1>2. CASE Application
  BY <1>1, <1>2 DEF Application, DetectMctpEndpoints, RegisterResponder,
                    RegisterNothing, GetOwnEIDs, SetExtendedReceiveCallback,
                    appVars, libVars
<1>3. CASE AnyService
  BY <1>1, <1>3 DEF AnyService, libVars, appVars
<1>4. CASE \E c \in Callers : Answers(c)
  BY <1>1, <1>4 DEF Answers, libVars, appVars
<1>5. CASE UNCHANGED vars
  BY <1>1, <1>5 DEF vars, libVars, appVars
<1> QED
  BY <1>2, <1>3, <1>4, <1>5, FeedDispatch, FeedSpawned DEF Next

\* Initially there is no device and no news.
LEMMA FeedInitially == Init => FeedInv /\ Feed!FeedInit
BY NewsFacts DEF Init, FeedInv, Feed!FeedInit, Entries, EmptyMap

\* What ReconfigurationCallback promises holds for every set of services,
\* endpoints and callers, with crashes and failing calls: the endpoint map
\* changes by what the callback tells, or as a whole by a scan that returns.
THEOREM FeedImplemented ==
  ASSUME SpawnInline, NetworkChangeCallback
  PROVE  Spec => ImplementsFeed
<1>1. TypeInv /\ FeedInv /\ [Next]_vars => FeedInv' /\ FeedStep
  BY FeedNextStep
<1>2. FeedStep => [Feed!FeedNext]_(Feed!feedVars)
  BY DEF FeedStep, Feed!feedVars
<1>3. Spec => []TypeInv
  BY TypeInit, TypeStep, PTL DEF Spec
<1>4. Spec => []FeedInv
  BY <1>1, <1>3, FeedInitially, PTL DEF Spec
<1> QED
  BY <1>1, <1>2, <1>3, <1>4, FeedInitially, PTL DEF Spec, ImplementsFeed, Feed!FeedSpec

\* With nothing left to be told, the devices the application counts are those in
\* the map: no signal, scan or failure makes the two drift apart.
THEOREM ViewFollowsMap ==
  ASSUME SpawnInline, NetworkChangeCallback
  PROVE  Spec => []ViewAgrees
<1>1. TypeInv /\ FeedInv /\ [Next]_vars => FeedInv'
  BY FeedNextStep
<1>2. FeedInv => ViewAgrees
  BY DEF FeedInv, ViewAgrees
<1>3. Spec => []TypeInv
  BY TypeInit, TypeStep, PTL DEF Spec
<1> QED
  BY <1>1, <1>2, <1>3, FeedInitially, PTL DEF Spec

-----------------------------------------------------------------------------
(* Messages that come of their own accord. *)

\* A message has a header an endpoint may send.
LEMMA MessageHeader ==
  ASSUME NEW m \in Message, m.type = "message"
  PROVE  m.header \in Header
BY BusAssumption DEF Message, Signal, Reply

\* A handler of a heard message hands it over exactly if it was asked for.
LEMMA ReceiveStep ==
  ASSUME TypeInv, [Next]_vars, Dispatch, Head(inbox).type = "message",
         Heard(Head(inbox)), ReceiveCallback \/ extReceiveCallback
  PROVE  received' # {} <=> AsksFor(Head(inbox).header)
<1> DEFINE m == Head(inbox)
<1>1. m \in Message
  BY DEF Dispatch, TypeInv, TypeOK, BusTypeOK
<1>2. OnMessageReceived(m)
  BY DEF Dispatch, OnServices, OnMapperError, OnOwner, OnObjects, OnObjectsError,
         OnNewService, OnNewEID, OnEIDRemoved, OnServiceRemoved, OnOwnEIDChange,
         IgnoreEvent
<1> HIDE DEF m
<1>3. Handed(m) # {}
  BY DEF Handed
<1>4. Admits(m.header) <=> AsksFor(m.header)
  BY <1>1, <1>2, MessageHeader, FilterExact DEF OnMessageReceived
<1> QED
  BY <1>2, <1>3, <1>4 DEF OnMessageReceived, m

\* Whatever the configuration and the CPU's byte order, the receive callbacks
\* get exactly the messages of matched services that were asked for.
THEOREM ReceivedAsAsked == Spec => ReceivesAsAsked
<1>1. TypeInv /\ [Next]_vars =>
        [LET m == Head(inbox)
         IN  Dispatch /\ m.type = "message" /\ Heard(m)
               /\ (ReceiveCallback \/ extReceiveCallback)
             => (received' # {} <=> AsksFor(m.header))]_vars
  BY ReceiveStep
<1>2. Spec => []TypeInv
  BY TypeInit, TypeStep, PTL DEF Spec
<1> QED
  BY <1>1, <1>2, PTL DEF Spec, ReceivesAsAsked

=============================================================================
