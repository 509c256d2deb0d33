------------------------------ MODULE MctpImpl ------------------------------
(***************************************************************************)
(* class MCTPImpl: discovery of the endpoints, the endpoint map, and the   *)
(* handlers that keep it in step with the signals of the MCTP services.    *)
(*                                                                         *)
(* The library is single threaded: one io_context thread runs to the next  *)
(* yield.  Interleaving happens where the code yields (three D-Bus calls   *)
(* of detectMctpEndpoints) and where a handler spawns a coroutine.  One    *)
(* action is one such run: the handler of the message at the head of       *)
(* inbox, a resumed coroutine up to its next yield, or a call made by the  *)
(* application.                                                            *)
(***************************************************************************)
EXTENDS MctpBus

CONSTANTS
  NoService,              \* no entry in the endpoint map
  NetworkChangeCallback,  \* is a ReconfigurationCallback given?
  ReadsBusId,             \* does the binding have a bus property? (I3C: no)
  ReceiveCallback,        \* is a ReceiveMessageCallback given?
  SetsExtReceive,         \* does the application set the extended one?
  GetsOwnEIDs,            \* does the application call getOwnEIDs?
  SpawnInline,            \* boost::asio::spawn enters the coroutine at once
  MaxSpawned,             \* bound: coroutines not run before endpoints pause
  Crashes,                \* services may die without a signal
  CalmServices,           \* no service comes or goes while a scan is at work
  CalmEndpoints           \* endpoints hold still once a scan has read them

\* Network ids a DeviceID can carry: 0 is getNetworkID's fallback.
Networks == {0} \cup ({NetworkID[w] : w \in Services} \ {NoNetwork})
DevIds == {DeviceID(e, n) : e \in Eids, n \in Networks}
NoOwnEid == -1

\* What getOwnEIDs' callback was told last under a service name, and whether a
\* later read of the property failed, with nothing told since.
Report == [eid : OwnEids \cup {NoOwnEid}, missed : BOOLEAN]

\* Does the configuration select endpoints by vendor?
VendorFilter == config.type = vdpci /\ config.vendorId # {}

ASSUME ImplAssumption ==
  /\ NoService \notin Name
  /\ NoOwnEid \notin OwnEids
  /\ NetworkChangeCallback \in BOOLEAN
  /\ ReceiveCallback \in BOOLEAN /\ SetsExtReceive \in BOOLEAN
  /\ ReadsBusId \in BOOLEAN /\ GetsOwnEIDs \in BOOLEAN
  /\ MaxSpawned \in Nat /\ SpawnInline \in BOOLEAN
  /\ Crashes \in BOOLEAN /\ CalmServices \in BOOLEAN /\ CalmEndpoints \in BOOLEAN

VARIABLES
  endpointMap,            \* DeviceID -> service name, NoService when absent
  matchedBuses,           \* names of the services whose signals count
  networkIDCache,         \* service name -> network id, or NoNetwork
  isInitialisationsDone,
  responderVersions,
  eidChangeCallback,      \* is an own-EID callback set?
  extReceiveCallback,     \* is an extended receive callback set?
  spawned,                \* coroutines of onNewEID, onEIDRemoved not yet run
  scan,                   \* the locals of each detectMctpEndpoints coroutine
  known,                  \* the devices the application has been told of
  ownReported,            \* own EID last reported to it, a Report per service name
  received,               \* what its callbacks got of the message handled last
  regStatus               \* what its last registerResponder returned

appVars == <<known, ownReported, regStatus>>
libVars == <<endpointMap, matchedBuses, networkIDCache, isInitialisationsDone,
             responderVersions, eidChangeCallback, spawned, scan>>
rxVars == <<extReceiveCallback, received>>
vars == <<busVars, libVars, appVars, rxVars>>

-----------------------------------------------------------------------------
EmptyMap == [d \in DevIds |-> NoService]
EndpointMap == [DevIds -> Name \cup {NoService}]
Entries(map) == {d \in DevIds : map[d] # NoService}

Event == [type : {"deviceAdded"}, deviceId : DevIds, service : Name]
           \cup [type : {"deviceRemoved"}, deviceId : DevIds]

\* A call of a receive callback: the plain one is given an eid, the extended one
\* a DeviceID.
Delivery == [callback : {"plain"}, from : Eids]
              \cup [callback : {"extended"}, from : DevIds]

\* pc: where the coroutine is suspended; todo: services still to be visited by
\* findBusByBindingType; buses: found and not yet read; found: the local eids.
Scan == [pc : {"idle", "services", "owner", "objects", "done"},
         todo : SUBSET Services, buses : Seq(Services), found : EndpointMap,
         ec : {"none", "success", "error"}, mapperFailed : BOOLEAN]

TypeOK ==
  /\ BusTypeOK
  /\ endpointMap \in EndpointMap
  /\ matchedBuses \in SUBSET Name
  /\ networkIDCache \in [Name -> Networks \cup {NoNetwork}]
  /\ isInitialisationsDone \in BOOLEAN
  /\ responderVersions \in Versions \cup {NoVersion}
  /\ eidChangeCallback \in BOOLEAN
  /\ spawned \in Seq(Event)
  /\ scan \in [Callers -> Scan]
  /\ known \in SUBSET DevIds
  /\ ownReported \in [Name -> Report]
  /\ regStatus \in {"none", "success", "io_error"}
  /\ extReceiveCallback \in BOOLEAN
  /\ received \in SUBSET Delivery

Init ==
  /\ BusInit
  /\ endpointMap = EmptyMap
  /\ matchedBuses = {}
  /\ networkIDCache = [n \in Name |-> NoNetwork]
  /\ isInitialisationsDone = FALSE
  /\ responderVersions = NoVersion
  /\ eidChangeCallback = FALSE
  /\ spawned = <<>>
  /\ scan = [c \in Callers |->
               [pc |-> "idle", todo |-> {}, buses |-> <<>>, found |-> EmptyMap,
                ec |-> "none", mapperFailed |-> FALSE]]
  /\ known = {}
  /\ ownReported = [n \in Name |-> [eid |-> NoOwnEid, missed |-> FALSE]]
  /\ regStatus = "none"
  /\ extReceiveCallback = FALSE
  /\ received = {}

\* With SpawnInline nothing runs between a spawn() and the spawned coroutine.
Settled == SpawnInline => spawned = <<>>

-----------------------------------------------------------------------------
(* Blocking property reads and calls. *)

\* getBusId: the read succeeds and the value parses, or an exception results;
\* for I3C a counter is used instead.
BusIdReadable(w) == ReadsBusId => up[w] /\ w \notin BadBusPath
BusIdFails(w) == ReadsBusId /\ (~up[w] \/ w \in BadBusPath \/ CallsMayFail)

\* getNetworkID: a cached value is returned; otherwise the property is read
\* and cached, and 0 is returned for this one call.
getNetworkID(n) == IF networkIDCache[n] # NoNetwork THEN networkIDCache[n] ELSE 0

\* The cache after that call: a failed read leaves it as it is.
CacheNetworkID(n) ==
  \/ /\ networkIDCache[n] = NoNetwork /\ Reachable(n)
     /\ networkIDCache' = [networkIDCache EXCEPT ![n] = NetworkID[n[1]]]
  \/ /\ networkIDCache[n] # NoNetwork \/ ~Reachable(n) \/ CallsMayFail
     /\ UNCHANGED networkIDCache

\* Mutant: the constructor's two bytes swapped.
SwappedDeviceID(e, n) == DeviceID(getNetworkID(n), e % 256)

\* The DeviceID of the endpoint object e of service n.
getDeviceIDFromPath(e, n) == DeviceID(e % 256, getNetworkID(n))

\* registerResponder(serviceName) on each of names, of which these are answered:
\* the service has the versions then, unless it refuses.  A call that fails may
\* have reached it all the same (late).
Registered(names, answered, late, versions) ==
  [w \in Services |->
     LET Reached(called) == \E n \in called : Reachable(n) /\ n[1] = w
     IN  [versions |-> IF w \notin Refusing /\ Reached(answered \cup late)
                       THEN versions ELSE registered[w].versions,
          missed   |-> /\ ~Reached(answered)
                       /\ registered[w].missed \/ Reached(names)]]
Register(names, answered, versions) ==
  \E late \in Answering(names \ answered) :
    registered' = Registered(names, answered, late, versions)

\* The same with the versions registered last, for services found since;
\* registerResponder(serviceName) does nothing while there are none.
\* Mutant: services found since are not registered with.
NotRegisteredAgain(names) == UNCHANGED registered
RegisterAgain(names) ==
  IF responderVersions = NoVersion THEN UNCHANGED registered
  ELSE \E answered \in Answering(names) : Register(names, answered, responderVersions)

\* What the callback has reported after triggerGetOwnEID on each of names, of
\* which these are answered: of the others it hears nothing.
OwnEidsRead(names, answered) ==
  [n \in Name |->
     IF n \in answered THEN [eid |-> ownEid[n[1]], missed |-> FALSE]
     ELSE IF n \in names THEN [eid |-> ownReported[n].eid, missed |-> TRUE]
     ELSE ownReported[n]]
ReadOwnEids(names) ==
  \E answered \in Answering(names) : ownReported' = OwnEidsRead(names, answered)

\* The same if getOwnEIDs was called before.
\* Mutant: services found since are not asked.
NotReadAgain(names) == UNCHANGED ownReported
ReadOwnEidsAgain(names) ==
  IF eidChangeCallback THEN ReadOwnEids(names) ELSE UNCHANGED ownReported

-----------------------------------------------------------------------------
(* The endpoint map. *)

\* eraseDevice.  Mutant: the entry is looked up and stays.
KeptDevice(d) == endpointMap
eraseDevice(d) ==
  [x \in DevIds |-> IF x = d THEN NoService ELSE endpointMap[x]]

\* endpointMap.emplace: an entry that is there stays as it is.
\* Mutant: the entry is left out.
NotEmplaced(d, service) == endpointMap
Emplaced(d, service) ==
  [x \in DevIds |->
     IF x = d /\ endpointMap[x] = NoService THEN service ELSE endpointMap[x]]

-----------------------------------------------------------------------------
(* detectMctpEndpoints, from the mapper's answer to its return. *)

\* The coroutine yields with these locals; it returns, always with success.
Suspend(c, pc, todo, buses, found) ==
  scan' = [scan EXCEPT ![c] =
             [pc |-> pc, todo |-> todo, buses |-> buses, found |-> found,
              ec |-> "none", mapperFailed |-> FALSE]]
Return(c, mapperFailed) ==
  scan' = [scan EXCEPT ![c] =
             [pc |-> "done", todo |-> {}, buses |-> <<>>, found |-> EmptyMap,
              ec |-> "success", mapperFailed |-> mapperFailed]]

\* The tail of detectMctpEndpoints once endpointMap' is settled: registerResponder
\* and getOwnEIDs are repeated if they were called before.  The application
\* then reads the endpoint map, as the examples do.
FinishDetect ==
  /\ RegisterAgain(matchedBuses')
  /\ ReadOwnEidsAgain(matchedBuses')
  /\ known' = Entries(endpointMap')
  /\ UNCHANGED calls

\* buildMatchingEndpointMap, up to its next yield: ask the next bus, or assign
\* the finished map.
BuildMap(c, buses, found) ==
  \/ /\ buses # <<>>
     /\ calls' = calls \cup
          {[caller |-> c, method |-> "GetManagedObjects", service |-> Head(buses),
            life |-> IF up[Head(buses)] THEN life[Head(buses)] ELSE 0]}
     /\ Suspend(c, "objects", {}, buses, found)
     /\ UNCHANGED <<endpointMap, registered, ownReported, known>>
  \/ /\ buses = <<>>
     /\ endpointMap' = found
     /\ Return(c, FALSE)
     /\ FinishDetect

\* findBusByBindingType's loop, up to its next yield: services whose bus id
\* cannot be read are skipped; the next one goes to buses and its owner is
\* asked for.  When none is left, discovery counts as done and the map is built.
FindBuses(c, todo, buses) ==
  \/ \E w \in todo : \E skipped \in SUBSET {x \in todo \ {w} : BusIdFails(x)} :
       /\ BusIdReadable(w)
       /\ calls' = calls \cup
            {[caller |-> c, method |-> "GetNameOwner", service |-> w]}
       /\ Suspend(c, "owner", todo \ (skipped \cup {w}), Append(buses, w), EmptyMap)
       /\ UNCHANGED <<isInitialisationsDone, endpointMap, registered,
                      ownReported, known>>
  \/ /\ \A w \in todo : BusIdFails(w)
     /\ isInitialisationsDone' = TRUE
     /\ BuildMap(c, buses, EmptyMap)

\* The mapper answered.
OnServices(m) ==
  /\ m.type = "services" /\ scan[m.to].pc = "services"
  /\ UNCHANGED <<matchedBuses, networkIDCache, responderVersions,
                 eidChangeCallback, spawned, regStatus>>
  /\ FindBuses(m.to, m.services, <<>>)

\* The mapper call failed: findBusByBindingType returns nullopt, the map stays
\* as it is, and the returned error code is success all the same.
OnMapperError(m) ==
  /\ m.type = "error" /\ scan[m.to].pc = "services"
  /\ isInitialisationsDone' = TRUE
  /\ UNCHANGED <<endpointMap, matchedBuses, networkIDCache, responderVersions,
                 eidChangeCallback, spawned, regStatus>>
  /\ Return(m.to, TRUE)
  /\ FinishDetect

\* addUniqueNameToMatchedServices: the name to match for service w, without an
\* answer its well-known name.  Mutant: always the well-known name.
NameAsFound(m, w) == WellKnown(w)
NameToMatch(m, w) == IF m.type = "owner" THEN m.owner ELSE WellKnown(w)

\* GetNameOwner was answered, or failed.
OnOwner(m) ==
  /\ m.type \in {"owner", "error"} /\ scan[m.to].pc = "owner"
  /\ LET buses == scan[m.to].buses
     IN  /\ matchedBuses' = matchedBuses \cup {NameToMatch(m, buses[Len(buses)])}
         /\ FindBuses(m.to, scan[m.to].todo, buses)
  /\ UNCHANGED <<networkIDCache, responderVersions, eidChangeCallback, spawned,
                 regStatus>>

\* The filter of buildMatchingEndpointMap.  The vendor's properties are reads of
\* the live object, which fail if it is gone by now.
ScanAdmits(w, e) ==
  /\ e \in Supporting
  /\ ListsVendor(VendorID[e], VendorTypes[e])
  /\ VendorFilter => up[w] /\ e \in eps[w]

\* The endpoints it may leave of these objects: a read can time out as well.
Listings(w, objects) ==
  LET admitted == {e \in objects : ScanAdmits(w, e)}
  IN  IF VendorFilter /\ CallsMayFail THEN SUBSET admitted ELSE {admitted}

\* The local eids of scan c after the endpoints listed of w.
\* Mutant: the map is cleared for each bus.
FoundOnLast(c, w, listed) ==
  [d \in DevIds |->
     IF \E e \in listed : d = DeviceID(e % 256, getNetworkID(WellKnown(w)))
     THEN WellKnown(w) ELSE NoService]
FoundOn(c, w, listed) ==
  [d \in DevIds |->
     IF \E e \in listed : d = DeviceID(e % 256, getNetworkID(WellKnown(w)))
     THEN WellKnown(w) ELSE scan[c].found[d]]

\* GetManagedObjects was answered.
OnObjects(m) ==
  /\ m.type = "objects" /\ scan[m.to].pc = "objects"
  /\ UNCHANGED <<matchedBuses, isInitialisationsDone, responderVersions,
                 eidChangeCallback, spawned, regStatus>>
  /\ LET w == Head(scan[m.to].buses)
     IN  /\ CacheNetworkID(WellKnown(w))
         /\ \E listed \in Listings(w, m.eids) :
              BuildMap(m.to, Tail(scan[m.to].buses), FoundOn(m.to, w, listed))

\* GetManagedObjects failed: the bus is skipped.
\* Mutant: it is tried again.
RetryObjects(m) ==
  /\ m.type = "error" /\ scan[m.to].pc = "objects"
  /\ UNCHANGED <<matchedBuses, networkIDCache, isInitialisationsDone,
                 responderVersions, eidChangeCallback, spawned, regStatus>>
  /\ BuildMap(m.to, scan[m.to].buses, scan[m.to].found)
OnObjectsError(m) ==
  /\ m.type = "error" /\ scan[m.to].pc = "objects"
  /\ UNCHANGED <<matchedBuses, networkIDCache, isInitialisationsDone,
                 responderVersions, eidChangeCallback, spawned, regStatus>>
  /\ BuildMap(m.to, Tail(scan[m.to].buses), scan[m.to].found)

-----------------------------------------------------------------------------
(* onMCTPEvent: signals are dropped until the first discovery got past       *)
(* findBusByBindingType, and later unless their sender is matched.           *)

\* Mutant: the sender is looked up by its well-known name.
HeardByWellKnownName(m) ==
  isInitialisationsDone /\ WellKnown(m.from[1]) \in matchedBuses
Heard(m) == isInitialisationsDone /\ m.from \in matchedBuses

\* The added base object has the interface of our binding.
\* Mutant: any base object will do.
OffersAny(m) == TRUE
OffersBinding(m) == m.from[1] \in Bound

\* onNewInterface, base object: a service with our binding came up.  It is
\* matched, registered with and asked for its own EID.
OnNewService(m) ==
  /\ m.type = "serviceAdded"
  /\ isInitialisationsDone /\ OffersBinding(m)
  /\ matchedBuses' = matchedBuses \cup {m.from}
  /\ RegisterAgain({m.from})
  /\ ReadOwnEidsAgain({m.from})
  /\ UNCHANGED <<endpointMap, networkIDCache, isInitialisationsDone,
                 responderVersions, eidChangeCallback, spawned, scan, calls,
                 known, regStatus>>

\* onNewInterface, endpoint object: the message type is checked, the vendor is
\* not.  onNewEID leaves the entry and the callback to a spawned coroutine, and
\* does nothing if no callback was given.
OnNewEID(m) ==
  /\ m.type = "endpointAdded" /\ Heard(m) /\ m.eid \in Supporting
  /\ CacheNetworkID(m.from)
  /\ spawned' = IF ~NetworkChangeCallback THEN spawned
                ELSE Append(spawned,
                       [type |-> "deviceAdded", service |-> m.from,
                        deviceId |-> getDeviceIDFromPath(m.eid, m.from)])
  /\ UNCHANGED <<endpointMap, matchedBuses, isInitialisationsDone,
                 responderVersions, eidChangeCallback, scan, calls, registered,
                 known, ownReported, regStatus>>

\* onEIDRemoved reports a device that was in the map, if there is a callback.
\* Mutant: the early return after eraseDevice is missing.
ReportAnyRemoval(d) == NetworkChangeCallback
ReportRemoval(d) == d \in Entries(endpointMap) /\ NetworkChangeCallback

\* onInterfaceRemoved, endpoint object, and onEIDRemoved: the entry goes now,
\* the callback follows from a spawned coroutine.
OnEIDRemoved(m) ==
  /\ m.type = "endpointRemoved" /\ Heard(m)
  /\ CacheNetworkID(m.from)
  /\ LET d == getDeviceIDFromPath(m.eid, m.from)
     IN  /\ endpointMap' = eraseDevice(d)
         /\ spawned' = IF ~ReportRemoval(d) THEN spawned
                       ELSE Append(spawned,
                              [type |-> "deviceRemoved", deviceId |-> d])
  /\ UNCHANGED <<matchedBuses, isInitialisationsDone, responderVersions,
                 eidChangeCallback, scan, calls, registered, known,
                 ownReported, regStatus>>

\* onInterfaceRemoved, base object: the service is no longer matched.  Entries
\* that name it are only logged.
OnServiceRemoved(m) ==
  /\ m.type = "serviceRemoved" /\ Heard(m)
  /\ matchedBuses' = matchedBuses \ {m.from}
  /\ UNCHANGED <<endpointMap, networkIDCache, isInitialisationsDone,
                 responderVersions, eidChangeCallback, spawned, scan, calls,
                 registered, known, ownReported, regStatus>>

\* onPropertiesChanged and onOwnEIDChange: the signal's value is passed on.
OnOwnEIDChange(m) ==
  /\ m.type = "eidChanged" /\ Heard(m)
  /\ ownReported' = IF eidChangeCallback
                    THEN [ownReported EXCEPT ![m.from] =
                            [eid |-> m.own, missed |-> FALSE]]
                    ELSE ownReported
  /\ UNCHANGED <<endpointMap, matchedBuses, networkIDCache,
                 isInitialisationsDone, responderVersions, eidChangeCallback,
                 spawned, scan, calls, registered, known, regStatus>>

\* The callbacks that are given the message, and as from whom.
Handed(m) ==
  (IF ReceiveCallback THEN {[callback |-> "plain", from |-> m.eid]} ELSE {})
    \cup (IF extReceiveCallback
          THEN {[callback |-> "extended",
                 from |-> DeviceID(m.eid, getNetworkID(m.from))]}
          ELSE {})

\* onMessageReceived.  The network id is read only for the extended callback.
OnMessageReceived(m) ==
  /\ m.type = "message" /\ Heard(m)
  /\ received' = IF Admits(m.header) THEN Handed(m) ELSE {}
  /\ IF Admits(m.header) /\ extReceiveCallback
     THEN CacheNetworkID(m.from) ELSE UNCHANGED networkIDCache
  /\ UNCHANGED <<endpointMap, matchedBuses, isInitialisationsDone,
                 responderVersions, eidChangeCallback, spawned, scan, calls,
                 registered, appVars, extReceiveCallback>>

\* Everything else is ignored.
IgnoreEvent(m) ==
  /\ \/ /\ m.type = "serviceAdded"
        /\ ~(isInitialisationsDone /\ OffersBinding(m))
     \/ /\ m.type = "endpointAdded"
        /\ ~(Heard(m) /\ m.eid \in Supporting)
     \/ /\ m.type \in {"endpointRemoved", "serviceRemoved", "eidChanged",
                       "message"}
        /\ ~Heard(m)
  /\ UNCHANGED <<libVars, calls, registered, appVars>>

\* The connection hands over its oldest message.
Dispatch ==
  /\ Settled
  /\ inbox # <<>>
  /\ inbox' = Tail(inbox)
  /\ UNCHANGED <<up, life, eps, ownEid, watching>>
  /\ LET m == Head(inbox)
     IN  \/ /\ received' = {} /\ UNCHANGED extReceiveCallback
            /\ \/ OnServices(m)
               \/ OnMapperError(m)
               \/ OnOwner(m)
               \/ OnObjects(m)
               \/ OnObjectsError(m)
               \/ OnNewService(m)
               \/ OnNewEID(m)
               \/ OnEIDRemoved(m)
               \/ OnServiceRemoved(m)
               \/ OnOwnEIDChange(m)
               \/ IgnoreEvent(m)
         \/ OnMessageReceived(m)

\* The coroutine spawned first runs: onNewEID's makes the entry, unless the
\* device has one, before it calls back; onEIDRemoved's only calls back.
RunSpawned ==
  /\ spawned # <<>>
  /\ spawned' = Tail(spawned)
  /\ LET event == Head(spawned)
         d     == event.deviceId
     IN  \/ /\ event.type = "deviceAdded"
            /\ endpointMap' = Emplaced(d, event.service)
            /\ known' = known \cup {d}
         \/ /\ event.type = "deviceRemoved"
            /\ UNCHANGED endpointMap
            /\ known' = known \ {d}
  /\ UNCHANGED <<busVars, matchedBuses, networkIDCache, isInitialisationsDone,
                 responderVersions, eidChangeCallback, scan, ownReported,
                 regStatus, rxVars>>

-----------------------------------------------------------------------------
(* Calls of the application. *)

\* A second call replaces the match; nothing is handled in between.
listenForMCTPChanges == watching' = TRUE

\* detectMctpEndpoints up to its first yield: listenForMCTPChanges installs
\* the match, then the mapper is asked.
DetectMctpEndpoints(c) ==
  /\ Settled
  /\ scan[c].pc = "idle"
  /\ listenForMCTPChanges
  /\ calls' = calls \cup {[caller |-> c, method |-> "GetObject"]}
  /\ Suspend(c, "services", {}, <<>>, EmptyMap)
  /\ UNCHANGED <<up, life, eps, ownEid, registered, inbox, endpointMap,
                 matchedBuses, networkIDCache, isInitialisationsDone,
                 responderVersions, eidChangeCallback, spawned, appVars, rxVars>>

\* registerResponder(versions): every matched service is called, in the order
\* of an unordered_set; the status of the last one is returned.
RegisterResponder(v) ==
  /\ Settled
  /\ responderVersions' = v
  /\ \E answered \in Answering(matchedBuses) :
       /\ Register(matchedBuses, answered, v)
       /\ \/ matchedBuses = {} /\ regStatus' = "success"
          \/ \E last \in matchedBuses :
               regStatus' = IF last \in answered /\ last[1] \notin Refusing
                            THEN "success" ELSE "io_error"
  /\ UNCHANGED <<up, life, eps, ownEid, watching, calls, inbox, endpointMap,
                 matchedBuses, networkIDCache, isInitialisationsDone,
                 eidChangeCallback, spawned, scan, known, ownReported, rxVars>>

\* registerResponder({}): an early return, whatever was registered stays.
RegisterNothing ==
  /\ Settled
  /\ regStatus' = "io_error"
  /\ UNCHANGED <<busVars, libVars, known, ownReported, rxVars>>

\* getOwnEIDs(callback), with a callback.
GetOwnEIDs ==
  /\ Settled
  /\ eidChangeCallback' = TRUE
  /\ ReadOwnEids(matchedBuses)
  /\ UNCHANGED <<busVars, endpointMap, matchedBuses, networkIDCache,
                 isInitialisationsDone, responderVersions, spawned, scan, known,
                 regStatus, rxVars>>

\* setExtendedReceiveCallback: refused if the constructor was given a plain one.
SetExtendedReceiveCallback ==
  /\ Settled
  /\ ~ReceiveCallback
  /\ extReceiveCallback' = TRUE
  /\ UNCHANGED <<busVars, libVars, appVars, received>>

Application ==
  \/ \E c \in Callers : DetectMctpEndpoints(c)
  \/ \E v \in Versions : RegisterResponder(v)
  \/ Versions # {} /\ RegisterNothing
  \/ GetsOwnEIDs /\ GetOwnEIDs
  \/ SetsExtReceive /\ SetExtendedReceiveCallback

-----------------------------------------------------------------------------
(* The services, and how still they hold when calm. *)

\* Scan c asked the mapper and has its answer, but has not finished.
Reading(c) ==
  /\ scan[c].pc \notin {"idle", "done"}
  /\ \A call \in calls : call.caller = c => call.method # "GetObject"

\* Scan c will ask w for its objects yet.
SnapshotAhead(c, w) ==
  \/ /\ scan[c].pc = "owner"
     /\ \/ w \in scan[c].todo
        \/ \E i \in DOMAIN scan[c].buses : scan[c].buses[i] = w
  \/ /\ scan[c].pc = "objects"
     /\ \E i \in DOMAIN scan[c].buses :
          /\ scan[c].buses[i] = w
          /\ i = 1 => \E call \in calls : call.caller = c

\* With CalmEndpoints a service changes its endpoints only if every scan at
\* work will still ask for them.
ServicesMayChange == CalmServices => \A c \in Callers : ~Reading(c)
EndpointsMayChange(w) ==
  CalmEndpoints => \A c \in Callers : Reading(c) => SnapshotAhead(c, w)

ServiceStep(w) ==
  \/ ServicesMayChange /\ (StartService(w) \/ StopService(w))
  \/ Crashes /\ ServicesMayChange /\ CrashService(w)
  \/ /\ EndpointsMayChange(w) /\ Len(spawned) < MaxSpawned
     /\ \E e \in Eids : AddEndpoint(w, e) \/ RemoveEndpoint(w, e)
  \/ ChangeOwnEid(w)
  \/ \E e \in Eids : SendMessage(w, e)

AnyService ==
  (\E w \in Services : ServiceStep(w)) /\ UNCHANGED <<libVars, appVars, rxVars>>
Answers(c) ==
  /\ \E call \in calls : call.caller = c /\ Answer(call)
  /\ UNCHANGED <<libVars, appVars, rxVars>>

Next ==
  \/ Dispatch
  \/ RunSpawned
  \/ Application
  \/ AnyService
  \/ \E c \in Callers : Answers(c)

\* The io_context thread keeps running handlers, and D-Bus ends every method
\* call with a reply, an error or a timeout.  The application and the services
\* owe nothing.
Fairness ==
  /\ WF_vars(Dispatch)
  /\ WF_vars(RunSpawned)
  /\ \A c \in Callers : WF_vars(Answers(c))

Spec == Init /\ [][Next]_vars /\ Fairness

=============================================================================
