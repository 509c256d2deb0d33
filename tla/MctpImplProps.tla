--------------------------- MODULE MctpImplProps ----------------------------
(***************************************************************************)
(* What MCTPImpl is for, stated over the state of MctpImpl: the endpoint   *)
(* map follows the bus, the application's view follows the map, and the    *)
(* services are served with what the application set once.                 *)
(***************************************************************************)
EXTENDS MctpImpl

-----------------------------------------------------------------------------
(* Whose devices and signals count. *)

\* README "Filter MCTP services with binding type": only services of the
\* configured binding are ever matched, asked for endpoints, or named by an
\* entry of the endpoint map or by one about to be made.
OnlyBoundServices ==
  /\ \A n \in matchedBuses : n[1] \in Bound
  /\ \A d \in DevIds : endpointMap[d] # NoService => endpointMap[d][1] \in Bound
  /\ \A i \in DOMAIN spawned :
       spawned[i].type = "deviceAdded" => spawned[i].service[1] \in Bound

-----------------------------------------------------------------------------
(* The map and the bus. *)

Running(c) == scan[c].pc \notin {"idle", "done"}

\* Discovery has been done and nothing is on its way.
Quiet ==
  /\ \E c \in Callers : scan[c].pc = "done"
  /\ \A c \in Callers : ~Running(c)
  /\ inbox = <<>> /\ spawned = <<>>

\* The configuration asks for endpoint e of service w, and it is there.
Wanted(w, e) ==
  /\ w \in Bound /\ up[w] /\ e \in eps[w]
  /\ e \in Supporting /\ AsksForEndpoint(VendorID[e], VendorTypes[e])

\* Messages to the device of the map's entry d reach service w.
Routed(d, w) ==
  endpointMap[d] # NoService /\ endpointMap[d][1] = w /\ Reachable(endpointMap[d])

\* README "ep will have all available EIDs in the system": once nothing is on
\* its way, every endpoint the configuration asks for has an entry.
AllAvailable ==
  Quiet => \A w \in Services, e \in Eids :
             Wanted(w, e) => DeviceID(e, Network(w)) \in Entries(endpointMap)

\* README "Listen for EIDs added and removed dynamically": once nothing is on
\* its way, every entry of the map is an endpoint that is still there, and names
\* its service.
NothingStale ==
  Quiet => \A d \in Entries(endpointMap) :
             \E w \in Services, e \in Eids :
               e \in eps[w] /\ d = DeviceID(e, Network(w)) /\ Routed(d, w)

\* An endpoint that stays gets its entry: after discovery an endpoint the
\* configuration asks for is in the map at some point, or disappears.
EventuallyTracked ==
  \A w \in Services, e \in Eids :
    (\E c \in Callers : scan[c].pc = "done") /\ Wanted(w, e)
      ~> ~Wanted(w, e) \/ DeviceID(e, Network(w)) \in Entries(endpointMap)

\* detectMctpEndpoints returns, whatever services and calls do meanwhile.
ScanCompletes ==
  \A c \in Callers : Running(c) ~> scan[c].pc = "done"

-----------------------------------------------------------------------------
(* The map and the application. *)

\* The devices the application counts from the map it read and the callbacks
\* it got since are those in the map, whenever no callback is outstanding.
ViewAgrees == spawned = <<>> => known = Entries(endpointMap)

\* ReconfigurationCallback reports changes: no device is added that the
\* application has, none removed that it has not.
CallbacksAlternate ==
  [][RunSpawned => LET event == Head(spawned)
                   IN  (event.type = "deviceAdded") <=> event.deviceId \notin known]_vars

\* The coroutines not yet run, as the callbacks they will make.
NewsOf(events) ==
  [i \in DOMAIN events |->
     [type |-> events[i].type, deviceId |-> events[i].deviceId]]

Feed == INSTANCE DeviceFeed WITH
  Devices <- DevIds,
  listed <- Entries(endpointMap),
  told <- known,
  news <- NewsOf(spawned)

\* What ReconfigurationCallback promises: the map changes by what the callback
\* tells, one device at a time, or as a whole by a scan that returns.
ImplementsFeed == Feed!FeedSpec

-----------------------------------------------------------------------------
(* What the application set once, and services that come and go. *)

\* No scan is collecting matched services; it makes good for them at its end.
Collecting == \E c \in Callers : scan[c].pc \in {"owner", "objects"}

\* The unique names of running services that are matched.
Serving == {n \in matchedBuses : n[2] # 0 /\ Reachable(n)}

\* registerResponder's versions reach the services matched then, those found by
\* a scan afterwards and those that come up afterwards: every running matched
\* service that does not refuse holds the versions set last, unless the last
\* call that was to tell it failed.
ResponderCoverage ==
  responderVersions # NoVersion /\ ~Collecting
    => \A n \in Serving :
         n[1] \notin Refusing /\ ~registered[n[1]].missed
           => registered[n[1]].versions = responderVersions

\* The changes of n's own EID that are still unread.
Pending(n) == {i \in DOMAIN inbox : inbox[i].type = "eidChanged" /\ inbox[i].from = n}

\* getOwnEIDs' callback keeps up: for every running matched service, the last
\* unread change signal carries the service's own EID, or without one the
\* value reported last is it, unless a read failed since.
OwnEidFresh ==
  eidChangeCallback /\ ~Collecting
    => \A n \in Serving :
         IF Pending(n) = {}
         THEN ~ownReported[n].missed => ownReported[n].eid = ownEid[n[1]]
         ELSE \E i \in Pending(n) :
                inbox[i].own = ownEid[n[1]] /\ \A j \in Pending(n) : j <= i

-----------------------------------------------------------------------------
(* Messages that come of their own accord. *)

\* "Callback to be executed when new MCTP message is received": of the matched
\* services' messages exactly those are handed over that the application asked
\* for when it made its configuration, whatever byte order the CPU has.
ReceivesAsAsked ==
  [][LET m == Head(inbox)
     IN  Dispatch /\ m.type = "message" /\ Heard(m)
           /\ (ReceiveCallback \/ extReceiveCallback)
         => (received' # {} <=> AsksFor(m.header))]_vars

\* With no scan at work, a message is handed over only as from a device that the
\* application knows: its addition was told before and its removal is not yet.
MessagesFromKnown ==
  [][LET m == Head(inbox)
     IN  Dispatch /\ m.type = "message" /\ Heard(m) /\ ~(\E c \in Callers : Running(c))
         => \A x \in received' :
              \E d \in known : IF x.callback = "plain" THEN x.from = mctpEID(d)
                               ELSE x.from = d]_vars

-----------------------------------------------------------------------------
(* What documents and messages of the repository say beyond that. *)

\* "NetworkID property not found in ... Assuming EIDs wont overlap": network 0
\* is for services without the property, the others' devices keep their network.
NetworkIdKept ==
  \A d \in Entries(endpointMap) : networkId(d) = Network(endpointMap[d][1])

\* README "option to use VendorId filtering": no device of another vendor.
VendorKept ==
  VendorFilter => \A d \in Entries(endpointMap) : VendorID[mctpEID(d)] \in Vid

\* "status of the operation": success is not reported when the mapper call
\* failed and nothing was scanned.
StatusTold ==
  \A c \in Callers : scan[c].mapperFailed => scan[c].ec # "success"

=============================================================================
