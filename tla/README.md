# A formal model of mctpwplus

mctpwplus is a C++ library through which an application finds MCTP endpoints,
keeps track of them as they come and go, registers as a responder and exchanges
messages. The MCTP stack itself lives in other processes (`mctpd`, one per
physical medium) that export their endpoints as D-Bus objects. What is hard in
the library is not any one call but keeping a local endpoint map in step with
objects that change behind a message bus, while a discovery coroutine yields
half way through its work and requests use the map. This directory models the
library in TLA+, checks it with TLC and proves with TLAPS what holds for any
number of services, endpoints and calls.

## 1. Inventory

| component | state | operations | where |
|---|---|---|---|
| `DeviceID` | one word | pack, `mctpEID`, `networkId` | `mctp_wrapper.hpp` 36-61 |
| `MCTPConfiguration` | message type, vendor id, vendor message type and mask | constructors, setters, byte order | `mctp_wrapper.hpp` 133-217, `mctp_wrapper.cpp` 37-60 |
| Discovery | locals of a coroutine: services to visit, buses found, eids found; `isInitialisationsDone` | `detectMctpEndpoints(Async)`, `findBusByBindingType`, `addUniqueNameToMatchedServices`, `buildMatchingEndpointMap`, `getBusId` | `mctp_impl.cpp` 57-68, 164-458 |
| Event handlers | `endpointMap`, `matchedBuses`, `networkIDCache`, spawned coroutines, the signal match | `onMCTPEvent`, `onNewInterface`, `onNewService`, `onNewEID`, `onInterfaceRemoved`, `onEIDRemoved`, `onPropertiesChanged`, `onOwnEIDChange` | 741-744, 834-1051, 1106-1183 |
| Responder registration | `responderVersions`; in each service, what it accepted | three `registerResponder` overloads, repeated by a scan and for a new service | 513-625 |
| Own EIDs | `eidChangeCallback` | `getOwnEIDs`, `triggerGetOwnEID`, repeated likewise | 779-832 |
| Receive path | `receiveCallback`, `extReceiveCallback` | `onMessageReceived`, `setExtendedReceiveCallback` | 1053-1104, 1185-1195 |
| Requests and sends | calls under way; they read `endpointMap` | `sendReceiveAsync/Yield/Blocked`, `sendAsync/Yield`, `reserve/releaseBandwidth`, `triggerMCTPDeviceDiscovery`, `getDeviceLocation` | 70-162, 460-511, 627-717, 746-777 |
| `MCTPWrapper` | the static map of `getEndpointMap` | overloads for a bare eid, `getEndpointMap`; the rest forwards | `mctp_wrapper.cpp` 62-251 |
| outside: `mctpd`, object mapper, message bus | objects, properties, names, queued messages | signals, method replies, failures | used throughout |

**How they interact.** Everything of the library runs on the thread of one
`io_context`. A *yielding* call (`yield_method_call`, `async_method_call`) lets
other handlers run until the reply is dispatched; a *blocking* call
(`connection->call`, `readPropertyValue`) does not, and overtakes the signals
that wait in the connection's queue. A signal handler may `spawn` a coroutine,
which runs either before `spawn` returns or from the queue of the `io_context`.

**What is hard.** A scan and the signal handlers write the same map; the scan
yields once for the mapper, once per service for its owner and once per service
for its objects; services start, stop, restart under a new unique name or die
without a word; signals before the end of the first lookup are dropped; an
addition is applied in a coroutine and a removal in the handler; what the
application set once must be repeated for services found later; a request uses
the entry of the moment it is made, and its service may be another or none by
the time it arrives; configuration, property and payload are in different byte
orders. The list with lines is `hazards` in `PROJECT.json`.

**What makes each part correct.** Discovery returns, and afterwards every wanted
endpoint is listed; the handlers keep it so and leave nothing stale; only services
of the configured binding count; the callbacks tell exactly the changes of the map;
each running matched service holds the responder versions set last, and the
application knows its own EID there, unless the call that had to tell failed; the receive callbacks get the messages asked
for and no others; a call to a device that stays is answered by it and every call
comes to an end.

## 2. Modules

    DeviceIds          arithmetic of DeviceID
    MctpConfig         MCTPConfiguration and its filters
    MctpBus            services, mapper, D-Bus        EXTENDS DeviceIds, MctpConfig
    MctpImpl           class MCTPImpl                 EXTENDS MctpBus
    DeviceFeed         what a ReconfigurationCallback promises (abstract)
    MctpImplProps      properties                     EXTENDS MctpImpl, instantiates DeviceFeed
    MctpTransfer       calls that use the map         EXTENDS MctpImplProps
    MCMctpImpl         instances for TLC              EXTENDS MctpImplProps
    MCMctpTransfer     instances for TLC              EXTENDS MctpTransfer, MCMctpImpl
    MessageOrder       order of messages in a queue
    MctpTracking       why the map follows the bus    EXTENDS MctpImplProps, MessageOrder

and the theorems:

    DeviceIdsProofs, MctpConfigProofs                 arithmetic and filters
    MctpImplProofs     types, bindings, responders    EXTENDS MctpImplProps
    MctpFeedProofs     the application's view         EXTENDS MctpImplProofs
    MctpOwnEidProofs   own EIDs                       EXTENDS MctpImplProofs
    MctpScanProofs     bus and scans of MctpTracking  EXTENDS MctpImplProofs, MctpTracking
    MctpTrackProofs    map, callbacks and messages    EXTENDS MctpScanProofs, MctpFeedProofs
    MctpTransferProofs requests                       EXTENDS MctpTransfer, MctpTrackProofs

**MctpConfig** (`mctp_wrapper.hpp`, `mctp_wrapper.cpp` 37-60, the filters of
`mctp_impl.cpp`). A 16-bit word is the set of its bit positions, so that `&` is an
intersection and `htobe16` moves positions; a `std::optional` is a set of at most
one element. `config` is the configuration an application makes of its arguments with
a constructor or with the setters; the latter also give a vendor message type without a
vendor id, for which the scan lists nothing (`mctp_impl.cpp` 427-437). `Admits` is the
filter of `onMessageReceived`, `ListsVendor` the vendor filter of the scan. `AsksFor`
and `AsksForEndpoint` say in the application's own terms, without a byte order, which
messages and which endpoints it asked for; the filters are compared with them.

**MctpBus** (outside the repository, modelled from its use). A service has an
immutable well-known name `<<w, 0>>` and, for its n-th start, the unique name
`<<w, n>>`. Whatever signals it sends carry the unique name, as
`msg.get_sender()` does. `inbox` is the FIFO of the connection, where replies to
yielding calls queue behind signals sent earlier. Blocking calls are evaluated
against the service's present state in the same step, which is exactly how they
overtake the queue. With `CallsMayFail` a call to a live service may fail, yielding or
blocking: each operation that makes blocking calls leaves open which of them are
answered (`Answering`), and a `RegisterResponder` that fails may have had its effect all
the same. `registered[w]` is what the running process knows of the application: the
versions it accepted, and whether a later call that should have told it failed
(`missed`). An endpoint has the properties the scan reads, `VendorID` and
`VendorTypes`, and sends messages that agree with them (`Speaks`). Endpoint ids are unique within a network (the MCTP bus owner
assigns them), so two services export the same id only on different networks.

**MctpImpl** (`mctp_impl.cpp`). One action is one run of the thread to the next
yield:

| action | code |
|---|---|
| `DetectMctpEndpoints(c)` | `detectMctpEndpoints` up to the mapper call |
| `OnServices`, `OnMapperError`, `OnOwner`, `OnObjects`, `OnObjectsError` | the coroutine resumed by a reply, up to its next yield or its return, including what the loop does between two yields (`FindBuses`, `BuildMap`) and the tail after the assignment (`FinishDetect`: `registerResponder`, `getOwnEIDs`) |
| `OnNewService`, `OnNewEID`, `OnEIDRemoved`, `OnServiceRemoved`, `OnOwnEIDChange`, `OnMessageReceived`, `IgnoreEvent` | `onMCTPEvent` for one signal |
| `RunSpawned` | a coroutine of `onNewEID` or `onEIDRemoved` |
| `RegisterResponder`, `RegisterNothing`, `GetOwnEIDs`, `SetExtendedReceiveCallback` | calls of the application |

`Dispatch` takes the oldest message and runs the matching handler. The variables
`known`, `ownReported`, `received` and `regStatus` are the application's: the
devices it counts from the map it read after a scan (as the examples do) and the
callbacks since, the own EID reported last per service name and whether a later read
of it failed (`missed`), what its receive
callbacks got of the message handled last, and the status of its last
`registerResponder`.

Two options follow the build, not the code: `SpawnInline` says whether
`boost::asio::spawn` enters the coroutine at once or queues it; the repository
asks for any Boost from 1.71 on (`meson.build` 16), so both are modelled.
`BigEndian` is the byte order of the CPU.

**MctpTransfer** (`mctp_impl.cpp` and the facade). `transfer[r]` is the state of one
call of the application: `idle`, `sent` (on the bus, addressed to the service name
the map held), `taken` (with the process that owned that name on delivery),
`answered`, `done`. `told` is the timeout the service was told, the duration cut to 16
bits by the three casts (483, 510, 651).

| action | code |
|---|---|
| `SendReceiveAsync`, `SendReceiveYield`, `SendAsync`, `SendYield`, `ReserveBandwidth`, `ReleaseBandwidth`, `TriggerMCTPDeviceDiscovery` | the function up to its call: lookup, early return with an error, the D-Bus call with the eid and the narrowed timeout (all by `Request`) |
| `SendReceiveBlocked`, `GetDeviceLocation` | the whole function: nothing runs in between |
| `Complete` | the callback called, or the coroutine resumed and returned |
| `GetEndpointMap` | `MCTPWrapper::getEndpointMap`, `localEidMap` being its static map |
| `Deliver`, `Serve`, `TimeOut` (external) | the bus, the service and the timeouts |
| `Observed(Next)` | any step of `MctpImpl` |

`Destinations` contains the ids of the overloads for a bare `eid_t`, which mean
network 0. `sure` is a history variable for `RequestAnswered`: the call was made
when nothing was on its way and its device has been wanted ever since. When a
reply is handed on relative to other messages is left open; no completion reads
the library's state.

**MctpTracking** holds the inductive invariants of section 4 that relate the map to
the unread messages; `MessageOrder` has the five things they say of a queue
(`Occurs`, `Closes`, `Followed`, `Preceded`, `Parted`).

**DeviceFeed** is the abstract specification: a list of devices that changes one
device at a time, each change told before the next, or is renewed as a whole by a
scan. `ImplementsFeed` is `Feed!FeedSpec` under the mapping `listed` = the keys of
`endpointMap`, `told` = `known`, `news` = the coroutines not yet run.

Data are abstracted to what is compared: the message types an endpoint supports
become whether it supports the configured one (`Supporting`), a version list a model
value, object paths and interface names the type of a message, a payload its
vendor header. The bus number that accompanies each entry is left out, the code
says it is unused (`mctp_impl.cpp` 203).

**Calm.** Some properties fail when services change at the wrong moment of a
scan; that they do is reported (`scan_overwrites`, `scan_misses`). To check
what holds beyond it, two constants restrict the *services*, never the library:
with `CalmServices` none starts or stops between the mapper's answer and the
return of the scan; with `CalmEndpoints` a service changes its endpoints during
a scan only while the scan's snapshot of it is still to come. Between scans
everything may happen in any order.

## 3. Runs

Deadlock is not checked: an application that makes no call and services that do
nothing are a legitimate end.

| run | property | shows |
|---|---|---|
| `steady_tracking` | `AllAvailable`, `NothingStale`, `ViewAgrees`, `CallbacksAlternate`, `ImplementsFeed`, `MessagesFromKnown` | under calm and inline spawn the map equals the bus when quiet; map, callbacks and view are a `DeviceFeed`; with no scan at work a message is from a device the application knows |
| `hotplug_queued` | `AllAvailable`, `EventuallyTracked` | with queued spawn additions are never lost, and entries come in the end |
| `responders` | `ResponderCoverage` | no calm: stops, crashes, refusals, calls to live services that fail; an I3C binding. A running matched service lacks the versions only if the last call that was to tell it failed |
| `own_eids` | `OwnEidFresh` | no calm: the same for own EIDs and failed reads; a service whose bus id cannot be read |
| `requests` | `RequestAnswered`, `ReceivesAsAsked` | with a vendor configuration, little-endian: a call to a device that stays is answered by it; the callbacks get what was asked for |
| `faults` | `TypeOK`, `TransferTypeOK`, `OnlyBoundServices`, `ScanCompletes`, `RequestCompletes` | everything that may fail, a foreign service, two networks, timeouts beyond 16 bits and below zero; no calm |

and those that show a disagreement between the code and what the repository says
of it:

| run | violated | the code |
|---|---|---|
| `network_id_lost` | `NetworkIdKept` | `getNetworkID` returns 0 the first time it reads the property (856) |
| `scan_overwrites` | `AllAvailable` | the scan's result replaces entries made meanwhile (178) |
| `scan_misses` | `AllAvailable` | a service that starts during the first lookup is never heard (1149) |
| `vendor_hotplug` | `VendorKept` | hot-plugged devices are not filtered by vendor (969) |
| `mapper_status` | `StatusTold` | success although the mapper call failed (198) |
| `eid_map_copy` | `EidMapAgrees` | `getEndpointMap` keeps devices that are gone (`mctp_wrapper.cpp` 186) |

What `steady_tracking` depends on:

* `SpawnInline`. If spawn queues, a removal that is handled before the queued
  coroutine of its addition finds nothing to erase (`mctp_impl.cpp` 980) and
  reports nothing, and the coroutine then makes an entry for a device that is gone
  (914): with `SpawnInline = FALSE` TLC finds `NothingStale`, `ViewAgrees`,
  `CallbacksAlternate` and `ImplementsFeed` violated. That is why `hotplug_queued`
  checks only that additions are not lost.
* `NetworkChangeCallback`. Without one `onNewEID` returns before it makes the entry
  (907): `AllAvailable` fails.
* No crashes. Nothing watches the bus names, so the entries of a service that died
  stay until the next scan: `NothingStale` fails.
* What endpoints list. The scan compares the vendor message type as a whole (413),
  `onMessageReceived` under the mask (1085): if an endpoint lists only a type that is
  equal under the mask, a scan leaves it out and its messages are handed over all the
  same, so `MessagesFromKnown` fails (`ListsWhole` in section 4 excludes this).

Failed calls. A blocking call that fails is logged and not repeated: after a failed
read of a service's EID the application keeps the old one (808-813), and after a failed
registration the service may not have the versions (597-622), until a scan, a call of
the application or, for an EID, a change signal makes good for it. `OwnEidFresh` and `ResponderCoverage` say that this is
the only way to fall behind; both fields `missed` are history variables for them, and
no action of the library reads them.

**Bounds.** Two services are what overlapping answers, one refusing, foreign or
unreadable service, and a device moving from one service to another need. One or
two endpoint ids: one that is wanted and one of another type or vendor; devices do
not interact otherwise. `MaxLives` = 2 (1 in `faults`) allows one restart under a
new name. `MaxInbox` = 1, 2 or 3 bounds unread *signals*: services pause when the
queue is that long; replies are always delivered. `MaxSpawned` pauses endpoint
changes while that many coroutines wait. Two callers overlap two scans; each
caller makes one scan. The two own EIDs of `own_eids` and the two version lists of
`responders` are only compared for equality, and so symmetric. One requester: calls do
not read each other's state, and each may be any operation at any moment. In `faults`
the timeouts are 300, 65536 and -1 ms, told as 300, 0 and 65535; elsewhere 300. `Spoken`
has a header asked for that differs from the configured one only outside the mask, and
one each that differs in the type, in the vendor and in a bit of the mask.

**Fairness.** Weak fairness of `Dispatch` and `RunSpawned`: the `io_context` thread
runs whatever handler is ready. Weak fairness of `Answers(c)` for every
coroutine, and of `Carry(r)` for every call: D-Bus ends each method call with a
reply, an error or the 25 s timeout. Strong fairness of `Complete(r)`: a reply in
the queue is dispatched after finitely many others, but is not enabled between a
handler and the coroutine it spawned, however often that happens. No fairness is
assumed of services or of the application, so `EventuallyTracked` allows the
endpoint to disappear instead.

## 4. Proofs

For arbitrary sets of services, endpoints, callers, requesters, headers and
versions and all options, from the named assumptions on the constants only
(`ConfigAssumption`, `BusAssumption`, `ImplAssumption`, `TransferAssumption`; the first
admits every configuration the setters can make, the last every integer as a timeout):

* `TypeCorrect`: `[]TypeOK`. Inductive with `ScanShape`: a coroutine that
  waits for an owner or for objects has a bus in `buses`; without it
  `Head(buses)` in `OnObjects` need not be a service.
* `OnlyBound`: `[]OnlyBoundServices`. The inductive invariant `BoundInv`
  adds what travels: mapper answers and owner replies in the inbox, calls under
  way, the locals of each scan. Signals need no condition: an endpoint is heard
  only from a matched sender, and a base object matched only for its interface.
* `RespondersCovered`: `[]ResponderCoverage`. Inductive with `LifeInv`:
  every unique name that is matched, or in a message, is that of a start that
  has happened. That is why a service that comes back is not covered by mistake
  under an old entry: its new name cannot be matched before its own signal, or
  the scan's owner reply, is handled, and both lead to a registration, which either
  is answered or sets `missed`.
* `OwnEidsFresh`: `[]OwnEidFresh`. `OwnInv` is `LifeInv` and four parts: whoever is
  matched, scanned for or has an unread signal is watched (`WatchInv`); signals of
  matched services are dropped only while the first scan is still going to read
  the properties (`DropInv`); the last unread signal of a running process carries
  its present EID, because signals of one sender keep their order (`NewestInv`);
  without one the last report is it, or a read failed since (`ReportedInv`). The second and third are why
  a blocking read that overtakes older signals, or a signal dropped during the
  first scan, does no lasting harm.
* `FeedImplemented` and `ViewFollowsMap`: `ImplementsFeed` and `[]ViewAgrees`,
  assuming `SpawnInline` and `NetworkChangeCallback` (section 3 says why both are
  needed). `FeedInv`: at most one coroutine waits, and map and view differ by its
  device at most. Every step is then an `Announce`, `Withdraw`, `Tell` or `Renew` of
  `DeviceFeed`, or a stutter.
* `FilterExact`: `Admits(header) <=> AsksFor(header)` for all 16-bit words and
  both byte orders, because `htobe16` is an involution that commutes with
  intersection; `ReceivedAsAsked` carries it to `ReceivesAsAsked`.
  `ScanFilterExact`: `ListsVendor(v, t) <=> AsksForEndpoint(v, t)` for every
  configuration, also those only the setters make. The scan of `MctpImpl` filters with
  `ListsVendor`, and `AllListed` needs the theorem to say that what a scan leaves
  out was not asked for.
* `TransferTypes`: calls under way, their answers and the copied map stay well typed;
  what is told of a duration is a 16-bit word, whatever its size and sign.
  `TransferRefines`: `TransferSpec => Init /\ [][Next]_vars`, so requests do not
  disturb what is proved of `MctpImpl`.
* `DeviceIdsDiffer`: a DeviceID determines eid and network id.

**Tracking.** Five theorems say that the map follows the bus. They assume `Steady`
(`MctpTracking`): the two calms, calls to a live peer that do not fail (blocking ones
included, since a failed read of a bus id makes the scan skip the service), every
service of the binding readable when its bus id is read, and no service with a
`NetworkID`. `steady_tracking`, `hotplug_queued` and `requests` satisfy it. None of
its parts is spare: give up one of the five in `steady_tracking` and TLC finds
`AllAvailable` violated (for the network ids that is the disagreement
`network_id_lost` reports, for the calms `scan_overwrites` and `scan_misses`).

| theorem | property | besides `Steady` |
|---|---|---|
| `AllListed` | `[]AllAvailable` | a ReconfigurationCallback; either spawn mode, services may crash |
| `NothingLeftOver` | `[]NothingStale` | inline spawn, no crash |
| `CallbacksTellChanges` | `CallbacksAlternate` | inline spawn, a ReconfigurationCallback, no crash |
| `MessagesAreFromKnown` | `MessagesFromKnown` | inline spawn, a ReconfigurationCallback, `ListsWhole`; services may crash |
| `SureRequestsAnswered` | `[]RequestAnswered` | inline spawn, a ReconfigurationCallback, no crash |

The reasons for these further assumptions are those of section 3; without one of
them TLC refutes the property in a run's configuration (`RequestAnswered` with
queued spawn needs two coroutines and two signals to fail), except that
`CallbacksAlternate` has nothing to say where there is no callback. The argument,
from the bus to the application:

* `BusInv`: the bus is ordered. Between a service's first and last signal lie its
  others (`SessionInv`); an endpoint that is there was added after whatever removal
  of it is unread, even by another service, and one that spoke and is gone was
  removed since (`PresenceInv`).
* `ScanInv`: a scan is never misled. It has one call out or one reply in, and that
  reply is what the bus would say now (`CallOK`). Once the mapper has answered, nothing
  unread contradicts it (`ServicesOK`, `OwnerOK`); once a service's objects are
  read, nothing unread contradicts them, and what has been found is what is there
  (`ObjectsOK`). So the assignment that replaces the map (178) loses nothing and
  brings nothing back. This must hold for all scans at once: a second scan may
  start, and finish, within the first.
* `CompleteInv`: an endpoint asked for is listed, about to be listed by a waiting
  coroutine, or its addition is unread from a sender that will be heard. A removal
  cannot undo that, because `PresenceInv` puts the addition after it. With nothing on
  its way only the first is left, which is `AllAvailable`.
* `FifoInv` and `BackedInv`: an entry names a service that has the endpoint, or its
  removal is unread from a matched sender; and that removal comes before any unread
  addition of the same endpoint. So an addition never meets an old entry
  (`CallbacksAlternate`), and with nothing on its way an entry is right
  (`NothingStale`). A crash sends no removal, hence the assumption.
* `SpokenInv`: before a message of an endpoint is read, its addition has been, and
  no removal in between that was not followed by another addition. With `FeedInv`,
  the application was told of it (`MessagesFromKnown`).
* `SureInv`: a request made when nothing was on its way took from the map a name
  that reaches the service of a wanted endpoint (by the two theorems above), and
  as long as the endpoint stays wanted that service neither stops nor restarts, so the name
  reaches it on delivery.

These invariants were checked with TLC on the constants of `steady_tracking` (with
queued spawn and with crashes where they are to hold) and `requests` before they
were proved.

Only model-checked: the liveness properties `EventuallyTracked`, `ScanCompletes` and
`RequestCompletes`, which need fairness and ENABLED and are out of the prover's
reach, and the disagreements of section 3, which are counterexamples.

## 5. Not modelled

* `addToEidMap`: nothing calls it and the facade does not offer it.
* Malformed signals, paths or property types, whose exceptions leave
  `onNewInterface` and end in sdbusplus; vdpci messages shorter than their header.
* A vdpci responder without a configured vendor message type (584-585
  dereference empty optionals): a precondition of the call.
* Several `MCTPWrapper` objects in one process, which would share the static map,
  and the destruction of one while coroutines that captured it wait.
* Message tags, payload bytes, version fields, log messages, the examples' command
  lines and output.

## 6. Plan

What would come next, in this order: the tracking theorems under weaker
assumptions than `Steady` (network ids that the cache already holds, scans whose
calls fail and leave what they did not read); what a scan after a crash repairs; two wrappers over
one static map; exceptions that leave a handler.
