---------------------------- MODULE MctpTracking -----------------------------
(***************************************************************************)
(* Why the endpoint map follows the bus: what holds of the map, the scans  *)
(* and the unread messages in every state, stated so that each step of     *)
(* MctpImpl preserves it.                                                  *)
(*                                                                         *)
(* The map lags behind the bus, and the unread messages are the lag: an    *)
(* endpoint without an entry has its signal on its way, and so has an      *)
(* entry without its endpoint.                                             *)
(***************************************************************************)
EXTENDS MctpImplProps, MessageOrder

\* The services hold still while a scan reads them, calls to a live peer do not
\* fail, every service of the binding can be read and none has a NetworkID.
Steady ==
  /\ CalmServices /\ CalmEndpoints /\ ~CallsMayFail
  /\ ReadsBusId => Bound \cap BadBusPath = {}
  /\ \A w \in Services : NetworkID[w] = NoNetwork

\* An endpoint that lists a vendor message type equal to the configured one under
\* the mask lists that one as well: the scan compares without the mask.
ListsWhole ==
  \A e \in Eids : \A id \in VendorTypes[e] : \A x \in VdmType :
    id \cap VdmMask = x \cap VdmMask => x \in VendorTypes[e]

-----------------------------------------------------------------------------
(* Messages by kind, from senders N about endpoints E. *)

Came(N) == [type : {"serviceAdded"}, from : N]
Left(N) == [type : {"serviceRemoved"}, from : N]
Added(N, E) == [type : {"endpointAdded"}, from : N, eid : E]
Removed(N, E) == [type : {"endpointRemoved"}, from : N, eid : E]
Sent(N, E) == [type : {"message"}, from : N, eid : E, header : Headers]

Changes(N) == Added(N, Eids) \cup Removed(N, Eids)
About(N) == Changes(N) \cup Sent(N, Eids)

To(c) == {m \in Reply : m.to = c}

NamesOf(W) == {n \in Name : n[1] \in W}

\* The services of the binding that run, and their unique names.
Active == {w \in Bound : up[w]}
Current == {Unique(w) : w \in Active}

\* The endpoints asked for.
Fits(e) == e \in Supporting /\ AsksForEndpoint(VendorID[e], VendorTypes[e])

-----------------------------------------------------------------------------
(* The bus. *)

\* A service that is down exports nothing; an endpoint id is used once.
EndpointInv ==
  /\ \A w \in Services : ~up[w] => eps[w] = {}
  /\ \A w, x \in Services : eps[w] \cap eps[x] # {} => w = x

\* A service's first signal says it came and its last one that it left; the
\* one that runs has not left.
SessionInv ==
  /\ \A n \in Name : Closes(inbox, About({n}), Came({n}))
  /\ \A n \in Name : Closes(inbox, Left({n}), About({n}))
  /\ \A w \in Services : up[w] => ~Occurs(inbox, Left({Unique(w)}))

\* An endpoint that is there was added after any removal; one that spoke and is
\* not there any more was removed since.
PresenceInv ==
  /\ \A w \in Services : \A e \in eps[w] :
       Followed(inbox, Removed(Name, {e}), Added({Unique(w)}, {e}))
  /\ \A w \in Services : \A e \in Eids \ eps[w] :
       up[w] => Followed(inbox, Sent({Unique(w)}, {e}), Removed({Unique(w)}, {e}))

\* Endpoints send what they may.
SpeechInv ==
  \A i \in DOMAIN inbox :
    inbox[i].type = "message" => Speaks(inbox[i].eid, inbox[i].header)

BusInv == EndpointInv /\ SessionInv /\ PresenceInv /\ SpeechInv

\* If no service dies, an endpoint is removed before it is added again, and if
\* it is not there now.
FifoInv ==
  /\ \A n \in Name, e \in Eids :
       ~(up[n[1]] /\ n = Unique(n[1]) /\ e \in eps[n[1]])
         => Followed(inbox, Added({n}, {e}), Removed({n}, {e}))
  /\ \A n \in Name, e \in Eids :
       Parted(inbox, Added({n}, {e}), Added(Name, {e}), Removed({n}, {e}))

\* Nothing is watched, handled or known before the first scan.
FirstInv ==
  /\ ~watching => inbox = <<>> /\ \A c \in Callers : scan[c].pc = "idle"
  /\ ~isInitialisationsDone => Entries(endpointMap) = {} /\ spawned = <<>>
  /\ isInitialisationsDone <=> \E c \in Callers : scan[c].pc \in {"objects", "done"}
  /\ networkIDCache = [n \in Name |-> NoNetwork]

-----------------------------------------------------------------------------
(* The scans. *)

\* The answer that the bus gives scan c in its present state.
Expected(c) ==
  IF scan[c].pc = "services"
  THEN IF Active = {} THEN {[type |-> "error", to |-> c]}
       ELSE {[type |-> "services", to |-> c, services |-> Active]}
  ELSE IF scan[c].pc = "owner"
  THEN {[type |-> "owner", to |-> c,
         owner |-> Unique(scan[c].buses[Len(scan[c].buses)])]}
  ELSE IF scan[c].pc = "objects"
  THEN {[type |-> "objects", to |-> c, eids |-> eps[Head(scan[c].buses)]]}
  ELSE {}

\* The call scan c waits for.
Awaited(c) ==
  IF scan[c].pc = "services" THEN {[caller |-> c, method |-> "GetObject"]}
  ELSE IF scan[c].pc = "owner"
  THEN {[caller |-> c, method |-> "GetNameOwner",
         service |-> scan[c].buses[Len(scan[c].buses)]]}
  ELSE IF scan[c].pc = "objects"
  THEN {[caller |-> c, method |-> "GetManagedObjects",
         service |-> Head(scan[c].buses), life |-> life[Head(scan[c].buses)]]}
  ELSE {}

\* A scan has one call out or one reply in, the right one.
CallOK(c) ==
  /\ \A call \in calls : call.caller = c => call \in Awaited(c)
  /\ ~Occurs(inbox, To(c) \ Expected(c))
  /\ Closes(inbox, To(c), To(c))
  /\ (\E call \in calls : call.caller = c) => ~Occurs(inbox, To(c))

\* Signals that are over once the mapper has answered: of services that come
\* and go, or of an earlier life.
Outdated ==
  Came(NamesOf(Bound)) \cup Left(NamesOf(Bound)) \cup About(NamesOf(Bound) \ Current)

Visits(c) == {scan[c].buses[i] : i \in DOMAIN scan[c].buses}

\* No service is visited twice.
VisitsOnce(c) ==
  \A i, j \in DOMAIN scan[c].buses : scan[c].buses[i] = scan[c].buses[j] => i = j

\* The mapper's answer comes after what it does not reflect.
ServicesOK(c) ==
  scan[c].pc = "services" => Closes(inbox, To(c), Outdated)

\* Every running service has been visited or will be; those visited are matched.
OwnerOK(c) ==
  scan[c].pc = "owner" =>
    /\ ~Occurs(inbox, Outdated)
    /\ scan[c].todo \cup Visits(c) = Active
    /\ scan[c].todo \cap Visits(c) = {}
    /\ \A i \in DOMAIN scan[c].buses :
         i # Len(scan[c].buses) => Unique(scan[c].buses[i]) \in matchedBuses

\* The map has the endpoints asked for of the services W, and no others.
MapOf(map, W) ==
  /\ \A w \in W : \A e \in eps[w] : Fits(e) => map[DeviceID(e, 0)] # NoService
  /\ \A e \in Eids : map[DeviceID(e, 0)] # NoService =>
       \E w \in W : e \in eps[w] /\ map[DeviceID(e, 0)] = WellKnown(w)

\* All services are matched; of those that have been read no signal is left that
\* says otherwise, and none will come after the reply that is on its way.
ObjectsOK(c) ==
  scan[c].pc = "objects" =>
    /\ ~Occurs(inbox, Outdated)
    /\ Current \subseteq matchedBuses
    /\ Visits(c) \subseteq Active
    /\ ~Occurs(inbox, Changes(NamesOf(Bound \ Visits(c))))
    /\ Closes(inbox, To(c), Changes(NamesOf({Head(scan[c].buses)})))
    /\ MapOf(scan[c].found, Active \ Visits(c))

ScanInv ==
  \A c \in Callers :
    CallOK(c) /\ VisitsOnce(c) /\ ServicesOK(c) /\ OwnerOK(c) /\ ObjectsOK(c)

-----------------------------------------------------------------------------
(* The map. *)

Discovered == \E c \in Callers : scan[c].pc = "done"

\* Device d has an entry or a coroutine is going to make it.
Listed(d) ==
  \/ endpointMap[d] # NoService
  \/ \E i \in DOMAIN spawned :
       spawned[i].type = "deviceAdded" /\ spawned[i].deviceId = d

\* Signals of n are heard, or will be when they are read.
Hearable(n) == n \in matchedBuses \/ Occurs(inbox, Came({n}))

\* Every service that runs is heard, every endpoint asked for that is there is
\* listed or will be.
CompleteInv ==
  Discovered =>
    /\ \A n \in Current : Hearable(n)
    /\ \A w \in Active : \A e \in eps[w] :
         Fits(e) => \/ Listed(DeviceID(e, 0))
                    \/ Occurs(inbox, Added({Unique(w)}, {e}))

\* Name n reaches a service that exports endpoint e and is matched.
Live(e, n) == Reachable(n) /\ e \in eps[n[1]] /\ Unique(n[1]) \in matchedBuses

\* The entry n of endpoint e is right, or is going to be erased; in any case
\* before the endpoint is added again.
Backed(e, n) ==
  /\ Live(e, n) \/ Occurs(inbox, Removed(matchedBuses, {e}))
  /\ Preceded(inbox, Added(NamesOf(Bound), {e}), Removed(matchedBuses, {e}))

\* Every entry is backed; so is the one that a coroutine, the only one, is going
\* to make, which is new.
BackedInv ==
  /\ \A e \in Eids :
       endpointMap[DeviceID(e, 0)] # NoService => Backed(e, endpointMap[DeviceID(e, 0)])
  /\ spawned # <<>> => Tail(spawned) = <<>>
  /\ \A e \in Eids :
       spawned # <<>> /\ Head(spawned).type = "deviceAdded"
           /\ Head(spawned).deviceId = DeviceID(e, 0)
         => Backed(e, Head(spawned).service) /\ endpointMap[DeviceID(e, 0)] = NoService

\* By the time a message of endpoint e of n is read, the endpoint is listed.
Introduced(e, n) ==
  /\ Parted(inbox, Removed(NamesOf(Bound), {e}), Sent({n}, {e}), Added({n}, {e}))
  /\ Listed(DeviceID(e, 0)) \/ Preceded(inbox, Sent({n}, {e}), Added({n}, {e}))

\* That holds of all that is heard or will be.
SpokenInv ==
  Discovered =>
    \A n \in NamesOf(Bound) : Hearable(n) => \A e \in Eids : Fits(e) => Introduced(e, n)

=============================================================================
