\* Services start, stop and crash while an application registers; one refuses.
\* The binding is I3C: no bus property is read.  An extended receive callback may be set.
SPECIFICATION Spec
CONSTANTS
  w1 = w1
  w2 = w2
  none = none
  pldm = pldm
  vdpci = vdpci
  v1 = v1
  v2 = v2
  Services = {w1, w2}
  Bound = {w1, w2}
  BadBusPath = {}
  Refusing = {w2}
  NetworkID <- NoNetworks
  NoNetwork = none
  Eids = {}
  Supporting <- AllButOne
  VendorID <- AllButOneIntel
  VendorTypes <- CommandSets
  Headers = {}
  OwnEids = {1}
  Versions = {v1, v2}
  NoVersion = none
  Callers = {1}
  MaxLives = 2
  MaxInbox = 3
  CallsMayFail = TRUE
  MessageTypes = {pldm, vdpci}
  BigEndian = FALSE
  MsgType = pldm
  Vid = {}
  VdmType = {}
  VdmMask = {}
  NoService = none
  NetworkChangeCallback = TRUE
  ReceiveCallback = FALSE
  SetsExtReceive = TRUE
  ReadsBusId = FALSE
  GetsOwnEIDs = FALSE
  SpawnInline = TRUE
  MaxSpawned = 1
  Crashes = TRUE
  CalmServices = FALSE
  CalmEndpoints = FALSE
SYMMETRY VersionSymmetry
INVARIANTS
  ResponderCoverage
CHECK_DEADLOCK FALSE
