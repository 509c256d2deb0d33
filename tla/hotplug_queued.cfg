\* Quiet services, in a build where spawned coroutines are queued.
SPECIFICATION Spec
CONSTANTS
  w1 = w1
  w2 = w2
  none = none
  pldm = pldm
  vdpci = vdpci
  Services = {w1, w2}
  Bound = {w1, w2}
  BadBusPath = {}
  Refusing = {}
  NetworkID <- NoNetworks
  NoNetwork = none
  Eids = {8}
  Supporting <- AllButOne
  VendorID <- AllButOneIntel
  VendorTypes <- CommandSets
  Headers = {}
  OwnEids = {1}
  Versions = {}
  NoVersion = none
  Callers = {1, 2}
  MaxLives = 2
  MaxInbox = 2
  CallsMayFail = FALSE
  MessageTypes = {pldm, vdpci}
  BigEndian = FALSE
  MsgType = pldm
  Vid = {}
  VdmType = {}
  VdmMask = {}
  NoService = none
  NetworkChangeCallback = TRUE
  ReceiveCallback = FALSE
  SetsExtReceive = FALSE
  ReadsBusId = TRUE
  GetsOwnEIDs = FALSE
  SpawnInline = FALSE
  MaxSpawned = 2
  Crashes = FALSE
  CalmServices = TRUE
  CalmEndpoints = TRUE
INVARIANTS
  AllAvailable
PROPERTIES
  EventuallyTracked
CHECK_DEADLOCK FALSE
