\* The mapper may fail to answer.
SPECIFICATION Spec
CONSTANTS
  w1 = w1
  w2 = w2
  none = none
  pldm = pldm
  vdpci = vdpci
  Services = {w1, w2}
  Bound = {w1, w2}
  BadBusPath = {}
  Refusing = {}
  NetworkID <- NoNetworks
  NoNetwork = none
  Eids = {8}
  Supporting <- AllButOne
  VendorID <- AllButOneIntel
  VendorTypes <- CommandSets
  Headers = {}
  OwnEids = {1}
  Versions = {}
  NoVersion = none
  Callers = {1}
  MaxLives = 2
  MaxInbox = 2
  CallsMayFail = TRUE
  MessageTypes = {pldm, vdpci}
  BigEndian = FALSE
  MsgType = pldm
  Vid = {}
  VdmType = {}
  VdmMask = {}
  NoService = none
  NetworkChangeCallback = TRUE
  ReceiveCallback = FALSE
  SetsExtReceive = FALSE
  ReadsBusId = TRUE
  GetsOwnEIDs = FALSE
  SpawnInline = TRUE
  MaxSpawned = 1
  Crashes = FALSE
  CalmServices = FALSE
  CalmEndpoints = FALSE
INVARIANTS
  StatusTold
CHECK_DEADLOCK FALSE
