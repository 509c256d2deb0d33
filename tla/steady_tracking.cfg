\* Services that hold still while a scan reads them; spawned coroutines run at
\* once.  Two scans may overlap; endpoints send messages.
SPECIFICATION Spec
CONSTANTS
  w1 = w1
  w2 = w2
  none = none
  pldm = pldm
  vdpci = vdpci
  Services = {w1, w2}
  Bound = {w1, w2}
  BadBusPath = {}
  Refusing = {}
  NetworkID <- NoNetworks
  NoNetwork = none
  Eids = {8, 10}
  Supporting <- AllButOne
  VendorID <- AllButOneIntel
  VendorTypes <- CommandSets
  Headers <- Chatter
  OwnEids = {1}
  Versions = {}
  NoVersion = none
  Callers = {1, 2}
  MaxLives = 2
  MaxInbox = 2
  CallsMayFail = FALSE
  MessageTypes = {pldm, vdpci}
  BigEndian = FALSE
  MsgType = pldm
  Vid = {}
  VdmType = {}
  VdmMask = {}
  NoService = none
  NetworkChangeCallback = TRUE
  ReceiveCallback = TRUE
  SetsExtReceive = FALSE
  ReadsBusId = TRUE
  GetsOwnEIDs = FALSE
  SpawnInline = TRUE
  MaxSpawned = 1
  Crashes = FALSE
  CalmServices = TRUE
  CalmEndpoints = TRUE
INVARIANTS
  AllAvailable
  NothingStale
  ViewAgrees
PROPERTIES
  CallbacksAlternate
  ImplementsFeed
  MessagesFromKnown
CHECK_DEADLOCK FALSE
