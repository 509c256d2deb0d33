\* Services start, stop, crash and change their own EID.  The bus property of
\* one cannot be read, so scans skip it and signals do not.
SPECIFICATION Spec
CONSTANTS
  w1 = w1
  w2 = w2
  none = none
  pldm = pldm
  vdpci = vdpci
  Services = {w1, w2}
  Bound = {w1, w2}
  BadBusPath = {w2}
  Refusing = {}
  NetworkID <- NoNetworks
  NoNetwork = none
  Eids = {}
  Supporting <- AllButOne
  VendorID <- AllButOneIntel
  VendorTypes <- CommandSets
  Headers = {}
  OwnEids = {own1, own2}
  Versions = {}
  NoVersion = none
  Callers = {1}
  MaxLives = 2
  MaxInbox = 2
  CallsMayFail = TRUE
  MessageTypes = {pldm, vdpci}
  BigEndian = FALSE
  MsgType = pldm
  Vid = {}
  VdmType = {}
  VdmMask = {}
  NoService = none
  NetworkChangeCallback = TRUE
  ReceiveCallback = FALSE
  SetsExtReceive = FALSE
  ReadsBusId = TRUE
  GetsOwnEIDs = TRUE
  SpawnInline = TRUE
  MaxSpawned = 1
  Crashes = TRUE
  CalmServices = FALSE
  CalmEndpoints = FALSE
SYMMETRY OwnEidSymmetry
INVARIANTS
  OwnEidFresh
CHECK_DEADLOCK FALSE
