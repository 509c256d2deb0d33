\* Requests and sends to devices of one vendor while services come and go,
\* and every kind of message of their own accord.
SPECIFICATION TransferSpec
CONSTANTS
  w1 = w1
  w2 = w2
  none = none
  pldm = pldm
  vdpci = vdpci
  Services = {w1, w2}
  Bound = {w1, w2}
  BadBusPath = {}
  Refusing = {}
  NetworkID <- NoNetworks
  NoNetwork = none
  Eids = {8}
  Supporting <- AllButOne
  VendorID <- AllButOneIntel
  VendorTypes <- CommandSets
  Headers <- Spoken
  OwnEids = {1}
  Versions = {}
  NoVersion = none
  Callers = {1}
  MaxLives = 2
  MaxInbox = 1
  CallsMayFail = FALSE
  MessageTypes = {pldm, vdpci}
  BigEndian = FALSE
  MsgType = vdpci
  Vid <- IntelOnly
  VdmType <- CommandSetOnly
  VdmMask <- CommandMask
  NoService = none
  NetworkChangeCallback = TRUE
  ReceiveCallback = FALSE
  SetsExtReceive = TRUE
  ReadsBusId = TRUE
  GetsOwnEIDs = FALSE
  SpawnInline = TRUE
  MaxSpawned = 1
  Crashes = FALSE
  CalmServices = TRUE
  CalmEndpoints = TRUE
  Requesters = {1}
  Timeouts = {300}
  ReadsEidMap = TRUE
INVARIANTS
  RequestAnswered
PROPERTIES
  ReceivesAsAsked
CHECK_DEADLOCK FALSE
