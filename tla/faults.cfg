\* Everything that may go wrong at once: calls fail, services crash, one is not
\* ours, timeouts do not fit 16 bits, and the vendor is read of each endpoint.
SPECIFICATION TransferSpec
CONSTANTS
  w1 = w1
  w2 = w2
  none = none
  pldm = pldm
  vdpci = vdpci
  Services = {w1, w2}
  Bound = {w1}
  BadBusPath = {}
  Refusing = {}
  NetworkID <- Networked
  NoNetwork = none
  Eids = {8}
  Supporting <- AllButOne
  VendorID <- AllButOneIntel
  VendorTypes <- CommandSets
  Headers = {}
  OwnEids = {1}
  Versions = {}
  NoVersion = none
  Callers = {1}
  MaxLives = 1
  MaxInbox = 1
  CallsMayFail = TRUE
  MessageTypes = {pldm, vdpci}
  BigEndian = FALSE
  MsgType = vdpci
  Vid <- IntelOnly
  VdmType <- CommandSetOnly
  VdmMask <- CommandMask
  NoService = none
  NetworkChangeCallback = TRUE
  ReceiveCallback = FALSE
  SetsExtReceive = FALSE
  ReadsBusId = TRUE
  GetsOwnEIDs = FALSE
  SpawnInline = TRUE
  MaxSpawned = 1
  Crashes = TRUE
  CalmServices = FALSE
  CalmEndpoints = FALSE
  Requesters = {1}
  Timeouts <- Durations
  ReadsEidMap = FALSE
INVARIANTS
  TypeOK
  TransferTypeOK
  OnlyBoundServices
PROPERTIES
  ScanCompletes
  RequestCompletes
CHECK_DEADLOCK FALSE
