----------------------------- MODULE MctpConfig -----------------------------
(***************************************************************************)
(* struct MCTPConfiguration and the two filters that read it: the one a    *)
(* scan applies to an endpoint object and the one onMessageReceived applies *)
(* to a message.  A 16-bit word is the set of its bit positions, so that & *)
(* is \cap and a change of byte order moves positions.  A std::optional is *)
(* a set of at most one element.                                           *)
(*                                                                         *)
(* Values of the configuration are kept big-endian, arguments and D-Bus    *)
(* properties are in CPU order, headers lie in memory as they came.        *)
(***************************************************************************)
EXTENDS Integers

CONSTANTS
  MessageTypes,  \* enum MessageType
  vdpci,         \* the vendor-defined PCI one
  BigEndian,     \* is the CPU big-endian?
  MsgType,       \* what the application asks for: the message type,
  Vid,           \* the vendor id, if any,
  VdmType,       \* the vendor-defined message type, if any,
  VdmMask        \* and the bits of it that count

Bits == 0 .. 15
Word == SUBSET Bits

\* The constructors allow fewer configurations than the setters, which take a
\* vendor id with any type and a message type without a vendor id.
ASSUME ConfigAssumption ==
  /\ vdpci \in MessageTypes /\ MsgType \in MessageTypes
  /\ BigEndian \in BOOLEAN
  /\ Vid \subseteq Word /\ \A x, y \in Vid : x = y
  /\ VdmType \subseteq Word /\ \A x, y \in VdmType : x = y
  /\ VdmMask \in Word

-----------------------------------------------------------------------------
\* Its bytes exchanged, unless the CPU has network order.
htobe16(x) == IF BigEndian THEN x ELSE {b \in Bits : (b + 8) % 16 \in x}
be16toh(x) == htobe16(x)

setVendorId(vid) == {htobe16(x) : x \in vid}

\* Mutant: the mask is stored as it is given.
MaskUnconverted(msgType, mask) ==
  {[value |-> htobe16(x), mask |-> mask] : x \in msgType}
setVendorMessageType(msgType, mask) ==
  {[value |-> htobe16(x), mask |-> htobe16(mask)] : x \in msgType}

MCTPConfiguration(msgType, vid, vendorMsgType, vendorMsgTypeMask) ==
  [type |-> msgType,
   vendorId |-> setVendorId(vid),
   vendorMessageType |-> setVendorMessageType(vendorMsgType, vendorMsgTypeMask)]

\* What an application makes of its arguments, by a constructor or by setters.
config == MCTPConfiguration(MsgType, Vid, VdmType, VdmMask)

\* The bits of the message type that count, as a service is told them.
cmdSetType(vmt) == vmt.value \cap vmt.mask

-----------------------------------------------------------------------------
\* A message's type and, for vdpci, its vendor header as the sender means it.
Header == [type : MessageTypes, vendorId : Word, vendorMessageId : Word]

\* A header field read from the payload as a uint16_t: its bytes lie there in
\* network order.
InMemory(x) == htobe16(x)

\* The filter of onMessageReceived.
Admits(header) ==
  /\ header.type = config.type
  /\ header.type = vdpci =>
       \E vid \in config.vendorId, vmt \in config.vendorMessageType :
         /\ InMemory(header.vendorId) = vid
         /\ InMemory(header.vendorMessageId) \cap vmt.mask = cmdSetType(vmt)

\* The vendor filter of buildMatchingEndpointMap, for an endpoint object with
\* these properties: its message types are compared without the mask.
ListsVendor(vendorId, messageTypes) ==
  config.type = vdpci =>
    /\ \A vid \in config.vendorId : vendorId = be16toh(vid)
    /\ \A vmt \in config.vendorMessageType :
         config.vendorId # {} /\ be16toh(vmt.value) \in messageTypes

-----------------------------------------------------------------------------
\* What the application asked for, in its own terms: for vdpci, endpoints of the
\* vendor, if it named one, that list the message type, if it named one; a
\* message type without a vendor asks for none.
AsksForEndpoint(vendorId, messageTypes) ==
  MsgType = vdpci =>
    /\ Vid # {} => vendorId \in Vid
    /\ VdmType # {} => Vid # {} /\ VdmType \cap messageTypes # {}

\* And messages of the type and, for vdpci, of the vendor and with the message
\* type in the bits of the mask.
AsksFor(header) ==
  /\ header.type = MsgType
  /\ MsgType = vdpci =>
       /\ header.vendorId \in Vid
       /\ \E x \in VdmType : header.vendorMessageId \cap VdmMask = x \cap VdmMask

=============================================================================
