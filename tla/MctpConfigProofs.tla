-------------------------- MODULE MctpConfigProofs --------------------------
(***************************************************************************)
(* Proofs about MCTPConfiguration and its filters, for every configuration *)
(* and either byte order of the CPU.                                       *)
(***************************************************************************)
EXTENDS MctpConfig, TLAPS

\* Exchanging the bytes moves every bit to another one, and back.
LEMMA SwappedBit ==
  ASSUME NEW b \in Bits
  PROVE  (b + 8) % 16 \in Bits /\ (((b + 8) % 16) + 8) % 16 = b
<1>1. CASE b < 8
  <2>1. (b + 8) % 16 = b + 8
    BY <1>1 DEF Bits
  <2>2. (b + 8 + 8) % 16 = b
    BY <1>1 DEF Bits
  <2> QED
    BY <1>1, <2>1, <2>2 DEF Bits
<1>2. CASE b >= 8
  <2>1. (b + 8) % 16 = b - 8
    BY <1>2 DEF Bits
  <2>2. (b - 8 + 8) % 16 = b
    BY <1>2 DEF Bits
  <2> QED
    BY <1>2, <2>1, <2>2 DEF Bits
<1> QED
  BY <1>1, <1>2 DEF Bits

\* htobe16 and be16toh turn words into words, and each undoes the other.
LEMMA RoundTrip ==
  ASSUME NEW x \in Word
  PROVE  htobe16(x) \in Word /\ be16toh(htobe16(x)) = x
<1>1. CASE BigEndian
  BY <1>1 DEF htobe16, be16toh
<1>2. CASE ~BigEndian
  <2> DEFINE y == {b \in Bits : (b + 8) % 16 \in x}
  <2>1. htobe16(x) = y /\ htobe16(y) = {b \in Bits : (b + 8) % 16 \in y}
    BY <1>2 DEF htobe16
  <2>2. \A b \in Bits : (b + 8) % 16 \in y <=> b \in x
    BY SwappedBit
  <2>3. htobe16(y) = x
    BY <2>1, <2>2 DEF Word
  <2> QED
    BY <2>1, <2>3 DEF be16toh, Word
<1> QED
  BY <1>1, <1>2

\* Words that differ still differ in the other byte order.
LEMMA Injective ==
  ASSUME NEW x \in Word, NEW y \in Word
  PROVE  htobe16(x) = htobe16(y) <=> x = y
BY RoundTrip

\* Masking commutes with the byte order.
LEMMA MaskSwapped ==
  ASSUME NEW x \in Word, NEW mask \in Word
  PROVE  /\ x \cap mask \in Word
         /\ htobe16(x) \cap htobe16(mask) = htobe16(x \cap mask)
BY DEF htobe16, Word

\* The fields of the configuration, as the constructors leave them.
LEMMA ConfigFields ==
  /\ config.type = MsgType
  /\ config.vendorId = {htobe16(x) : x \in Vid}
  /\ config.vendorMessageType =
       {[value |-> htobe16(x), mask |-> htobe16(VdmMask)] : x \in VdmType}
BY DEF config, MCTPConfiguration, setVendorId, setVendorMessageType

\* The vendor message type and its mask are both kept big-endian.
LEMMA VendorMessageTypes ==
  /\ \A vmt \in config.vendorMessageType : \E x \in VdmType :
       vmt.value = htobe16(x) /\ vmt.mask = htobe16(VdmMask)
  /\ \A x \in VdmType : \E vmt \in config.vendorMessageType :
       vmt.value = htobe16(x) /\ vmt.mask = htobe16(VdmMask)
<1> DEFINE of(x) == [value |-> htobe16(x), mask |-> htobe16(VdmMask)]
<1>1. \A x : of(x).value = htobe16(x) /\ of(x).mask = htobe16(VdmMask)
  OBVIOUS
<1>2. config.vendorMessageType = {of(x) : x \in VdmType}
  BY ConfigFields
<1> HIDE DEF of
<1> QED
  BY <1>1, <1>2

\* onMessageReceived hands over exactly the messages the application asked for:
\* vendor id and vendor message type are compared in one byte order whatever
\* the CPU's, and of the latter the bits of the mask and no others.
THEOREM FilterExact ==
  ASSUME NEW header \in Header
  PROVE  Admits(header) <=> AsksFor(header)
<1> DEFINE id == header.vendorMessageId
<1>1. /\ header.vendorId \in Word /\ id \in Word /\ VdmMask \in Word
      /\ \A x \in Vid : x \in Word
      /\ \A x \in VdmType : x \in Word
  BY ConfigAssumption DEF Header
<1>2. ASSUME NEW x \in Vid
      PROVE  InMemory(header.vendorId) = htobe16(x) <=> header.vendorId = x
  BY <1>1, Injective DEF InMemory
<1>3. ASSUME NEW x \in VdmType
      PROVE  InMemory(id) \cap htobe16(VdmMask) = htobe16(x) \cap htobe16(VdmMask)
               <=> id \cap VdmMask = x \cap VdmMask
  <2>1. /\ x \in Word /\ id \cap VdmMask \in Word /\ x \cap VdmMask \in Word
        /\ htobe16(id) \cap htobe16(VdmMask) = htobe16(id \cap VdmMask)
        /\ htobe16(x) \cap htobe16(VdmMask) = htobe16(x \cap VdmMask)
    BY <1>1, MaskSwapped
  <2>2. htobe16(id \cap VdmMask) = htobe16(x \cap VdmMask)
          <=> id \cap VdmMask = x \cap VdmMask
    BY <2>1, Injective
  <2> QED
    BY <2>1, <2>2 DEF InMemory
<1>4. (\E vid \in config.vendorId : InMemory(header.vendorId) = vid)
        <=> header.vendorId \in Vid
  <2>1. (\E vid \in config.vendorId : InMemory(header.vendorId) = vid)
          <=> \E x \in Vid : InMemory(header.vendorId) = htobe16(x)
    BY ConfigFields
  <2> QED
    BY <1>2, <2>1
<1>5. (\E vmt \in config.vendorMessageType :
         InMemory(id) \cap vmt.mask = cmdSetType(vmt))
        <=> \E x \in VdmType : id \cap VdmMask = x \cap VdmMask
  <2>1. (\E vmt \in config.vendorMessageType :
           InMemory(id) \cap vmt.mask = cmdSetType(vmt))
          <=> \E x \in VdmType :
                InMemory(id) \cap htobe16(VdmMask) = htobe16(x) \cap htobe16(VdmMask)
    BY VendorMessageTypes DEF cmdSetType
  <2> QED
    BY <1>3, <2>1
<1> DEFINE vendor == \E vid \in config.vendorId : InMemory(header.vendorId) = vid
           kind == \E vmt \in config.vendorMessageType :
                     InMemory(id) \cap vmt.mask = cmdSetType(vmt)
<1>6. Admits(header) <=> /\ header.type = MsgType
                         /\ header.type = vdpci => vendor /\ kind
  BY ConfigFields DEF Admits
<1> HIDE DEF vendor, kind
<1>7. AsksFor(header) <=> /\ header.type = MsgType
                          /\ header.type = vdpci => vendor /\ kind
  BY <1>4, <1>5 DEF AsksFor, vendor, kind
<1> QED
  BY <1>6, <1>7

\* What buildMatchingEndpointMap lists by vendor is what the application asked
\* for, whatever the configuration, its setters' included, and the byte order:
\* the vendor's endpoints, if one was named, that list the message type itself
\* (the mask does not count here), and none for a message type without a vendor.
THEOREM ScanFilterExact ==
  ASSUME NEW vendorId \in Word, NEW messageTypes \in SUBSET Word
  PROVE  ListsVendor(vendorId, messageTypes) <=> AsksForEndpoint(vendorId, messageTypes)
<1>1. /\ \A x \in Vid : x \in Word /\ be16toh(htobe16(x)) = x
      /\ \A x \in VdmType : x \in Word /\ be16toh(htobe16(x)) = x
  BY ConfigAssumption, RoundTrip
<1>2. (\A vid \in config.vendorId : vendorId = be16toh(vid))
        <=> \A x \in Vid : vendorId = x
  BY <1>1, ConfigFields
<1>3. config.vendorId # {} <=> Vid # {}
  BY ConfigFields
<1>4. (\A vmt \in config.vendorMessageType :
         config.vendorId # {} /\ be16toh(vmt.value) \in messageTypes)
        <=> \A x \in VdmType : Vid # {} /\ x \in messageTypes
  BY <1>1, <1>3, VendorMessageTypes
<1>5. ListsVendor(vendorId, messageTypes)
        <=> (MsgType = vdpci =>
               /\ \A x \in Vid : vendorId = x
               /\ \A x \in VdmType : Vid # {} /\ x \in messageTypes)
  BY <1>2, <1>4, ConfigFields DEF ListsVendor
<1>6. (\A x \in Vid : vendorId = x) <=> (Vid # {} => vendorId \in Vid)
  BY ConfigAssumption
<1>7. (\A x \in VdmType : Vid # {} /\ x \in messageTypes)
        <=> (VdmType # {} => Vid # {} /\ VdmType \cap messageTypes # {})
  BY ConfigAssumption
<1> QED
  BY <1>5, <1>6, <1>7 DEF AsksForEndpoint

=============================================================================
