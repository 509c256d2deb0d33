----------------------------- MODULE DeviceIds ------------------------------
(***************************************************************************)
(* The numbers of the library's interface.  struct DeviceID packs an 8-bit *)
(* endpoint id and an 8-bit network id into one word.  This module is pure *)
(* arithmetic: the other modules use it wherever the code builds a         *)
(* DeviceID or narrows an integer.                                         *)
(***************************************************************************)
EXTENDS Integers

Byte == 0 .. 255            \* uint8_t: eid_t, LocalEID, NetworkID

UInt16 == {n \in Nat : n < 65536}    \* uint16_t

\* The constructor: id((nwid << 8) | eidVal).  The two fields do not overlap,
\* so the bitwise "or" of the code is an addition.
DeviceID(eidVal, nwid) == nwid * 256 + eidVal

\* id & 0xFF
mctpEID(id) == id % 256

\* NetworkID(id >> 8): the shift, then the narrowing to uint8_t.
networkId(id) == (id \div 256) % 256

=============================================================================
