----------------------------- MODULE MCMctpImpl -----------------------------
(***************************************************************************)
(* Instances of MctpImpl for TLC.                                          *)
(***************************************************************************)
EXTENDS MctpImplProps, TLC

CONSTANTS w1, w2, none, pldm

\* Endpoint 10 does not support the message type.
AllButOne == Eids \ {10}

\* Vendor 0x8086 and vendor message type 0x01c0 of which 0xff80 counts: both
\* change with the byte order, and so does the mask.
Intel == {1, 2, 7, 15}
IntelOnly == {Intel}
CommandSet == {6, 7, 8}
CommandSetOnly == {CommandSet}
CommandMask == 7 .. 15

\* Endpoint 9 is of another vendor; all list the command set, itself, with a bit
\* that does not count and without one that does.
AllButOneIntel == [e \in Eids |-> IF e = 9 THEN {1, 2, 7} ELSE Intel]
CommandSets == [e \in Eids |-> {CommandSet, CommandSet \cup {0}, {6, 7}}]

\* What an endpoint may send: the type, vendor and command set asked for, and
\* messages that differ from it in one of these or in a bit that does not count.
HeaderOf(type, vendor, id) == [type |-> type, vendorId |-> vendor, vendorMessageId |-> id]
Spoken ==
  {HeaderOf(vdpci, Intel, CommandSet \cup {0}), HeaderOf(vdpci, Intel, {6, 7}),
   HeaderOf(vdpci, {1, 2, 7}, CommandSet), HeaderOf(pldm, Intel, CommandSet)}

\* Messages of the one type asked for.
Chatter == {HeaderOf(MsgType, {}, {})}

\* No service has a NetworkID property; every service has one.
NoNetworks == [w \in Services |-> none]
Networked == [w \in Services |-> IF w = w1 THEN 1 ELSE 2]

\* Own EIDs and version lists are only compared for equality.
OwnEidSymmetry == Permutations(OwnEids)
VersionSymmetry == Permutations(Versions)

=============================================================================
