--------------------------- MODULE MCMctpTransfer ---------------------------
(***************************************************************************)
(* Instances of MctpTransfer for TLC, over those of MctpImpl.              *)
(***************************************************************************)
EXTENDS MctpTransfer, MCMctpImpl

\* Milliseconds that fit 16 bits, and others that do not.
Durations == {300, 65536, -1}

=============================================================================
