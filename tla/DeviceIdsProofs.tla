-------------------------- MODULE DeviceIdsProofs ---------------------------
(***************************************************************************)
(* Proofs about DeviceID.                                                  *)
(***************************************************************************)
EXTENDS DeviceIds, TLAPS

\* The accessors give back what the constructor was given: neither field runs
\* into the other.
LEMMA Accessors ==
  ASSUME NEW e \in Byte, NEW n \in Byte
  PROVE  mctpEID(DeviceID(e, n)) = e /\ networkId(DeviceID(e, n)) = n
<1> DEFINE id == n * 256 + e
<1>1. e \in Int /\ n \in Int /\ 0 <= e /\ e < 256 /\ 0 <= n /\ n < 256
  BY DEF Byte
<1>2. id % 256 = e /\ id \div 256 = n
  BY <1>1
<1>3. n % 256 = n
  BY <1>1
<1> QED
  BY <1>2, <1>3 DEF DeviceID, mctpEID, networkId

\* Devices of different networks or with different eids have different ids, so
\* the endpoint map can tell them apart.
THEOREM DeviceIdsDiffer ==
  ASSUME NEW e \in Byte, NEW n \in Byte, NEW f \in Byte, NEW k \in Byte
  PROVE  DeviceID(e, n) = DeviceID(f, k) <=> e = f /\ n = k
BY Accessors

=============================================================================
