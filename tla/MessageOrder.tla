---------------------------- MODULE MessageOrder -----------------------------
(***************************************************************************)
(* What may be said of the order of the messages in a queue s, A, B and C  *)
(* being sets of messages.                                                 *)
(***************************************************************************)
EXTENDS Integers, Sequences

\* One of A is in the queue.
Occurs(s, A) == \E i \in DOMAIN s : s[i] \in A

\* After one of A there is none of B.
Closes(s, A, B) ==
  \A i, j \in DOMAIN s : i < j /\ s[i] \in A => s[j] \notin B

\* After each of A there is one of B.
Followed(s, A, B) ==
  \A i \in DOMAIN s : s[i] \in A => \E j \in DOMAIN s : i < j /\ s[j] \in B

\* Before each of A there is one of B.
Preceded(s, A, B) ==
  \A i \in DOMAIN s : s[i] \in A => \E j \in DOMAIN s : j < i /\ s[j] \in B

\* Between one of A and a later one of B there is one of C.
Parted(s, A, B, C) ==
  \A i, j \in DOMAIN s : i < j /\ s[i] \in A /\ s[j] \in B =>
    \E k \in DOMAIN s : i < k /\ k < j /\ s[k] \in C

=============================================================================
