--------------------------- MODULE MctpScanProofs ----------------------------
(***************************************************************************)
(* Proofs about MctpTracking, part one: the unread messages keep the order *)
(* their senders gave them, and what a scan has read of a service agrees   *)
(* with the service and with what it is still going to say.                *)
(***************************************************************************)
EXTENDS MctpTracking, MctpImplProofs, MctpConfigProofs

-----------------------------------------------------------------------------
(* Order in a queue: when its head is read, and when a message arrives. *)

\* The messages of a queue without its head, and with one more.
LEMMA TailFacts ==
  ASSUME NEW M, NEW s \in Seq(M), s # <<>>
  PROVE  /\ 1 \in DOMAIN s /\ Head(s) = s[1] /\ Tail(s) \in Seq(M)
         /\ \A i \in DOMAIN s : i \in Nat \ {0}
         /\ \A i \in DOMAIN Tail(s) :
              i \in Nat \ {0} /\ i + 1 \in DOMAIN s /\ Tail(s)[i] = s[i + 1]
         /\ \A i \in DOMAIN s : i # 1 => i - 1 \in DOMAIN Tail(s) /\ Tail(s)[i - 1] = s[i]
OBVIOUS

LEMMA AppendFacts ==
  ASSUME NEW M, NEW s \in Seq(M), NEW m
  PROVE  LET last == Len(s) + 1
         IN  /\ last \in Nat /\ last \in DOMAIN Append(s, m) /\ Append(s, m)[last] = m
             /\ \A i \in DOMAIN s :
                  /\ i \in Nat /\ i < last
                  /\ i \in DOMAIN Append(s, m) /\ Append(s, m)[i] = s[i]
             /\ \A i \in DOMAIN Append(s, m) :
                  i \in Nat /\ (i # last => i \in DOMAIN s /\ i < last)
OBVIOUS

LEMMA OccursTail ==
  ASSUME NEW M, NEW s \in Seq(M), s # <<>>, NEW A
  PROVE  Occurs(s, A) <=> Head(s) \in A \/ Occurs(Tail(s), A)
<1>1. ASSUME NEW i \in DOMAIN Tail(s), Tail(s)[i] \in A
      PROVE  Occurs(s, A)
  BY <1>1, TailFacts DEF Occurs
<1>2. ASSUME NEW i \in DOMAIN s, s[i] \in A, i # 1
      PROVE  Occurs(Tail(s), A)
  BY <1>2, TailFacts, Zenon DEF Occurs
<1> QED
  BY <1>1, <1>2, TailFacts DEF Occurs

LEMMA ClosesTail ==
  ASSUME NEW M, NEW s \in Seq(M), s # <<>>, NEW A, NEW B, Closes(s, A, B)
  PROVE  /\ Closes(Tail(s), A, B)
         /\ Head(s) \in A => ~Occurs(Tail(s), B)
<1>1. ASSUME NEW i \in DOMAIN Tail(s), NEW j \in DOMAIN Tail(s), i < j,
             Tail(s)[i] \in A
      PROVE  Tail(s)[j] \notin B
  BY <1>1, TailFacts DEF Closes
<1>2. ASSUME Head(s) \in A, NEW j \in DOMAIN Tail(s)
      PROVE  Tail(s)[j] \notin B
  BY <1>2, TailFacts DEF Closes
<1> QED
  BY <1>1, <1>2 DEF Closes, Occurs

LEMMA FollowedTail ==
  ASSUME NEW M, NEW s \in Seq(M), s # <<>>, NEW A, NEW B, Followed(s, A, B)
  PROVE  /\ Followed(Tail(s), A, B)
         /\ Head(s) \in A => Occurs(Tail(s), B)
<1>1. ASSUME NEW i \in DOMAIN s, NEW j \in DOMAIN s, i < j
      PROVE  j # 1 /\ j - 1 \in DOMAIN Tail(s) /\ Tail(s)[j - 1] = s[j]
  BY <1>1, TailFacts
<1>2. ASSUME NEW i \in DOMAIN Tail(s), Tail(s)[i] \in A
      PROVE  \E j \in DOMAIN Tail(s) : i < j /\ Tail(s)[j] \in B
  <2>1. i \in Nat /\ i + 1 \in DOMAIN s /\ s[i + 1] \in A
    BY <1>2, TailFacts
  <2>2. PICK j \in DOMAIN s : i + 1 < j /\ s[j] \in B
    BY <2>1 DEF Followed
  <2>3. j \in Nat /\ i < j - 1
    BY <2>1, <2>2, TailFacts
  <2> QED
    BY <1>1, <2>1, <2>2, <2>3
<1>3. ASSUME Head(s) \in A
      PROVE  Occurs(Tail(s), B)
  <2>1. PICK j \in DOMAIN s : 1 < j /\ s[j] \in B
    BY <1>3, TailFacts DEF Followed
  <2> QED
    BY <1>1, <2>1, TailFacts DEF Occurs
<1> QED
  BY <1>2, <1>3 DEF Followed

LEMMA PrecededTail ==
  ASSUME NEW M, NEW s \in Seq(M), s # <<>>, NEW A, NEW B, Preceded(s, A, B)
  PROVE  /\ Head(s) \notin A
         /\ Head(s) \notin B => Preceded(Tail(s), A, B)
<1>1. Head(s) \notin A
  BY TailFacts DEF Preceded
<1>2. ASSUME Head(s) \notin B, NEW i \in DOMAIN Tail(s), Tail(s)[i] \in A
      PROVE  \E j \in DOMAIN Tail(s) : j < i /\ Tail(s)[j] \in B
  <2>1. i \in Nat /\ i + 1 \in DOMAIN s /\ s[i + 1] \in A
    BY <1>2, TailFacts
  <2>2. PICK j \in DOMAIN s : j < i + 1 /\ s[j] \in B
    BY <2>1 DEF Preceded
  <2>3. j # 1 /\ j \in Nat
    BY <1>2, <2>2, TailFacts
  <2>4. j - 1 \in DOMAIN Tail(s) /\ Tail(s)[j - 1] = s[j]
    BY <2>3, TailFacts
  <2>5. j - 1 < i
    BY <2>1, <2>2, <2>3
  <2> QED
    BY <2>2, <2>4, <2>5
<1> QED
  BY <1>1, <1>2 DEF Preceded

LEMMA PartedTail ==
  ASSUME NEW M, NEW s \in Seq(M), s # <<>>, NEW A, NEW B, NEW C, Parted(s, A, B, C)
  PROVE  /\ Parted(Tail(s), A, B, C)
         /\ Head(s) \in A => Preceded(Tail(s), B, C)
<1>1. ASSUME NEW i \in DOMAIN s, s[i] \in A,
             NEW j \in DOMAIN Tail(s), i < j + 1, Tail(s)[j] \in B
      PROVE  \E k \in DOMAIN Tail(s) : i < k + 1 /\ k < j /\ Tail(s)[k] \in C
  <2>1. j \in Nat /\ j + 1 \in DOMAIN s /\ s[j + 1] \in B /\ i \in Nat \ {0}
    BY <1>1, TailFacts
  <2>2. PICK k \in DOMAIN s : i < k /\ k < j + 1 /\ s[k] \in C
    BY <1>1, <2>1 DEF Parted
  <2>3. k # 1 /\ k \in Nat
    BY <2>1, <2>2, TailFacts
  <2>4. k - 1 \in DOMAIN Tail(s) /\ Tail(s)[k - 1] = s[k]
    BY <2>3, TailFacts
  <2>5. i < (k - 1) + 1 /\ k - 1 < j
    BY <2>1, <2>2, <2>3
  <2> QED
    BY <2>2, <2>4, <2>5
<1>2. ASSUME NEW i \in DOMAIN Tail(s), NEW j \in DOMAIN Tail(s), i < j,
             Tail(s)[i] \in A, Tail(s)[j] \in B
      PROVE  \E k \in DOMAIN Tail(s) : i < k /\ k < j /\ Tail(s)[k] \in C
  <2>1. i \in Nat /\ j \in Nat /\ i + 1 \in DOMAIN s /\ s[i + 1] \in A /\ i + 1 < j + 1
    BY <1>2, TailFacts
  <2>2. PICK k \in DOMAIN Tail(s) : i + 1 < k + 1 /\ k < j /\ Tail(s)[k] \in C
    BY <1>1, <1>2, <2>1
  <2>3. k \in Nat /\ i < k
    BY <2>1, <2>2, TailFacts
  <2> QED
    BY <2>2, <2>3
<1>3. ASSUME Head(s) \in A, NEW j \in DOMAIN Tail(s), Tail(s)[j] \in B
      PROVE  \E k \in DOMAIN Tail(s) : k < j /\ Tail(s)[k] \in C
  <2>1. 1 \in DOMAIN s /\ s[1] \in A /\ 1 < j + 1
    BY <1>3, TailFacts
  <2> QED
    BY <1>1, <1>3, <2>1
<1> QED
  BY <1>2, <1>3 DEF Parted, Preceded

LEMMA OccursAppend ==
  ASSUME NEW M, NEW s \in Seq(M), NEW m, NEW A
  PROVE  Occurs(Append(s, m), A) <=> Occurs(s, A) \/ m \in A
BY AppendFacts DEF Occurs

LEMMA ClosesAppend ==
  ASSUME NEW M, NEW s \in Seq(M), NEW m, NEW A, NEW B, Closes(s, A, B),
         m \in B => ~Occurs(s, A)
  PROVE  Closes(Append(s, m), A, B)
BY AppendFacts DEF Closes, Occurs

LEMMA FollowedAppend ==
  ASSUME NEW M, NEW s \in Seq(M), NEW m, NEW A, NEW B,
         m \notin A, Followed(s, A, B) \/ m \in B
  PROVE  Followed(Append(s, m), A, B)
BY AppendFacts DEF Followed

LEMMA PrecededAppend ==
  ASSUME NEW M, NEW s \in Seq(M), NEW m, NEW A, NEW B, Preceded(s, A, B),
         m \in A => Occurs(s, B)
  PROVE  Preceded(Append(s, m), A, B)
BY AppendFacts DEF Preceded, Occurs

LEMMA PartedAppend ==
  ASSUME NEW M, NEW s \in Seq(M), NEW m, NEW A, NEW B, NEW C, Parted(s, A, B, C),
         m \in B => Followed(s, A, C)
  PROVE  Parted(Append(s, m), A, B, C)
<1> DEFINE last == Len(s) + 1
           t == Append(s, m)
<1> SUFFICES ASSUME NEW i \in DOMAIN t, NEW j \in DOMAIN t, i < j,
                    t[i] \in A, t[j] \in B
             PROVE  \E k \in DOMAIN t : i < k /\ k < j /\ t[k] \in C
  BY DEF Parted
<1>1. i # last /\ i \in DOMAIN s /\ s[i] \in A
  BY AppendFacts
<1>2. CASE j = last
  <2>1. PICK k \in DOMAIN s : i < k /\ s[k] \in C
    BY <1>1, <1>2, AppendFacts DEF Followed
  <2> QED
    BY <1>2, <2>1, AppendFacts
<1>3. CASE j # last
  <2>1. j \in DOMAIN s /\ s[j] \in B
    BY <1>3, AppendFacts
  <2>2. PICK k \in DOMAIN s : i < k /\ k < j /\ s[k] \in C
    BY <1>1, <2>1 DEF Parted
  <2> QED
    BY <2>2, AppendFacts
<1> QED
  BY <1>2, <1>3

\* The empty queue is in any order.
LEMMA NoMessages ==
  \A A, B, C :
    /\ ~Occurs(<<>>, A) /\ Closes(<<>>, A, B) /\ Followed(<<>>, A, B)
    /\ Preceded(<<>>, A, B) /\ Parted(<<>>, A, B, C)
BY DEF Occurs, Closes, Followed, Preceded, Parted

\* Where there is no first or second message, there is no order to keep.
LEMMA OrderVoid ==
  ASSUME NEW s, NEW A, NEW B, NEW C
  PROVE  /\ ~Occurs(s, A) => Closes(s, A, B) /\ Followed(s, A, B)
                              /\ Preceded(s, A, B) /\ Parted(s, A, B, C)
         /\ ~Occurs(s, B) => Closes(s, A, B) /\ Parted(s, A, B, C)
BY DEF Occurs, Closes, Followed, Preceded, Parted

\* One of the messages of a set is one of any larger set.
LEMMA OccursMore ==
  ASSUME NEW s, NEW A, NEW B, A \subseteq B, Occurs(s, A)
  PROVE  Occurs(s, B)
BY DEF Occurs

-----------------------------------------------------------------------------
(* The same of the inbox. *)

\* The library reads a message.
LEMMA InboxRead ==
  ASSUME inbox \in Seq(Message), inbox # <<>>, inbox' = Tail(inbox)
  PROVE  /\ \A A : Occurs(inbox, A) <=> Head(inbox) \in A \/ Occurs(inbox', A)
         /\ \A A, B : Closes(inbox, A, B) =>
              Closes(inbox', A, B) /\ (Head(inbox) \in A => ~Occurs(inbox', B))
         /\ \A A, B : Followed(inbox, A, B) =>
              Followed(inbox', A, B) /\ (Head(inbox) \in A => Occurs(inbox', B))
         /\ \A A, B : Preceded(inbox, A, B) =>
              Head(inbox) \notin A /\ (Head(inbox) \notin B => Preceded(inbox', A, B))
         /\ \A A, B, C : Parted(inbox, A, B, C) =>
              Parted(inbox', A, B, C) /\ (Head(inbox) \in A => Preceded(inbox', B, C))
BY OccursTail, ClosesTail, FollowedTail, PrecededTail, PartedTail

\* A message arrives.
LEMMA InboxGets ==
  ASSUME inbox \in Seq(Message), NEW m, inbox' = Append(inbox, m)
  PROVE  /\ \A A : Occurs(inbox', A) <=> Occurs(inbox, A) \/ m \in A
         /\ \A A, B : Closes(inbox, A, B) /\ (m \in B => ~Occurs(inbox, A))
              => Closes(inbox', A, B)
         /\ \A A, B : m \notin A /\ (Followed(inbox, A, B) \/ m \in B)
              => Followed(inbox', A, B)
         /\ \A A, B : Preceded(inbox, A, B) /\ (m \in A => Occurs(inbox, B))
              => Preceded(inbox', A, B)
         /\ \A A, B, C : Parted(inbox, A, B, C) /\ (m \in B => Followed(inbox, A, C))
              => Parted(inbox', A, B, C)
BY OccursAppend, ClosesAppend, FollowedAppend, PrecededAppend, PartedAppend

\* The kind of a message.
LEMMA Kinds ==
  ASSUME NEW m \in Message, NEW N, NEW E
  PROVE  /\ m \in Came(N) <=> m.type = "serviceAdded" /\ m.from \in N
         /\ m \in Left(N) <=> m.type = "serviceRemoved" /\ m.from \in N
         /\ m \in Added(N, E) <=> m.type = "endpointAdded" /\ m.from \in N /\ m.eid \in E
         /\ m \in Removed(N, E) <=> m.type = "endpointRemoved" /\ m.from \in N /\ m.eid \in E
         /\ m \in Sent(N, E) <=> m.type = "message" /\ m.from \in N /\ m.eid \in E
         /\ m \in About(N) <=> m.type \in {"endpointAdded", "endpointRemoved", "message"}
                                /\ m.from \in N
         /\ m \in Changes(N) <=> m.type \in {"endpointAdded", "endpointRemoved"}
                                  /\ m.from \in N
<1>1. m \in Came(N) <=> m.type = "serviceAdded" /\ m.from \in N
  BY DEF Came, Message, Signal, Reply
<1>2. m \in Left(N) <=> m.type = "serviceRemoved" /\ m.from \in N
  BY DEF Left, Message, Signal, Reply
<1>3. m \in Added(N, E) <=> m.type = "endpointAdded" /\ m.from \in N /\ m.eid \in E
  BY DEF Added, Message, Signal, Reply
<1>4. m \in Removed(N, E) <=> m.type = "endpointRemoved" /\ m.from \in N /\ m.eid \in E
  BY DEF Removed, Message, Signal, Reply
<1>5. m \in Sent(N, E) <=> m.type = "message" /\ m.from \in N /\ m.eid \in E
  BY DEF Sent, Message, Signal, Reply
<1>6. /\ m \in About(N) <=> m.type \in {"endpointAdded", "endpointRemoved", "message"}
                                /\ m.from \in N
      /\ m \in Changes(N) <=> m.type \in {"endpointAdded", "endpointRemoved"}
                                  /\ m.from \in N
  BY DEF About, Changes, Added, Removed, Sent, Message, Signal, Reply
<1> QED
  BY <1>1, <1>2, <1>3, <1>4, <1>5, <1>6

\* The same for one sender and one endpoint, and for any sender.
LEMMA KindsOne ==
  ASSUME NEW m \in Message
  PROVE  /\ \A n : m \in Came({n}) <=> m.type = "serviceAdded" /\ m.from = n
         /\ \A n : m \in Left({n}) <=> m.type = "serviceRemoved" /\ m.from = n
         /\ \A n, e : m \in Added({n}, {e}) <=>
                       m.type = "endpointAdded" /\ m.from = n /\ m.eid = e
         /\ \A n, e : m \in Removed({n}, {e}) <=>
                       m.type = "endpointRemoved" /\ m.from = n /\ m.eid = e
         /\ \A n, e : m \in Sent({n}, {e}) <=>
                       m.type = "message" /\ m.from = n /\ m.eid = e
         /\ \A e : m \in Added(Name, {e}) <=> m.type = "endpointAdded" /\ m.eid = e
         /\ \A e : m \in Removed(Name, {e}) <=> m.type = "endpointRemoved" /\ m.eid = e
<1>1. ASSUME NEW n, NEW e
      PROVE  /\ m \in Came({n}) <=> m.type = "serviceAdded" /\ m.from = n
             /\ m \in Left({n}) <=> m.type = "serviceRemoved" /\ m.from = n
             /\ m \in Added({n}, {e}) <=>
                  m.type = "endpointAdded" /\ m.from = n /\ m.eid = e
             /\ m \in Removed({n}, {e}) <=>
                  m.type = "endpointRemoved" /\ m.from = n /\ m.eid = e
             /\ m \in Sent({n}, {e}) <=>
                  m.type = "message" /\ m.from = n /\ m.eid = e
  <2>1. /\ m \in Came({n}) <=> m.type = "serviceAdded" /\ m.from \in {n}
        /\ m \in Left({n}) <=> m.type = "serviceRemoved" /\ m.from \in {n}
        /\ m \in Added({n}, {e}) <=>
             m.type = "endpointAdded" /\ m.from \in {n} /\ m.eid \in {e}
        /\ m \in Removed({n}, {e}) <=>
             m.type = "endpointRemoved" /\ m.from \in {n} /\ m.eid \in {e}
        /\ m \in Sent({n}, {e}) <=>
             m.type = "message" /\ m.from \in {n} /\ m.eid \in {e}
    BY Kinds
  <2> QED
    BY <2>1
<1>2. ASSUME NEW e
      PROVE  /\ m \in Added(Name, {e}) <=> m.type = "endpointAdded" /\ m.eid = e
             /\ m \in Removed(Name, {e}) <=> m.type = "endpointRemoved" /\ m.eid = e
  <2>1. /\ m \in Added(Name, {e}) <=>
             m.type = "endpointAdded" /\ m.from \in Name /\ m.eid \in {e}
        /\ m \in Removed(Name, {e}) <=>
             m.type = "endpointRemoved" /\ m.from \in Name /\ m.eid \in {e}
    BY Kinds
  <2> QED
    BY <2>1, MessageFields
<1> QED
  BY <1>1, <1>2

\* The replies to c.
LEMMA ReplyKinds ==
  ASSUME NEW m \in Message, NEW c
  PROVE  m \in To(c) <=> m.type \in {"services", "owner", "objects", "error"} /\ m.to = c
BY DEF To, Message, Signal, Reply

-----------------------------------------------------------------------------
(* The bus: what the services do. *)

\* The names of running services.
LEMMA UniqueFacts ==
  ASSUME TypeInv, NEW w \in Services
  PROVE  /\ Unique(w) \in Name /\ Unique(w)[1] = w /\ Unique(w)[2] = life[w]
         /\ Unique(w) = <<w, life[w]>>
         /\ \A x \in Services : Unique(w) = Unique(x) => w = x
BY UniqueType DEF Unique, TypeInv, TypeOK

\* A signal joins the inbox, which is empty before anything is watched.
LEMMA Emitted ==
  ASSUME FirstInv, NEW m, Emit(m)
  PROVE  \/ inbox' = Append(inbox, m)
         \/ inbox = <<>> /\ inbox' = <<>>
BY DEF FirstInv, Emit

\* Of a service's next life there is no signal yet.
LEMMA NextLife ==
  ASSUME TypeInv, LifeInv, NEW w \in Services, NEW n \in Name, n = <<w, life[w] + 1>>
  PROVE  /\ ~Occurs(inbox, About({n})) /\ ~Occurs(inbox, Left({n}))
         /\ \A e : ~Occurs(inbox, Sent({n}, {e})) /\ ~Occurs(inbox, Added({n}, {e}))
<1>1. ~Started(n, life)
  BY DEF Started, TypeInv, TypeOK, BusTypeOK
<1>2. ASSUME NEW i \in DOMAIN inbox, NEW e
      PROVE  /\ inbox[i] \notin About({n}) /\ inbox[i] \notin Left({n})
             /\ inbox[i] \notin Sent({n}, {e}) /\ inbox[i] \notin Added({n}, {e})
  <2>1. inbox[i] \in Message /\ StartedMessage(inbox[i], life)
    BY DEF LifeInv, TypeInv, TypeOK, BusTypeOK
  <2> QED
    BY <1>1, <2>1, Kinds DEF StartedMessage
<1> QED
  BY <1>2 DEF Occurs

\* What holds of the bus holds with nothing in the inbox.
LEMMA BusQuiet ==
  ASSUME EndpointInv', inbox' = <<>>
  PROVE  BusInv' /\ FifoInv'
<1>1. SessionInv'
  BY NoMessages DEF SessionInv
<1>2. PresenceInv'
  BY NoMessages DEF PresenceInv
<1>3. SpeechInv' /\ FifoInv'
  BY NoMessages DEF SpeechInv, FifoInv
<1> QED
  BY <1>1, <1>2, <1>3 DEF BusInv

LEMMA BusStart ==
  ASSUME TypeInv, LifeInv, BusInv, FirstInv, NEW w \in Services, StartService(w)
  PROVE  BusInv' /\ (FifoInv => FifoInv')
<1> DEFINE n == <<w, life[w] + 1>>
           m == [type |-> "serviceAdded", from |-> n]
<1>1. /\ n \in Name /\ n[1] = w /\ n # Unique(w) /\ Unique(w)' = n
      /\ \A x \in Services : x # w => Unique(x)' = Unique(x)
  BY BusAssumption, UniqueFacts DEF StartService, TypeInv, TypeOK, BusTypeOK, Name, Unique
<1>2. m \in Message /\ m.type = "serviceAdded" /\ m.from = n
  BY <1>1, SignalTypes
<1>3. /\ ~up[w] /\ eps[w] = {} /\ UNCHANGED eps /\ Emit(m)
      /\ \A x \in Services : x # w => up'[x] = up[x]
      /\ inbox \in Seq(Message)
  BY DEF StartService, BusInv, EndpointInv, TypeInv, TypeOK, BusTypeOK
<1>4. /\ ~Occurs(inbox, About({n})) /\ ~Occurs(inbox, Left({n}))
      /\ \A e : ~Occurs(inbox, Sent({n}, {e})) /\ ~Occurs(inbox, Added({n}, {e}))
  BY <1>1, NextLife
<1> HIDE DEF n, m
<1>5. EndpointInv'
  BY <1>3 DEF BusInv, EndpointInv
<1>6. CASE inbox' = Append(inbox, m)
  <2>1. SessionInv'
    <3>1. ASSUME NEW k \in Name
          PROVE  Closes(inbox', About({k}), Came({k})) /\ Closes(inbox', Left({k}), About({k}))
      <4>1. Closes(inbox, About({k}), Came({k})) /\ Closes(inbox, Left({k}), About({k}))
        BY DEF BusInv, SessionInv
      <4>2. m \notin About({k}) /\ (m \in Came({k}) => k = n)
        BY <1>2, Kinds
      <4> QED
        BY <1>3, <1>4, <1>6, <4>1, <4>2, InboxGets
    <3>2. ASSUME NEW x \in Services, up'[x]
          PROVE  ~Occurs(inbox', Left({Unique(x)'}))
      <4>1. ~Occurs(inbox, Left({Unique(x)'}))
        BY <1>1, <1>3, <1>4, <3>2 DEF BusInv, SessionInv
      <4>2. m \notin Left({Unique(x)'})
        BY <1>2, Kinds
      <4> QED
        BY <1>3, <1>6, <4>1, <4>2, InboxGets
    <3> QED
      BY <3>1, <3>2 DEF SessionInv
  <2>2. PresenceInv'
    <3>1. ASSUME NEW x \in Services, NEW e \in eps[x]
          PROVE  Followed(inbox', Removed(Name, {e}), Added({Unique(x)'}, {e}))
      <4>1. Followed(inbox, Removed(Name, {e}), Added({Unique(x)'}, {e}))
        BY <1>1, <1>3 DEF BusInv, PresenceInv
      <4>2. m \notin Removed(Name, {e})
        BY <1>2, Kinds
      <4> QED
        BY <1>3, <1>6, <4>1, <4>2, InboxGets
    <3>2. ASSUME NEW x \in Services, NEW e \in Eids \ eps[x], up'[x]
          PROVE  Followed(inbox', Sent({Unique(x)'}, {e}), Removed({Unique(x)'}, {e}))
      <4>1. Followed(inbox, Sent({Unique(x)'}, {e}), Removed({Unique(x)'}, {e}))
        BY <1>1, <1>3, <1>4, <3>2, OrderVoid DEF BusInv, PresenceInv
      <4>2. m \notin Sent({Unique(x)'}, {e})
        BY <1>2, Kinds
      <4> QED
        BY <1>3, <1>6, <4>1, <4>2, InboxGets
    <3> QED
      BY <1>3, <3>1, <3>2 DEF PresenceInv
  <2>3. SpeechInv'
    BY <1>2, <1>3, <1>6, AppendFacts DEF BusInv, SpeechInv
  <2>4. ASSUME FifoInv
        PROVE  FifoInv'
    <3>1. ASSUME NEW k \in Name, NEW e \in Eids
          PROVE  /\ ~(up'[k[1]] /\ k = Unique(k[1])' /\ e \in eps'[k[1]])
                      => Followed(inbox', Added({k}, {e}), Removed({k}, {e}))
                 /\ Parted(inbox', Added({k}, {e}), Added(Name, {e}), Removed({k}, {e}))
      <4>1. /\ m \notin Added({k}, {e}) /\ m \notin Added(Name, {e})
            /\ Parted(inbox, Added({k}, {e}), Added(Name, {e}), Removed({k}, {e}))
        BY <1>2, <2>4, Kinds DEF FifoInv
      <4>2. ASSUME ~(up'[k[1]] /\ k = Unique(k[1])' /\ e \in eps'[k[1]])
            PROVE  Followed(inbox, Added({k}, {e}), Removed({k}, {e}))
        <5>1. k[1] \in Services
          BY DEF Name
        <5> QED
          BY <1>1, <1>3, <2>4, <4>2, <5>1 DEF FifoInv
      <4> QED
        BY <1>3, <1>6, <4>1, <4>2, InboxGets
    <3> QED
      BY <3>1 DEF FifoInv
  <2> QED
    BY <1>5, <2>1, <2>2, <2>3, <2>4 DEF BusInv
<1>7. CASE inbox' = <<>>
  BY <1>5, <1>7, BusQuiet
<1> QED
  BY <1>3, <1>6, <1>7, Emitted

\* A message other than that arrives.  It tells what it does to the endpoints,
\* and comes from a running service unless it is a reply.
LEMMA BusMessage ==
  ASSUME TypeInv, BusInv, EndpointInv', NEW m \in Message, inbox' = Append(inbox, m),
         UNCHANGED life, \A x \in Services : up'[x] => up[x],
         m.type # "serviceAdded",
         m.type \in {"serviceRemoved", "endpointAdded", "endpointRemoved", "message"}
           => \E w \in Services : up[w] /\ m.from = Unique(w),
         \A x \in Services : up'[x] => ~(m.type = "serviceRemoved" /\ m.from = Unique(x)),
         \A x \in Services : \A e \in eps'[x] :
           /\ ~(m.type = "endpointRemoved" /\ m.eid = e)
           /\ e \in eps[x] \/ (m.type = "endpointAdded" /\ m.from = Unique(x) /\ m.eid = e),
         \A x \in Services : \A e \in Eids \ eps'[x] : up'[x] =>
           /\ ~(m.type = "message" /\ m.from = Unique(x) /\ m.eid = e)
           /\ e \notin eps[x] \/ (m.type = "endpointRemoved" /\ m.from = Unique(x) /\ m.eid = e),
         m.type = "message" => Speaks(m.eid, m.header)
  PROVE  BusInv'
<1>1. inbox \in Seq(Message) /\ \A x \in Services : Unique(x)' = Unique(x)
  BY DEF TypeInv, TypeOK, BusTypeOK, Unique
<1>2. SessionInv'
  <2>1. ASSUME NEW k \in Name
        PROVE  Closes(inbox', About({k}), Came({k})) /\ Closes(inbox', Left({k}), About({k}))
    <3>1. Closes(inbox, About({k}), Came({k})) /\ Closes(inbox, Left({k}), About({k}))
      BY DEF BusInv, SessionInv
    <3>2. m \notin Came({k})
      BY KindsOne
    <3>3. m \in About({k}) => ~Occurs(inbox, Left({k}))
      BY Kinds DEF BusInv, SessionInv
    <3> QED
      BY <1>1, <3>1, <3>2, <3>3, InboxGets
  <2>2. ASSUME NEW x \in Services, up'[x]
        PROVE  ~Occurs(inbox', Left({Unique(x)}))
    <3>1. ~Occurs(inbox, Left({Unique(x)}))
      BY <2>2 DEF BusInv, SessionInv
    <3>2. m \notin Left({Unique(x)})
      BY <2>2, KindsOne
    <3> QED
      BY <1>1, <3>1, <3>2, InboxGets
  <2> QED
    BY <1>1, <2>1, <2>2 DEF SessionInv
<1>3. PresenceInv'
  <2>1. ASSUME NEW x \in Services, NEW e \in eps'[x]
        PROVE  Followed(inbox', Removed(Name, {e}), Added({Unique(x)}, {e}))
    <3>1. m \notin Removed(Name, {e})
      BY KindsOne
    <3>2. \/ Followed(inbox, Removed(Name, {e}), Added({Unique(x)}, {e}))
          \/ m \in Added({Unique(x)}, {e})
      <4>1. CASE e \in eps[x]
        BY <4>1 DEF BusInv, PresenceInv
      <4>2. CASE m.type = "endpointAdded" /\ m.from = Unique(x) /\ m.eid = e
        BY <4>2, KindsOne
      <4> QED
        BY <4>1, <4>2
    <3> QED
      BY <1>1, <3>1, <3>2, InboxGets
  <2>2. ASSUME NEW x \in Services, NEW e \in Eids \ eps'[x], up'[x]
        PROVE  Followed(inbox', Sent({Unique(x)}, {e}), Removed({Unique(x)}, {e}))
    <3>1. m \notin Sent({Unique(x)}, {e})
      <4>1. ~(m.type = "message" /\ m.from = Unique(x) /\ m.eid = e)
        BY <2>2
      <4> QED
        BY <4>1, KindsOne
    <3>2. \/ Followed(inbox, Sent({Unique(x)}, {e}), Removed({Unique(x)}, {e}))
          \/ m \in Removed({Unique(x)}, {e})
      <4>1. CASE e \notin eps[x]
        BY <2>2, <4>1 DEF BusInv, PresenceInv
      <4>2. CASE m.type = "endpointRemoved" /\ m.from = Unique(x) /\ m.eid = e
        BY <4>2, KindsOne
      <4> QED
        BY <2>2, <4>1, <4>2
    <3> QED
      BY <1>1, <3>1, <3>2, InboxGets
  <2> QED
    BY <1>1, <2>1, <2>2 DEF PresenceInv
<1>4. SpeechInv'
  BY <1>1, AppendFacts DEF BusInv, SpeechInv
<1> QED
  BY <1>2, <1>3, <1>4 DEF BusInv

\* The same of FifoInv.
LEMMA FifoMessage ==
  ASSUME TypeInv, FifoInv, NEW m \in Message, inbox' = Append(inbox, m),
         UNCHANGED life, \A x \in Services : up'[x] => up[x],
         m.type = "endpointAdded" =>
           \E w \in Services : up'[w] /\ m.from = Unique(w) /\ m.eid \in eps'[w],
         m.type = "endpointAdded" => \A x \in Services : m.eid \notin eps[x],
         \A x \in Services : \A e \in eps[x] : up[x] =>
           \/ up'[x] /\ e \in eps'[x]
           \/ m.type = "endpointRemoved" /\ m.from = Unique(x) /\ m.eid = e
  PROVE  FifoInv'
<1>1. inbox \in Seq(Message) /\ \A x \in Services : Unique(x)' = Unique(x)
  BY DEF TypeInv, TypeOK, BusTypeOK, Unique
<1> SUFFICES
      ASSUME NEW k \in Name, NEW e \in Eids
      PROVE  /\ ~(up'[k[1]] /\ k = Unique(k[1]) /\ e \in eps'[k[1]])
                   => Followed(inbox', Added({k}, {e}), Removed({k}, {e}))
             /\ Parted(inbox', Added({k}, {e}), Added(Name, {e}), Removed({k}, {e}))
  <2>1. \A k \in Name : k[1] \in Services
    BY DEF Name
  <2> QED
    BY <1>1, <2>1 DEF FifoInv
<1>2. k[1] \in Services
  BY DEF Name
<1>3. ASSUME ~(up'[k[1]] /\ k = Unique(k[1]) /\ e \in eps'[k[1]])
      PROVE  Followed(inbox', Added({k}, {e}), Removed({k}, {e}))
  <2>1. m \notin Added({k}, {e})
    <3>1. ASSUME m.type = "endpointAdded", m.from = k, m.eid = e
          PROVE  FALSE
      <4>1. PICK w \in Services : up'[w] /\ k = Unique(w) /\ e \in eps'[w]
        BY <3>1
      <4>2. k[1] = w
        BY <4>1, UniqueFacts
      <4> QED
        BY <1>3, <4>1, <4>2
    <3> QED
      BY <3>1, KindsOne
  <2>2. Followed(inbox, Added({k}, {e}), Removed({k}, {e})) \/ m \in Removed({k}, {e})
      <3>1. CASE ~(up[k[1]] /\ k = Unique(k[1]) /\ e \in eps[k[1]])
      BY <3>1 DEF FifoInv
    <3>2. CASE m.type = "endpointRemoved" /\ m.from = k /\ m.eid = e
      BY <3>2, KindsOne
    <3> QED
      BY <1>2, <1>3, <3>1, <3>2
  <2> QED
    BY <1>1, <2>1, <2>2, InboxGets
<1>4. Parted(inbox', Added({k}, {e}), Added(Name, {e}), Removed({k}, {e}))
  <2>1. m \in Added(Name, {e}) => Followed(inbox, Added({k}, {e}), Removed({k}, {e}))
    <3>1. m \in Added(Name, {e}) <=> m.type = "endpointAdded" /\ m.eid = e
      BY KindsOne
    <3>2. m \in Added(Name, {e}) => e \notin eps[k[1]]
      BY <1>2, <3>1
    <3> QED
      BY <3>2 DEF FifoInv
  <2> QED
    BY <1>1, <2>1, InboxGets DEF FifoInv
<1> QED
  BY <1>3, <1>4

\* No service has a NetworkID, so endpoint ids are used once.
LEMMA OneNetwork ==
  ASSUME Steady, NEW w \in Services, NEW e
  PROVE  Unused(w, e) <=> \A x \in Services \ {w} : e \notin eps[x]
BY DEF Steady, Unused, Network

\* The lemmas above for a message that is emitted.
LEMMA BusEmits ==
  ASSUME BusInv, FirstInv, EndpointInv', NEW m, Emit(m),
         inbox' = Append(inbox, m) => BusInv' /\ (FifoInv => FifoInv')
  PROVE  BusInv' /\ (FifoInv => FifoInv')
BY Emitted, BusQuiet

\* What the services do keeps what holds of the bus.
LEMMA BusServiceStep ==
  ASSUME TypeInv, LifeInv, BusInv, FirstInv, Steady, NEW w \in Services, ServiceStep(w)
  PROVE  BusInv' /\ (~Crashes /\ FifoInv => FifoInv')
<1>1. /\ inbox \in Seq(Message) /\ Unique(w) \in Name /\ eps \in [Services -> SUBSET Eids]
      /\ up \in [Services -> BOOLEAN]
      /\ \A x \in Services : Unique(w) = Unique(x) => w = x
  BY UniqueFacts DEF TypeInv, TypeOK, BusTypeOK
<1>2. /\ \A x \in Services : ~up[x] => eps[x] = {}
      /\ \A x, y \in Services : eps[x] \cap eps[y] # {} => x = y
  BY DEF BusInv, EndpointInv
<1>3. CASE StartService(w)
  BY <1>3, BusStart
<1>4. CASE StopService(w)
  <2> DEFINE m == [type |-> "serviceRemoved", from |-> Unique(w)]
  <2>1. m \in Message /\ m.type = "serviceRemoved" /\ m.from = Unique(w)
    BY <1>1, SignalTypes
  <2>2. /\ up[w] /\ eps[w] = {} /\ up' = [up EXCEPT ![w] = FALSE] /\ Emit(m)
        /\ UNCHANGED <<life, eps>>
    BY <1>4 DEF StopService
  <2> HIDE DEF m
  <2>3. EndpointInv'
    BY <1>1, <1>2, <2>2 DEF EndpointInv
  <2>4. ASSUME inbox' = Append(inbox, m)
        PROVE  BusInv' /\ (FifoInv => FifoInv')
    <3>1. \A x \in Services : (up'[x] => up[x]) /\ (x # w => up'[x] = up[x]) /\ ~up'[w]
      BY <1>1, <2>2
    <3>2. BusInv'
      BY <1>1, <1>2, <2>1, <2>2, <2>3, <2>4, <3>1, BusMessage
    <3>3. FifoInv => FifoInv'
      BY <1>1, <1>2, <2>1, <2>2, <2>4, <3>1, FifoMessage
    <3> QED
      BY <3>2, <3>3
  <2> QED
    BY <2>2, <2>3, <2>4, BusEmits
<1>5. CASE Crashes /\ CrashService(w)
  <2>1. /\ UNCHANGED <<life, inbox>>
        /\ \A x \in Services : /\ up'[x] => up[x] /\ x # w
                               /\ x # w => eps'[x] = eps[x]
        /\ eps'[w] = {}
    BY <1>1, <1>5 DEF CrashService
  <2>2. EndpointInv'
    BY <1>1, <1>2, <1>5 DEF EndpointInv, CrashService
  <2>3. SessionInv'
    BY <2>1 DEF BusInv, SessionInv, Unique
  <2>4. PresenceInv'
    BY <2>1 DEF BusInv, PresenceInv, Unique
  <2>5. SpeechInv'
    BY <2>1 DEF BusInv, SpeechInv
  <2> QED
    BY <1>5, <2>2, <2>3, <2>4, <2>5 DEF BusInv
<1>6. ASSUME NEW e \in Eids, AddEndpoint(w, e)
      PROVE  BusInv' /\ (FifoInv => FifoInv')
  <2> DEFINE m == [type |-> "endpointAdded", from |-> Unique(w), eid |-> e]
  <2>1. /\ m \in Message /\ m.type = "endpointAdded" /\ m.from = Unique(w) /\ m.eid = e
        /\ m.type # "message"
    BY <1>1, SignalTypes
  <2>2. /\ up[w] /\ Emit(m) /\ UNCHANGED <<up, life>>
        /\ eps' = [eps EXCEPT ![w] = @ \cup {e}]
        /\ \A x \in Services : e \notin eps[x]
    BY <1>6, OneNetwork DEF AddEndpoint
  <2> HIDE DEF m
  <2>3. /\ eps'[w] = eps[w] \cup {e}
        /\ \A x \in Services : x # w => eps'[x] = eps[x]
    BY <1>1, <2>2
  <2>4. EndpointInv'
    BY <1>1, <1>2, <2>2, <2>3 DEF EndpointInv
  <2>5. ASSUME inbox' = Append(inbox, m)
        PROVE  BusInv' /\ (FifoInv => FifoInv')
    <3>1. BusInv'
      BY <1>1, <1>2, <2>1, <2>2, <2>3, <2>4, <2>5, BusMessage
    <3>2. FifoInv => FifoInv'
      BY <1>1, <1>2, <2>1, <2>2, <2>3, <2>5, FifoMessage
    <3> QED
      BY <3>1, <3>2
  <2> QED
    BY <2>2, <2>4, <2>5, BusEmits
<1>7. ASSUME NEW e \in Eids, RemoveEndpoint(w, e)
      PROVE  BusInv' /\ (FifoInv => FifoInv')
  <2> DEFINE m == [type |-> "endpointRemoved", from |-> Unique(w), eid |-> e]
  <2>1. /\ m \in Message /\ m.type = "endpointRemoved" /\ m.from = Unique(w) /\ m.eid = e
        /\ m.type # "message"
    BY <1>1, SignalTypes
  <2>2. /\ up[w] /\ Emit(m) /\ UNCHANGED <<up, life>>
        /\ eps' = [eps EXCEPT ![w] = @ \ {e}] /\ e \in eps[w]
    BY <1>7 DEF RemoveEndpoint
  <2> HIDE DEF m
  <2>3. /\ eps'[w] = eps[w] \ {e}
        /\ \A x \in Services : x # w => eps'[x] = eps[x] /\ e \notin eps[x]
    BY <1>1, <1>2, <2>2
  <2>4. EndpointInv'
    BY <1>1, <1>2, <2>2, <2>3 DEF EndpointInv
  <2>5. ASSUME inbox' = Append(inbox, m)
        PROVE  BusInv' /\ (FifoInv => FifoInv')
    <3>1. BusInv'
      BY <1>1, <1>2, <2>1, <2>2, <2>3, <2>4, <2>5, BusMessage
    <3>2. FifoInv => FifoInv'
      BY <1>1, <1>2, <2>1, <2>2, <2>3, <2>5, FifoMessage
    <3> QED
      BY <3>1, <3>2
  <2> QED
    BY <2>2, <2>4, <2>5, BusEmits
<1>8. ASSUME NEW m \in Message, Emit(m), up[w], UNCHANGED <<up, life, eps>>,
             m.type \in {"eidChanged", "message"}, m.from = Unique(w),
             m.type = "message" => m.eid \in eps[w] /\ Speaks(m.eid, m.header)
      PROVE  BusInv' /\ (FifoInv => FifoInv')
  <2>1. EndpointInv'
    BY <1>2, <1>8 DEF EndpointInv
  <2>2. ASSUME inbox' = Append(inbox, m)
        PROVE  BusInv' /\ (FifoInv => FifoInv')
    <3>1. BusInv'
      BY <1>1, <1>2, <1>8, <2>1, <2>2, BusMessage
    <3>2. FifoInv => FifoInv'
      BY <1>1, <1>2, <1>8, <2>2, FifoMessage
    <3> QED
      BY <3>1, <3>2
  <2> QED
    BY <1>8, <2>1, <2>2, BusEmits
<1>9. CASE ChangeOwnEid(w)
  <2>1. PICK own \in OwnEids : Emit([type |-> "eidChanged", from |-> Unique(w), own |-> own])
    BY <1>9 DEF ChangeOwnEid
  <2> DEFINE m == [type |-> "eidChanged", from |-> Unique(w), own |-> own]
  <2>2. m \in Message /\ m.type = "eidChanged" /\ m.from = Unique(w) /\ Emit(m)
    BY <1>1, <2>1, SignalTypes
  <2> HIDE DEF m
  <2>3. up[w] /\ UNCHANGED <<up, life, eps>>
    BY <1>9 DEF ChangeOwnEid
  <2> QED
    BY <1>8, <2>2, <2>3
<1>10. ASSUME NEW e \in Eids, SendMessage(w, e)
       PROVE  BusInv' /\ (FifoInv => FifoInv')
  <2>1. PICK h \in Headers :
          /\ Speaks(e, h)
          /\ Emit([type |-> "message", from |-> Unique(w), eid |-> e, header |-> h])
    BY <1>10 DEF SendMessage
  <2> DEFINE m == [type |-> "message", from |-> Unique(w), eid |-> e, header |-> h]
  <2>2. /\ m \in Message /\ m.type = "message" /\ m.from = Unique(w) /\ Emit(m)
        /\ m.eid = e /\ m.header = h
    BY <1>1, <2>1, SignalTypes
  <2> HIDE DEF m
  <2>3. up[w] /\ e \in eps[w] /\ UNCHANGED <<up, life, eps>>
    BY <1>10 DEF SendMessage
  <2> QED
    BY <1>8, <2>1, <2>2, <2>3
<1> QED
  BY <1>3, <1>4, <1>5, <1>6, <1>7, <1>9, <1>10 DEF ServiceStep

\* A reply joins the inbox and changes nothing else.
LEMMA AnswerReply ==
  ASSUME TypeInv, NEW call \in calls, Answer(call)
  PROVE  \E reply \in To(call.caller) :
           /\ reply \in Message /\ AnswerCall(call, reply)
           /\ reply.type \in {"services", "owner", "objects", "error"}
           /\ reply.to = call.caller
<1>1. call \in Call /\ call.caller \in Callers
  BY CallFields DEF TypeInv, TypeOK, BusTypeOK
<1>2. ASSUME NEW reply \in Message, AnswerCall(call, reply),
             reply.type \in {"services", "owner", "objects", "error"},
             reply.to = call.caller
      PROVE  \E r \in To(call.caller) :
               /\ r \in Message /\ AnswerCall(call, r)
               /\ r.type \in {"services", "owner", "objects", "error"}
               /\ r.to = call.caller
  BY <1>2, ReplyKinds
<1>3. CASE AnswerCall(call, ErrorTo(call))
  BY <1>1, <1>2, <1>3, ReplyTypes DEF ErrorTo
<1>4. CASE AnswerGetObject(call)
  <2> DEFINE r == [type |-> "services", to |-> call.caller, services |-> {w \in Bound : up[w]}]
  <2>1. r \in Message
    BY <1>1, ReplyTypes, BusAssumption
  <2> QED
    BY <1>2, <1>3, <1>4, <2>1 DEF AnswerGetObject
<1>5. CASE AnswerGetNameOwner(call)
  <2> DEFINE r == [type |-> "owner", to |-> call.caller, owner |-> Unique(call.service)]
  <2>1. r \in Message
    BY <1>1, <1>5, ReplyTypes, CallFields, UniqueFacts DEF AnswerGetNameOwner
  <2> QED
    BY <1>2, <1>3, <1>5, <2>1 DEF AnswerGetNameOwner
<1>6. CASE AnswerGetManagedObjects(call)
  <2> DEFINE r == [type |-> "objects", to |-> call.caller, eids |-> eps[call.service]]
  <2>1. call.service \in Services
    BY <1>1, <1>6, CallFields DEF AnswerGetManagedObjects
  <2>2. r \in Message
    BY <1>1, <2>1, ReplyTypes DEF TypeInv, TypeOK, BusTypeOK
  <2> QED
    BY <1>2, <1>3, <1>6, <2>2 DEF AnswerGetManagedObjects
<1> QED
  BY <1>3, <1>4, <1>5, <1>6 DEF Answer, FailCall

LEMMA BusAnswer ==
  ASSUME TypeInv, BusInv, NEW call \in calls, Answer(call)
  PROVE  BusInv' /\ (FifoInv => FifoInv')
<1>1. PICK reply \in Message :
        /\ AnswerCall(call, reply)
        /\ reply.type \in {"services", "owner", "objects", "error"}
  BY AnswerReply
<1>2. inbox' = Append(inbox, reply) /\ UNCHANGED <<up, life, eps>>
  BY <1>1 DEF AnswerCall
<1>3. EndpointInv'
  BY <1>2 DEF BusInv, EndpointInv
<1>4. BusInv'
  BY <1>1, <1>2, <1>3, BusMessage
<1>5. FifoInv => FifoInv'
  BY <1>1, <1>2, FifoMessage
<1> QED
  BY <1>4, <1>5

\* A message is read.
LEMMA BusRead ==
  ASSUME inbox \in Seq(Message), inbox # <<>>, inbox' = Tail(inbox),
         UNCHANGED <<up, life, eps>>, BusInv
  PROVE  BusInv' /\ (FifoInv => FifoInv')
<1>1. \A x : Unique(x)' = Unique(x)
  BY DEF Unique
<1>2. EndpointInv'
  BY DEF BusInv, EndpointInv
<1>3. SessionInv'
  BY <1>1, InboxRead DEF BusInv, SessionInv
<1>4. PresenceInv'
  BY <1>1, InboxRead DEF BusInv, PresenceInv
<1>5. SpeechInv'
  BY TailFacts DEF BusInv, SpeechInv
<1>6. FifoInv => FifoInv'
  BY <1>1, InboxRead DEF FifoInv
<1> QED
  BY <1>2, <1>3, <1>4, <1>5, <1>6 DEF BusInv

\* Nothing happens on the bus.
LEMMA BusStill ==
  ASSUME UNCHANGED <<inbox, up, life, eps>>, BusInv
  PROVE  BusInv' /\ (FifoInv => FifoInv')
<1>1. \A x : Unique(x)' = Unique(x)
  BY DEF Unique
<1>2. EndpointInv' /\ SpeechInv'
  BY DEF BusInv, EndpointInv, SpeechInv
<1>3. SessionInv'
  BY <1>1 DEF BusInv, SessionInv
<1>4. PresenceInv'
  BY <1>1 DEF BusInv, PresenceInv
<1>5. FifoInv => FifoInv'
  BY <1>1 DEF FifoInv
<1> QED
  BY <1>2, <1>3, <1>4, <1>5 DEF BusInv

\* Every step keeps what holds of the bus.
LEMMA BusStep ==
  ASSUME TypeInv, LifeInv, BusInv, FirstInv, Steady, [Next]_vars
  PROVE  BusInv' /\ (~Crashes /\ FifoInv => FifoInv')
<1>1. CASE UNCHANGED <<inbox, up, life, eps>>
  BY <1>1, BusStill
<1>2. CASE Dispatch
  BY <1>2, BusRead DEF Dispatch, TypeInv, TypeOK, BusTypeOK
<1>3. CASE RunSpawned \/ Application \/ UNCHANGED vars
  BY <1>1, <1>3 DEF RunSpawned, Application, DetectMctpEndpoints, RegisterResponder,
                    RegisterNothing, GetOwnEIDs, SetExtendedReceiveCallback, vars, busVars
<1>4. CASE AnyService
  BY <1>4, BusServiceStep DEF AnyService
<1>5. ASSUME NEW c \in Callers, Answers(c)
      PROVE  BusInv' /\ (~Crashes /\ FifoInv => FifoInv')
  BY <1>5, BusAnswer DEF Answers
<1> QED
  BY <1>2, <1>3, <1>4, <1>5 DEF Next

\* Initially there is no message, and endpoint ids are used once.
LEMMA BusInitially ==
  ASSUME Steady, Init
  PROVE  BusInv /\ FifoInv
<1>1. EndpointInv
  <2>1. \A w \in Services : (~up[w] => eps[w] = {}) /\ \A e \in eps[w] : Unused(w, e)
    BY DEF Init, BusInit
  <2> QED
    BY <2>1, OneNetwork DEF EndpointInv
<1>2. inbox = <<>>
  BY DEF Init, BusInit
<1>3. SessionInv
  BY <1>2, NoMessages DEF SessionInv
<1>4. PresenceInv
  BY <1>2, NoMessages DEF PresenceInv
<1>5. SpeechInv /\ FifoInv
  BY <1>2, NoMessages DEF SpeechInv, FifoInv
<1> QED
  BY <1>1, <1>3, <1>4, <1>5 DEF BusInv

-----------------------------------------------------------------------------
(* The scans, and what the services do meanwhile. *)

ScanOK(c) == CallOK(c) /\ VisitsOnce(c) /\ ServicesOK(c) /\ OwnerOK(c) /\ ObjectsOK(c)

\* A scan that waits for no reply, or for one that is not under way, waits for
\* the mapper or not at all.
LEMMA ReadingFacts ==
  ASSUME TypeInv, NEW c \in Callers, CallOK(c)
  PROVE  /\ scan[c].pc \in {"idle", "services", "owner", "objects", "done"}
         /\ scan[c].pc \in {"owner", "objects"} => Reading(c)
         /\ Occurs(inbox, To(c)) => Reading(c)
         /\ scan[c].pc \in {"idle", "done"} =>
              ~Occurs(inbox, To(c)) /\ \A call \in calls : call.caller # c
<1>1. scan[c].pc \in {"idle", "services", "owner", "objects", "done"}
  BY DEF TypeInv, TypeOK, Scan
<1>2. ASSUME scan[c].pc \in {"owner", "objects"}
      PROVE  Reading(c)
  BY <1>2 DEF Reading, CallOK, Awaited
<1>3. ASSUME scan[c].pc \in {"idle", "done"}
      PROVE  ~Occurs(inbox, To(c)) /\ \A call \in calls : call.caller # c
  <2>1. Expected(c) = {} /\ Awaited(c) = {}
    BY <1>3 DEF Expected, Awaited
  <2>2. To(c) \ {} = To(c)
    OBVIOUS
  <2> QED
    BY <2>1, <2>2 DEF CallOK
<1>4. ASSUME Occurs(inbox, To(c))
      PROVE  Reading(c)
  <2>1. scan[c].pc \notin {"idle", "done"} /\ \A call \in calls : call.caller # c
    BY <1>3, <1>4 DEF CallOK
  <2> QED
    BY <2>1 DEF Reading
<1> QED
  BY <1>1, <1>2, <1>3, <1>4

\* With no reply on its way there is none that is wrong.
LEMMA CallAlone ==
  ASSUME NEW c, ~Occurs(inbox', To(c)),
         \A call \in calls' : call.caller = c => call \in Awaited(c)'
  PROVE  CallOK(c)'
<1>1. ~Occurs(inbox', To(c) \ Expected(c)')
  BY OccursMore
<1> QED
  BY <1>1, OrderVoid DEF CallOK

\* A scan that is reading nothing is not disturbed by services that come and go.
LEMMA UnreadKeeps ==
  ASSUME TypeInv, NEW c \in Callers, ScanOK(c), ~Reading(c), UNCHANGED <<scan, calls>>,
         ~Occurs(inbox', To(c))
  PROVE  ScanOK(c)'
<1>1. scan[c].pc \notin {"owner", "objects"}
  BY ReadingFacts DEF ScanOK
<1>2. Awaited(c)' = Awaited(c)
  BY <1>1 DEF Awaited
<1>3. \A call \in calls' : call.caller = c => call \in Awaited(c)'
  BY <1>2 DEF ScanOK, CallOK
<1>4. CallOK(c)'
  BY <1>3, CallAlone
<1>5. VisitsOnce(c)'
  BY DEF ScanOK, VisitsOnce
<1>6. ServicesOK(c)'
  BY OrderVoid DEF ServicesOK
<1>7. OwnerOK(c)' /\ ObjectsOK(c)'
  BY <1>1 DEF OwnerOK, ObjectsOK
<1> QED
  BY <1>4, <1>5, <1>6, <1>7 DEF ScanOK

\* A signal joins the inbox.
LEMMA SignalReplies ==
  ASSUME TypeInv, NEW c \in Callers, ~Occurs(inbox, To(c)),
         NEW m \in Message, inbox' = Append(inbox, m) \/ inbox' = inbox,
         m.type \notin {"services", "owner", "objects", "error"}
  PROVE  ~Occurs(inbox', To(c))
<1>1. m \notin To(c) /\ inbox \in Seq(Message)
  BY ReplyKinds DEF TypeInv, TypeOK, BusTypeOK
<1> QED
  BY <1>1, InboxGets

\* A message that says nothing of the services' comings and goings is in none
\* of the sets of messages that a scan must not meet.
LEMMA Harmless ==
  ASSUME NEW m \in Message
  PROVE  /\ m.type \in {"services", "owner", "objects", "error"} \/ m.type = "eidChanged"
              => m \notin Outdated /\ \A N : m \notin Changes(N)
         /\ m.type = "message" => \A N : m \notin Changes(N)
         /\ m.type \in {"endpointAdded", "endpointRemoved", "message"}
              => (m \in Outdated <=> m.from \in NamesOf(Bound) \ Current)
<1> DEFINE N == NamesOf(Bound)
           M == N \ Current
<1>1. /\ m \in Came(N) <=> m.type = "serviceAdded" /\ m.from \in N
      /\ m \in Left(N) <=> m.type = "serviceRemoved" /\ m.from \in N
  BY Kinds
<1>2. m \in About(M) <=> m.type \in {"endpointAdded", "endpointRemoved", "message"}
                          /\ m.from \in M
  BY Kinds
<1>3. m \in Outdated <=> m \in Came(N) \/ m \in Left(N) \/ m \in About(M)
  BY DEF Outdated
<1>4. \A K : m \in Changes(K) => m.type \in {"endpointAdded", "endpointRemoved"}
  BY Kinds
<1> HIDE DEF N, M
<1>5. /\ m.type \in {"services", "owner", "objects", "error"} \/ m.type = "eidChanged"
              => m \notin Outdated /\ \A K : m \notin Changes(K)
      /\ m.type = "message" => \A K : m \notin Changes(K)
      /\ m.type \in {"endpointAdded", "endpointRemoved", "message"}
              => (m \in Outdated <=> m.from \in M)
  BY <1>1, <1>2, <1>3, <1>4
<1> QED
  BY <1>5 DEF M, N

\* The bus that is read next is the first one, and no other.
LEMMA HeadVisited ==
  ASSUME TypeInv, NEW c \in Callers, scan[c].pc \in {"owner", "objects"}
  PROVE  /\ scan[c].buses \in Seq(Services) /\ scan[c].buses # <<>>
         /\ 1 \in DOMAIN scan[c].buses /\ Head(scan[c].buses) = scan[c].buses[1]
         /\ Len(scan[c].buses) \in DOMAIN scan[c].buses
         /\ Head(scan[c].buses) \in Visits(c) /\ Visits(c) \subseteq Services
         /\ scan[c].buses[Len(scan[c].buses)] \in Visits(c)
         /\ scan[c].todo \subseteq Services
<1>1. scan[c].buses \in Seq(Services) /\ scan[c].buses # <<>> /\ scan[c].todo \subseteq Services
  BY DEF TypeInv, TypeOK, ScanShape, Scan
<1> HIDE DEF TypeInv
<1>2. /\ 1 \in DOMAIN scan[c].buses /\ Head(scan[c].buses) = scan[c].buses[1]
      /\ Len(scan[c].buses) \in DOMAIN scan[c].buses
      /\ \A i \in DOMAIN scan[c].buses : scan[c].buses[i] \in Services
  BY <1>1
<1> QED
  BY <1>1, <1>2 DEF Visits

\* A signal of a service that runs does not disturb a scan, if it changes
\* endpoints only as the services' calm permits.
LEMMA SignalKeeps ==
  ASSUME TypeInv, NEW c \in Callers, ScanOK(c), UNCHANGED <<scan, calls, up, life, matchedBuses>>,
         NEW w \in Services, up[w], NEW m \in Message, m.from = Unique(w),
         inbox' = Append(inbox, m) \/ inbox' = inbox,
         \A x \in Services : x # w => eps'[x] = eps[x],
         \/ m.type \in {"eidChanged", "message"} /\ eps' = eps
         \/ m.type \in {"endpointAdded", "endpointRemoved"}
              /\ (Reading(c) => SnapshotAhead(c, w))
  PROVE  ScanOK(c)'
<1>1. m.type \notin {"services", "owner", "objects", "error"} /\ inbox \in Seq(Message)
  BY DEF TypeInv, TypeOK, BusTypeOK
<1>2. m \notin To(c) /\ \A A : m \notin To(c) \ A
  BY <1>1, ReplyKinds
<1>3. /\ \A x : Unique(x)' = Unique(x)
      /\ Active' = Active /\ Current' = Current /\ Outdated' = Outdated
      /\ Visits(c)' = Visits(c) /\ Awaited(c)' = Awaited(c)
  BY DEF Unique, Active, Current, Outdated, Visits, Awaited
<1>4. m \notin Outdated
  <2>1. m.from \in NamesOf(Bound) => m.from \in Current
    <3>1. Unique(w)[1] = w
      BY DEF Unique
    <3> QED
      BY <3>1 DEF NamesOf, Current, Active
  <2>2. m.type \in {"eidChanged", "endpointAdded", "endpointRemoved", "message"}
    OBVIOUS
  <2> QED
    BY <2>1, <2>2, Harmless
<1>5. /\ \A A : Occurs(inbox', A) => Occurs(inbox, A) \/ m \in A
      /\ \A A, B : Closes(inbox, A, B) /\ (m \in B => ~Occurs(inbox, A))
              => Closes(inbox', A, B)
  BY <1>1, InboxGets
<1>6. VisitsOnce(c)'
  BY DEF ScanOK, VisitsOnce
<1>7. CASE ~Reading(c)
  BY <1>1, <1>7, ReadingFacts, SignalReplies, UnreadKeeps DEF ScanOK
<1>8. ASSUME Occurs(inbox, To(c)) => Expected(c)' = Expected(c)
      PROVE  CallOK(c)'
  BY <1>2, <1>3, <1>5, <1>8, CallAlone DEF ScanOK, CallOK
<1>9. CASE Reading(c) /\ scan[c].pc = "services"
  <2>1. eps' = eps /\ m.type \in {"eidChanged", "message"}
    BY <1>9 DEF SnapshotAhead
  <2>2. Expected(c)' = Expected(c)
    BY <1>3, <1>9 DEF Expected
  <2>3. ServicesOK(c)' /\ OwnerOK(c)' /\ ObjectsOK(c)'
    BY <1>3, <1>4, <1>5, <1>9 DEF ScanOK, ServicesOK, OwnerOK, ObjectsOK
  <2> QED
    BY <1>6, <1>8, <2>2, <2>3 DEF ScanOK
<1>10. CASE Reading(c) /\ scan[c].pc = "owner"
  <2>1. Expected(c)' = Expected(c)
    BY <1>3, <1>10 DEF Expected
  <2>2. ServicesOK(c)' /\ OwnerOK(c)' /\ ObjectsOK(c)'
    BY <1>3, <1>4, <1>5, <1>10 DEF ScanOK, ServicesOK, OwnerOK, ObjectsOK
  <2> QED
    BY <1>6, <1>8, <2>1, <2>2 DEF ScanOK
<1>11. CASE Reading(c) /\ scan[c].pc = "objects"
  <2> DEFINE h == Head(scan[c].buses)
  <2>1. m \in Changes(NamesOf({h})) => w = h
    <3>1. m \in Changes(NamesOf({h})) => m.from \in NamesOf({h})
      BY Kinds
    <3> QED
      BY <3>1 DEF Unique, NamesOf
  <2>2. SnapshotAhead(c, w) => w \in Visits(c) /\ (w = h => ~Occurs(inbox, To(c)))
    <3>1. SnapshotAhead(c, w) =>
            \E i \in DOMAIN scan[c].buses :
              /\ scan[c].buses[i] = w
              /\ i = 1 => \E call \in calls : call.caller = c
      BY <1>11 DEF SnapshotAhead
    <3> QED
      BY <1>11, <3>1, HeadVisited DEF Visits, ScanOK, VisitsOnce, CallOK
  <2>3. m \notin Changes(NamesOf(Bound \ Visits(c)))
    <3>1. m \in Changes(NamesOf(Bound \ Visits(c))) =>
            /\ m.from \in NamesOf(Bound \ Visits(c))
            /\ m.type \in {"endpointAdded", "endpointRemoved"}
      BY Kinds
    <3> QED
      BY <1>11, <2>2, <3>1 DEF Unique, NamesOf
  <2>4. eps' = eps \/ SnapshotAhead(c, w)
    BY <1>11
  <2>5. Occurs(inbox, To(c)) => eps'[h] = eps[h]
    BY <1>11, <2>2, <2>4, HeadVisited
  <2>6. Occurs(inbox, To(c)) => Expected(c)' = Expected(c)
    BY <1>3, <1>11, <2>5 DEF Expected
  <2>7. m \in Changes(NamesOf({h})) => ~Occurs(inbox, To(c))
    <3>1. m \in Changes(NamesOf({h})) => m.type \in {"endpointAdded", "endpointRemoved"}
      BY Kinds
    <3> QED
      BY <1>11, <2>1, <2>2, <3>1
  <2>8. \A x \in Active \ Visits(c) : eps'[x] = eps[x]
    BY <2>2, <2>4, BusAssumption DEF Active
  <2>9. MapOf(scan[c].found, Active \ Visits(c))'
    BY <1>3, <1>11, <2>8 DEF ScanOK, ObjectsOK, MapOf
  <2>10. ObjectsOK(c)'
    BY <1>3, <1>4, <1>5, <1>11, <2>3, <2>7, <2>9 DEF ScanOK, ObjectsOK
  <2>11. ServicesOK(c)' /\ OwnerOK(c)'
    BY <1>11 DEF ServicesOK, OwnerOK
  <2> QED
    BY <1>6, <1>8, <2>6, <2>10, <2>11 DEF ScanOK
<1> QED
  BY <1>7, <1>9, <1>10, <1>11 DEF Reading, TypeInv, TypeOK, Scan

\* A scan that is left alone stays right while messages are read.
LEMMA ScanKept ==
  ASSUME NEW c \in Callers, ScanOK(c), scan'[c] = scan[c], UNCHANGED <<up, life, eps>>,
         \A call : call \in calls' /\ call.caller = c => call \in calls,
         \A A : Occurs(inbox', A) => Occurs(inbox, A),
         \A A, B : Closes(inbox, A, B) => Closes(inbox', A, B),
         \A n \in Current : n \in matchedBuses => n \in matchedBuses'
  PROVE  ScanOK(c)'
<1>1. /\ \A x : Unique(x)' = Unique(x)
      /\ Active' = Active /\ Current' = Current /\ Outdated' = Outdated
  BY DEF Unique, Active, Current, Outdated
<1>2. /\ Visits(c)' = Visits(c) /\ Awaited(c)' = Awaited(c)
      /\ Expected(c)' = Expected(c)
      /\ MapOf(scan[c].found, Active \ Visits(c)) =>
           MapOf(scan[c].found, Active \ Visits(c))'
  BY <1>1 DEF Visits, Awaited, Expected, MapOf
<1>3. CallOK(c)'
  <2>1. \A call \in calls' : call.caller = c => call \in Awaited(c)'
    BY <1>2 DEF ScanOK, CallOK
  <2>2. (\E call \in calls' : call.caller = c) => ~Occurs(inbox', To(c))
    BY DEF ScanOK, CallOK
  <2> QED
    BY <1>2, <2>1, <2>2 DEF ScanOK, CallOK
<1>4. VisitsOnce(c)' /\ ServicesOK(c)'
  BY <1>1 DEF ScanOK, VisitsOnce, ServicesOK
<1>5. OwnerOK(c)'
  <2> SUFFICES ASSUME scan[c].pc = "owner"
               PROVE  OwnerOK(c)'
    BY DEF OwnerOK
  <2>1. /\ ~Occurs(inbox, Outdated)
        /\ scan[c].todo \cup Visits(c) = Active
        /\ scan[c].todo \cap Visits(c) = {}
    BY DEF ScanOK, OwnerOK
  <2>2. ASSUME NEW i \in DOMAIN scan[c].buses, i # Len(scan[c].buses)
        PROVE  Unique(scan[c].buses[i]) \in matchedBuses'
    <3>1. Unique(scan[c].buses[i]) \in matchedBuses
      BY <2>2 DEF ScanOK, OwnerOK
    <3>2. scan[c].buses[i] \in Active
      BY <2>1 DEF Visits
    <3> QED
      BY <3>1, <3>2 DEF Current
  <2> QED
    BY <1>1, <1>2, <2>1, <2>2 DEF OwnerOK
<1>6. ObjectsOK(c)'
  BY <1>1, <1>2 DEF ScanOK, ObjectsOK
<1> QED
  BY <1>3, <1>4, <1>5, <1>6 DEF ScanOK

\* A call of a scan is answered with what the scan expects.
LEMMA AnswerExpected ==
  ASSUME TypeInv, Steady, NEW call \in calls, Answer(call), ScanOK(call.caller)
  PROVE  \E reply \in Expected(call.caller) \cap Message : AnswerCall(call, reply)
<1> DEFINE c == call.caller
<1>1. call \in Awaited(c) /\ c \in Callers
  BY CallFields DEF ScanOK, CallOK, TypeInv, TypeOK, BusTypeOK
<1>2. PICK reply \in Message : AnswerCall(call, reply)
  BY AnswerReply
<1>3. ~CallsMayFail
  BY DEF Steady
<1>4. CASE scan[c].pc = "services"
  <2>1. call = [caller |-> c, method |-> "GetObject"]
    BY <1>1, <1>4 DEF Awaited
  <2>2. AnswerGetObject(call)
    BY <1>3, <2>1 DEF Answer, AnswerGetNameOwner, AnswerGetManagedObjects, FailCall
  <2>3. Active \in SUBSET Services
    BY BusAssumption DEF Active
  <2>4. \A x \in Expected(c) : x \in Message
    BY <1>1, <1>4, <2>3, ReplyTypes DEF Expected
  <2> QED
    BY <1>4, <2>1, <2>2, <2>4 DEF AnswerGetObject, Expected, Active, ErrorTo
<1>5. CASE scan[c].pc = "owner"
  <2> DEFINE w == scan[c].buses[Len(scan[c].buses)]
  <2>1. /\ call.caller = c /\ call.method = "GetNameOwner" /\ call.service = w
    BY <1>1, <1>5 DEF Awaited
  <2>2. w \in Active
    BY <1>1, <1>5, HeadVisited DEF ScanOK, OwnerOK
  <2>3. w \in Services /\ up[w]
    BY <2>2, BusAssumption DEF Active
  <2>4. AnswerGetNameOwner(call)
    BY <1>3, <2>1 DEF Answer, AnswerGetObject, AnswerGetManagedObjects, FailCall
  <2>5. AnswerCall(call, [type |-> "owner", to |-> c, owner |-> Unique(w)])
    BY <2>1, <2>3, <2>4 DEF AnswerGetNameOwner
  <2>6. [type |-> "owner", to |-> c, owner |-> Unique(w)] \in Message
    BY <1>1, <2>3, UniqueFacts, ReplyTypes
  <2> QED
    BY <1>5, <2>5, <2>6 DEF Expected
<1>6. CASE scan[c].pc = "objects"
  <2> DEFINE w == Head(scan[c].buses)
  <2>1. /\ call.caller = c /\ call.method = "GetManagedObjects" /\ call.service = w
        /\ call.life = life[w]
    BY <1>1, <1>6 DEF Awaited
  <2>2. w \in Active
    BY <1>1, <1>6, HeadVisited DEF ScanOK, ObjectsOK
  <2>3. w \in Services /\ up[w] /\ eps[w] \in SUBSET Eids
    BY <2>2, BusAssumption DEF Active, TypeInv, TypeOK, BusTypeOK
  <2>4. AnswerGetManagedObjects(call)
    BY <1>3, <2>1 DEF Answer, AnswerGetObject, AnswerGetNameOwner, FailCall
  <2>5. AnswerCall(call, [type |-> "objects", to |-> c, eids |-> eps[w]])
    BY <2>1, <2>3, <2>4 DEF AnswerGetManagedObjects
  <2>6. [type |-> "objects", to |-> c, eids |-> eps[w]] \in Message
    BY <1>1, <2>3, ReplyTypes
  <2> QED
    BY <1>6, <2>5, <2>6 DEF Expected
<1> QED
  BY <1>1, <1>4, <1>5, <1>6 DEF Awaited

\* The reply joins the inbox.
LEMMA AnswerKeeps ==
  ASSUME TypeInv, NEW c \in Callers, ScanOK(c), NEW call \in calls, ScanOK(call.caller),
         NEW reply \in Message, AnswerCall(call, reply), reply \in Expected(call.caller),
         UNCHANGED <<scan, matchedBuses>>
  PROVE  ScanOK(c)'
<1>1. /\ inbox \in Seq(Message) /\ inbox' = Append(inbox, reply)
      /\ calls' = calls \ {call} /\ UNCHANGED <<up, life, eps>>
  BY DEF TypeInv, TypeOK, BusTypeOK, AnswerCall
<1>2. /\ reply.type \in {"services", "owner", "objects", "error"}
      /\ reply.to = call.caller
  BY DEF Expected
<1>3. reply \notin Outdated /\ \A N : reply \notin Changes(N)
  BY <1>2, Harmless
<1>4. /\ \A x : Unique(x)' = Unique(x)
      /\ Active' = Active /\ Current' = Current /\ Outdated' = Outdated
  BY <1>1 DEF Unique, Active, Current, Outdated
<1>5. /\ Visits(c)' = Visits(c) /\ Awaited(c)' = Awaited(c)
      /\ Expected(c)' = Expected(c)
      /\ MapOf(scan[c].found, Active \ Visits(c)) =>
           MapOf(scan[c].found, Active \ Visits(c))'
  BY <1>1, <1>4 DEF Visits, Awaited, Expected, MapOf
<1>6. /\ \A A : Occurs(inbox', A) => Occurs(inbox, A) \/ reply \in A
      /\ \A A, B : Closes(inbox, A, B) /\ (reply \in B => ~Occurs(inbox, A))
              => Closes(inbox', A, B)
  BY <1>1, InboxGets
<1>7. reply \in To(c) => call.caller = c
  BY <1>2, ReplyKinds
<1>8. call.caller = c => \A other \in calls' : other.caller # c
  BY <1>1 DEF ScanOK, CallOK, Awaited
<1>9. call.caller = c => ~Occurs(inbox, To(c))
  BY DEF ScanOK, CallOK
<1>10. CallOK(c)'
  <2>1. \A other \in calls' : other.caller = c => other \in Awaited(c)'
    BY <1>1, <1>5 DEF ScanOK, CallOK
  <2>2. reply \notin To(c) \ Expected(c)
    BY <1>7
  <2>3. ~Occurs(inbox', To(c) \ Expected(c))
    BY <1>6, <2>2 DEF ScanOK, CallOK
  <2>4. Closes(inbox', To(c), To(c))
    BY <1>6, <1>7, <1>9 DEF ScanOK, CallOK
  <2>5. (\E other \in calls' : other.caller = c) => ~Occurs(inbox', To(c))
    BY <1>1, <1>6, <1>7, <1>8 DEF ScanOK, CallOK
  <2> QED
    BY <1>5, <2>1, <2>3, <2>4, <2>5 DEF CallOK
<1>11. VisitsOnce(c)' /\ ServicesOK(c)'
  BY <1>3, <1>4, <1>6 DEF ScanOK, VisitsOnce, ServicesOK
<1>12. OwnerOK(c)'
  BY <1>3, <1>4, <1>5, <1>6 DEF ScanOK, OwnerOK
<1>13. ObjectsOK(c)'
  BY <1>3, <1>4, <1>5, <1>6 DEF ScanOK, ObjectsOK
<1> QED
  BY <1>10, <1>11, <1>12, <1>13 DEF ScanOK

-----------------------------------------------------------------------------
(* The scans, and the replies they read. *)

\* Where no service has a NetworkID, a device is its endpoint id.
LEMMA SteadyIds ==
  ASSUME Steady, FirstInv
  PROVE  /\ \A n \in Name : getNetworkID(n) = 0
         /\ \A n \in Name, e \in Eids : getDeviceIDFromPath(e, n) = DeviceID(e, 0)
         /\ \A n \in Name : CacheNetworkID(n) => UNCHANGED networkIDCache
         /\ \A w \in Services : Network(w) = 0
         /\ \A e \in Eids : e % 256 = e /\ DeviceID(e, 0) = e /\ DeviceID(e, 0) \in DevIds
         /\ \A d \in DevIds : d \in Eids /\ d = DeviceID(d, 0)
<1>1. \A n \in Name : networkIDCache[n] = NoNetwork
  BY DEF FirstInv
<1>2. \A n \in Name : getNetworkID(n) = 0
  BY <1>1 DEF getNetworkID
<1>3. Eids \subseteq 0 .. 255 /\ NoNetwork \notin 0 .. 255
  BY BusAssumption DEF Byte
<1>4. \A e \in Eids : e % 256 = e /\ DeviceID(e, 0) = e
  BY <1>3 DEF DeviceID
<1>5. Networks = {0}
  BY DEF Networks, Steady
<1>6. /\ \A e \in Eids : DeviceID(e, 0) \in DevIds
      /\ \A d \in DevIds : d \in Eids /\ d = DeviceID(d, 0)
  BY <1>4, <1>5 DEF DevIds
<1>7. \A n \in Name, e \in Eids : getDeviceIDFromPath(e, n) = DeviceID(e, 0)
  BY <1>2, <1>4 DEF getDeviceIDFromPath
<1>8. \A n \in Name : CacheNetworkID(n) => UNCHANGED networkIDCache
  <2> SUFFICES ASSUME NEW n \in Name, CacheNetworkID(n)
               PROVE  UNCHANGED networkIDCache
    OBVIOUS
  <2>1. n[1] \in Services /\ NetworkID[n[1]] = NoNetwork
    BY DEF Name, Steady
  <2>2. [networkIDCache EXCEPT ![n] = NoNetwork] = networkIDCache
    BY DEF FirstInv
  <2> QED
    BY <2>1, <2>2 DEF CacheNetworkID
<1>9. \A w \in Services : Network(w) = 0
  BY DEF Steady, Network
<1> QED
  BY <1>2, <1>4, <1>6, <1>7, <1>8, <1>9

\* What is left of the inbox when scan c has its reply.
LEMMA ReplyRead ==
  ASSUME TypeInv, NEW c \in Callers, ScanOK(c), inbox # <<>>, inbox' = Tail(inbox),
         Head(inbox).type \in {"services", "owner", "objects", "error"}, Head(inbox).to = c
  PROVE  /\ Head(inbox) \in Expected(c) /\ ~Occurs(inbox', To(c))
         /\ \A call \in calls : call.caller # c
         /\ \A A : Occurs(inbox', A) => Occurs(inbox, A)
         /\ \A B : Closes(inbox, To(c), B) => ~Occurs(inbox', B)
<1>1. inbox \in Seq(Message) /\ Head(inbox) \in Message
  BY DEF TypeInv, TypeOK, BusTypeOK
<1>2. Head(inbox) \in To(c)
  BY <1>1, ReplyKinds
<1>3. Occurs(inbox, To(c))
  BY <1>1, <1>2, InboxRead
<1>4. Head(inbox) \in Expected(c)
  BY <1>1, <1>2, InboxRead DEF ScanOK, CallOK
<1>5. /\ \A A : Occurs(inbox', A) => Occurs(inbox, A)
      /\ \A B : Closes(inbox, To(c), B) => ~Occurs(inbox', B)
  BY <1>1, <1>2, InboxRead
<1> QED
  BY <1>3, <1>4, <1>5 DEF ScanOK, CallOK

\* What a scan that has read everything has made of it.
Snapshot ==
  /\ MapOf(endpointMap, Active) /\ Current \subseteq matchedBuses
  /\ ~Occurs(inbox, Outdated) /\ ~Occurs(inbox, Changes(NamesOf(Bound)))

\* buildMatchingEndpointMap goes on to the next bus, or is done.
LEMMA BuildMoves ==
  ASSUME TypeInv, NEW c \in Callers, NEW buses \in Seq(Services), NEW found, NEW W,
         W = {buses[i] : i \in DOMAIN buses},
         \A i, j \in DOMAIN buses : buses[i] = buses[j] => i = j,
         W \subseteq Active, Current \subseteq matchedBuses',
         ~Occurs(inbox', Outdated), ~Occurs(inbox', Changes(NamesOf(Bound \ W))),
         ~Occurs(inbox', To(c)), \A call \in calls : call.caller # c,
         MapOf(found, Active \ W), UNCHANGED <<up, life, eps>>,
         BuildMap(c, buses, found)
  PROVE  ScanOK(c)' /\ (scan'[c].pc = "done" => Snapshot')
<1>1. /\ \A x : Unique(x)' = Unique(x)
      /\ Active' = Active /\ Current' = Current /\ Outdated' = Outdated
  BY DEF Unique, Active, Current, Outdated
<1>2. \A map, V : MapOf(map, V) <=> MapOf(map, V)'
  BY DEF MapOf
<1>3. CASE buses # <<>>
  <2> DEFINE h == Head(buses)
             made == [caller |-> c, method |-> "GetManagedObjects", service |-> h,
                      life |-> IF up[h] THEN life[h] ELSE 0]
  <2>1. /\ calls' = calls \cup {made}
        /\ Suspend(c, "objects", {}, buses, found)
    BY <1>3 DEF BuildMap
  <2>2. /\ scan'[c].pc = "objects" /\ scan'[c].buses = buses
        /\ scan'[c].found = found
    BY <2>1 DEF Suspend, TypeInv, TypeOK
  <2>3. h \in W
    BY <1>3
  <2>4. up[h]
    BY <2>3 DEF Active
  <2>5. Awaited(c)' = {made}
    BY <2>2, <2>4 DEF Awaited
  <2>6. CallOK(c)'
    BY <2>1, <2>5, CallAlone
  <2>7. Visits(c)' = W
    BY <2>2 DEF Visits
  <2>8. VisitsOnce(c)' /\ ServicesOK(c)' /\ OwnerOK(c)'
    BY <2>2 DEF VisitsOnce, ServicesOK, OwnerOK
  <2>9. MapOf(scan[c].found, Active \ Visits(c))'
    BY <1>1, <2>2, <2>7 DEF MapOf
  <2>10. ObjectsOK(c)'
    BY <1>1, <2>2, <2>7, <2>9, OrderVoid DEF ObjectsOK
  <2> QED
    BY <2>2, <2>6, <2>8, <2>10 DEF ScanOK
<1>4. CASE buses = <<>>
  <2>1. endpointMap' = found /\ Return(c, FALSE) /\ calls' = calls
    BY <1>4 DEF BuildMap, FinishDetect
  <2>2. scan'[c].pc = "done" /\ scan'[c].buses = <<>>
    BY <2>1 DEF Return, TypeInv, TypeOK
  <2>3. CallOK(c)'
    BY <2>1, CallAlone
  <2>4. ScanOK(c)'
    BY <2>2, <2>3 DEF ScanOK, VisitsOnce, ServicesOK, OwnerOK, ObjectsOK
  <2>5. W = {} /\ Active \ W = Active /\ Bound \ W = Bound
    BY <1>4
  <2>6. MapOf(endpointMap, Active)'
    BY <1>1, <2>1, <2>5 DEF MapOf
  <2>7. Snapshot'
    BY <1>1, <2>5, <2>6 DEF Snapshot
  <2> QED
    BY <2>4, <2>7
<1> QED
  BY <1>3, <1>4

\* findBusByBindingType goes on to the next service, or to the endpoints.
LEMMA FindMoves ==
  ASSUME TypeInv, Steady, FirstInv, NEW c \in Callers, NEW todo, NEW buses \in Seq(Services), NEW W,
         W = {buses[i] : i \in DOMAIN buses},
         \A i, j \in DOMAIN buses : buses[i] = buses[j] => i = j,
         todo \cup W = Active, todo \cap W = {},
         \A w \in W : Unique(w) \in matchedBuses',
         ~Occurs(inbox', Outdated),
         ~Occurs(inbox', To(c)), \A call \in calls : call.caller # c,
         UNCHANGED <<up, life, eps>>,
         FindBuses(c, todo, buses)
  PROVE  ScanOK(c)' /\ (scan'[c].pc = "done" => Snapshot')
<1>1. /\ \A x : Unique(x)' = Unique(x)
      /\ Active' = Active /\ Current' = Current /\ Outdated' = Outdated
  BY DEF Unique, Active, Current, Outdated
<1>2. \A w \in todo : w \in Services /\ ~BusIdFails(w)
  BY BusAssumption DEF Steady, BusIdFails, Active
<1>3. ASSUME NEW w \in todo, NEW skipped \in SUBSET {x \in todo \ {w} : BusIdFails(x)},
             calls' = calls \cup {[caller |-> c, method |-> "GetNameOwner", service |-> w]},
             Suspend(c, "owner", todo \ (skipped \cup {w}), Append(buses, w), EmptyMap)
      PROVE  ScanOK(c)' /\ scan'[c].pc = "owner"
  <2> DEFINE more == Append(buses, w)
  <2>1. skipped = {}
    BY <1>2
  <2>2. /\ scan'[c].pc = "owner" /\ scan'[c].buses = more
        /\ scan'[c].todo = todo \ {w}
    BY <1>3, <2>1 DEF Suspend, TypeInv, TypeOK
  <2>3. w \in Services /\ w \notin W
    BY <1>2
  <2>4. /\ DOMAIN more = 1 .. (Len(buses) + 1) /\ Len(more) = Len(buses) + 1
        /\ Len(buses) \in Nat /\ DOMAIN buses = 1 .. Len(buses)
        /\ \A i \in DOMAIN buses : more[i] = buses[i]
        /\ more[Len(more)] = w
    BY <2>3
  <2> HIDE DEF more
  <2>5. /\ \A i \in DOMAIN more : i # Len(more) => i \in DOMAIN buses
        /\ \A i \in DOMAIN buses : i \in DOMAIN more
        /\ Len(more) \in DOMAIN more
    BY <2>4
  <2>6. {more[i] : i \in DOMAIN more} = W \cup {w}
    BY <2>4, <2>5
  <2>7. Visits(c)' = W \cup {w}
    BY <2>2, <2>6 DEF Visits
  <2>8. \A i, j \in DOMAIN more : more[i] = more[j] => i = j
    BY <2>3, <2>4, <2>5
  <2>9. Awaited(c)' = {[caller |-> c, method |-> "GetNameOwner", service |-> w]}
    BY <2>2, <2>4 DEF Awaited
  <2>10. CallOK(c)'
    BY <1>3, <2>9, CallAlone
  <2>11. VisitsOnce(c)' /\ ServicesOK(c)' /\ ObjectsOK(c)'
    BY <2>2, <2>8 DEF VisitsOnce, ServicesOK, ObjectsOK
  <2>12. \A i \in DOMAIN more : i # Len(more) => Unique(more[i]) \in matchedBuses'
    BY <2>4, <2>5
  <2>13. OwnerOK(c)'
    BY <1>1, <2>2, <2>3, <2>7, <2>12 DEF OwnerOK
  <2> QED
    BY <2>2, <2>10, <2>11, <2>13 DEF ScanOK
<1>4. ASSUME \A w \in todo : BusIdFails(w), BuildMap(c, buses, EmptyMap)
      PROVE  ScanOK(c)' /\ (scan'[c].pc = "done" => Snapshot')
  <2>1. todo = {} /\ W = Active
    BY <1>2, <1>4
  <2>2. Current \subseteq matchedBuses'
    BY <2>1 DEF Current
  <2>3. ~Occurs(inbox', Changes(NamesOf(Bound \ W)))
    <3>1. NamesOf(Bound \ W) \subseteq NamesOf(Bound) \ Current
      BY <2>1 DEF NamesOf, Current, Unique
    <3>2. Changes(NamesOf(Bound \ W)) \subseteq Outdated
      BY <3>1 DEF Changes, Added, Removed, About, Outdated
    <3> QED
      BY <3>2, OccursMore
  <2>4. MapOf(EmptyMap, Active \ W)
    BY <2>1, SteadyIds DEF MapOf, EmptyMap
  <2> QED
    BY <1>4, <2>1, <2>2, <2>3, <2>4, BuildMoves
<1> QED
  BY <1>3, <1>4 DEF FindBuses

\* The endpoints of one more service join the map.
LEMMA FoundMore ==
  ASSUME TypeInv, Steady, FirstInv, NEW c \in Callers, NEW V \in SUBSET Services,
         NEW w \in Services, up[w], MapOf(scan[c].found, V)
  PROVE  \A listed \in Listings(w, eps[w]) : MapOf(FoundOn(c, w, listed), V \cup {w})
<1> SUFFICES ASSUME NEW listed \in Listings(w, eps[w])
             PROVE  MapOf(FoundOn(c, w, listed), V \cup {w})
  OBVIOUS
<1> DEFINE f == FoundOn(c, w, listed)
<1>1. WellKnown(w) \in Name /\ NoService \notin Name
  BY ImplAssumption, BusAssumption DEF WellKnown, Name
<1>2. eps[w] \subseteq Eids
  BY DEF TypeInv, TypeOK, BusTypeOK
<1>3. \A e \in eps[w] : ScanAdmits(w, e) <=> Fits(e)
  BY <1>2, BusAssumption, ScanFilterExact DEF ScanAdmits, Fits
<1>l. listed = {e \in eps[w] : ScanAdmits(w, e)}
  BY DEF Listings, Steady
<1>4. \A e \in Eids :
        f[DeviceID(e, 0)] = IF e \in eps[w] /\ Fits(e) THEN WellKnown(w)
                            ELSE scan[c].found[DeviceID(e, 0)]
  <2> SUFFICES ASSUME NEW e \in Eids
               PROVE  f[DeviceID(e, 0)] = IF e \in eps[w] /\ Fits(e) THEN WellKnown(w)
                                          ELSE scan[c].found[DeviceID(e, 0)]
    OBVIOUS
  <2>1. \A x \in eps[w] : DeviceID(x % 256, getNetworkID(WellKnown(w))) = x
    BY <1>1, <1>2, SteadyIds
  <2>2. DeviceID(e, 0) = e /\ DeviceID(e, 0) \in DevIds
    BY SteadyIds
  <2>3. (\E x \in listed : e = DeviceID(x % 256, getNetworkID(WellKnown(w))))
          <=> e \in eps[w] /\ Fits(e)
    BY <1>3, <1>l, <2>1
  <2> QED
    BY <2>2, <2>3 DEF FoundOn
<1> HIDE DEF f
<1>5. ASSUME NEW x \in V \cup {w}, NEW e \in eps[x], Fits(e)
      PROVE  f[DeviceID(e, 0)] # NoService
  <2>1. e \in Eids
    BY DEF TypeInv, TypeOK, BusTypeOK
  <2> QED
    BY <1>1, <1>4, <1>5, <2>1 DEF MapOf
<1>6. ASSUME NEW e \in Eids, f[DeviceID(e, 0)] # NoService
      PROVE  \E x \in V \cup {w} : e \in eps[x] /\ f[DeviceID(e, 0)] = WellKnown(x)
  BY <1>4, <1>6 DEF MapOf
<1> QED
  BY <1>5, <1>6 DEF MapOf, f

\* The next bus has been read.
LEMMA TailVisits ==
  ASSUME NEW S, NEW s \in Seq(S), s # <<>>,
         \A i, j \in DOMAIN s : s[i] = s[j] => i = j
  PROVE  /\ Tail(s) \in Seq(S)
         /\ \A i, j \in DOMAIN Tail(s) : Tail(s)[i] = Tail(s)[j] => i = j
         /\ {Tail(s)[i] : i \in DOMAIN Tail(s)} = {s[i] : i \in DOMAIN s} \ {Head(s)}
<1>1. Tail(s) \in Seq(S) /\ 1 \in DOMAIN s /\ Head(s) = s[1]
  BY TailFacts
<1>2. \A i, j \in DOMAIN Tail(s) : Tail(s)[i] = Tail(s)[j] => i = j
  <2> SUFFICES ASSUME NEW i \in DOMAIN Tail(s), NEW j \in DOMAIN Tail(s),
                      Tail(s)[i] = Tail(s)[j]
               PROVE  i = j
    OBVIOUS
  <2>1. i \in Nat /\ j \in Nat /\ i + 1 = j + 1
    BY TailFacts
  <2> QED
    BY <2>1
<1>3. \A i \in DOMAIN Tail(s) : Tail(s)[i] \in {s[k] : k \in DOMAIN s} \ {Head(s)}
  <2> SUFFICES ASSUME NEW i \in DOMAIN Tail(s)
               PROVE  Tail(s)[i] \in {s[k] : k \in DOMAIN s} \ {Head(s)}
    OBVIOUS
  <2>1. i \in Nat \ {0} /\ i + 1 \in DOMAIN s /\ Tail(s)[i] = s[i + 1]
    BY TailFacts
  <2>2. i + 1 # 1
    BY <2>1
  <2> QED
    BY <1>1, <2>1, <2>2
<1>4. \A i \in DOMAIN s : s[i] # Head(s) => \E k \in DOMAIN Tail(s) : Tail(s)[k] = s[i]
  BY <1>1, TailFacts
<1> QED
  BY <1>1, <1>2, <1>3, <1>4

\* A scan reads the reply it waits for.
LEMMA ReplyMoves ==
  ASSUME TypeInv, Steady, FirstInv, SessionInv, NEW c \in Callers, ScanOK(c),
         Dispatch, Head(inbox).type \in {"services", "owner", "objects", "error"},
         Head(inbox).to = c
  PROVE  /\ ScanOK(c)'
         /\ scan'[c].pc = "done" =>
              \/ Snapshot'
              \/ /\ Active' = {} /\ ~Occurs(inbox', Outdated')
                 /\ UNCHANGED <<endpointMap, matchedBuses>>
<1> DEFINE m == Head(inbox)
           locals == scan[c]
           W == {locals.buses[i] : i \in DOMAIN locals.buses}
<1>1. /\ inbox \in Seq(Message) /\ m \in Message /\ inbox # <<>> /\ inbox' = Tail(inbox)
      /\ UNCHANGED <<up, life, eps>>
      /\ m.type \in {"services", "owner", "objects", "error"} /\ m.to = c
  BY DEF Dispatch, TypeInv, TypeOK, BusTypeOK
<1>2. /\ m \in Expected(c) /\ ~Occurs(inbox', To(c))
      /\ \A call \in calls : call.caller # c
      /\ \A A : Occurs(inbox', A) => Occurs(inbox, A)
      /\ \A B : Closes(inbox, To(c), B) => ~Occurs(inbox', B)
  BY <1>1, ReplyRead
<1>3. W = Visits(c) /\ \A i, j \in DOMAIN locals.buses : locals.buses[i] = locals.buses[j] => i = j
  BY DEF Visits, ScanOK, VisitsOnce
<1>4. \/ OnServices(m) \/ OnMapperError(m) \/ OnOwner(m) \/ OnObjects(m)
      \/ OnObjectsError(m)
  BY <1>1 DEF Dispatch, OnNewService, OnNewEID, OnEIDRemoved, OnServiceRemoved,
              OnOwnEIDChange, IgnoreEvent, OnMessageReceived
<1>5. /\ Active \subseteq Services /\ \A x : Unique(x)' = Unique(x) /\ Active' = Active
      /\ Outdated' = Outdated
  BY <1>1, BusAssumption DEF Active, Unique, Current, Outdated
<1>6. CASE OnServices(m)
  <2>1. m.services = Active /\ FindBuses(c, m.services, <<>>) /\ scan[c].pc = "services"
    BY <1>1, <1>2, <1>6 DEF OnServices, Expected
  <2>2. ~Occurs(inbox', Outdated)
    BY <1>2, <2>1 DEF ScanOK, ServicesOK
  <2>3. <<>> \in Seq(Services) /\ {<<>>[i] : i \in DOMAIN <<>>} = {}
    OBVIOUS
  <2>4. ScanOK(c)' /\ (scan'[c].pc = "done" => Snapshot')
    <3> DEFINE b == <<>>
    <3>1. /\ b \in Seq(Services) /\ {} = {b[i] : i \in DOMAIN b}
          /\ \A i, j \in DOMAIN b : b[i] = b[j] => i = j
          /\ FindBuses(c, Active, b)
      BY <2>1, <2>3
    <3> HIDE DEF b
    <3> QED
      BY <1>1, <1>2, <2>2, <3>1, FindMoves
  <2> QED
    BY <2>4
<1>7. CASE OnMapperError(m)
  <2>1. /\ scan[c].pc = "services" /\ Return(c, TRUE)
        /\ UNCHANGED <<endpointMap, matchedBuses, calls>>
    BY <1>1, <1>7 DEF OnMapperError, FinishDetect
  <2>2. Active = {}
    BY <1>2, <1>7, <2>1 DEF Expected, OnMapperError
  <2>3. scan'[c].pc = "done" /\ scan'[c].buses = <<>>
    BY <2>1 DEF Return, TypeInv, TypeOK
  <2>4. CallOK(c)'
    BY <1>2, <2>1, CallAlone
  <2>5. ScanOK(c)'
    BY <2>3, <2>4 DEF ScanOK, VisitsOnce, ServicesOK, OwnerOK, ObjectsOK
  <2>6. ~Occurs(inbox', Outdated)
    BY <1>2, <2>1 DEF ScanOK, ServicesOK
  <2> QED
    BY <1>5, <2>1, <2>2, <2>5, <2>6
<1>8. CASE OnOwner(m)
  <2> DEFINE last == locals.buses[Len(locals.buses)]
  <2>1. /\ scan[c].pc = "owner" /\ FindBuses(c, locals.todo, locals.buses)
        /\ matchedBuses' = matchedBuses \cup {NameToMatch(m, last)}
    BY <1>1, <1>8 DEF OnOwner
  <2>2. NameToMatch(m, last) = Unique(last)
    BY <1>2, <2>1 DEF Expected, NameToMatch
  <2>3. /\ ~Occurs(inbox, Outdated)
        /\ locals.todo \cup W = Active /\ locals.todo \cap W = {}
        /\ \A i \in DOMAIN locals.buses :
             i # Len(locals.buses) => Unique(locals.buses[i]) \in matchedBuses
    BY <1>3, <2>1 DEF ScanOK, OwnerOK
  <2>4. \A w \in W : Unique(w) \in matchedBuses'
    BY <2>1, <2>2, <2>3
  <2>5. locals.buses \in Seq(Services)
    BY <2>1, HeadVisited
  <2>6. ~Occurs(inbox', Outdated)
    BY <1>2, <2>3
  <2>7. ScanOK(c)' /\ (scan'[c].pc = "done" => Snapshot')
    BY <1>1, <1>2, <1>3, <2>1, <2>3, <2>4, <2>5, <2>6, FindMoves
  <2> QED
    BY <2>7
<1>9. CASE OnObjects(m)
  <2> DEFINE w == Head(locals.buses)
             rest == Tail(locals.buses)
  <2>1. /\ scan[c].pc = "objects" /\ m.type = "objects"
        /\ \E listed \in Listings(w, m.eids) : BuildMap(c, rest, FoundOn(c, w, listed))
    BY <1>1, <1>9 DEF OnObjects
  <2>2. m.eids = eps[w]
    BY <1>2, <2>1 DEF Expected
  <2>l. PICK listed \in Listings(w, eps[w]) : BuildMap(c, rest, FoundOn(c, w, listed))
    BY <2>1, <2>2
  <2> DEFINE f == FoundOn(c, w, listed)
  <2>3. /\ locals.buses \in Seq(Services) /\ locals.buses # <<>> /\ w \in Visits(c)
    BY <2>1, HeadVisited
  <2>4. /\ ~Occurs(inbox, Outdated) /\ Current \subseteq matchedBuses
        /\ W \subseteq Active /\ ~Occurs(inbox, Changes(NamesOf(Bound \ W)))
        /\ Closes(inbox, To(c), Changes(NamesOf({w})))
        /\ MapOf(locals.found, Active \ W)
    BY <1>3, <2>1 DEF ScanOK, ObjectsOK
  <2>5. /\ rest \in Seq(Services)
        /\ \A i, j \in DOMAIN rest : rest[i] = rest[j] => i = j
        /\ {rest[i] : i \in DOMAIN rest} = W \ {w}
    BY <1>3, <2>3, TailVisits
  <2>6. w \in Active /\ w \in Services /\ up[w] /\ w \in Bound
    BY <1>3, <2>3, <2>4, BusAssumption DEF Active
  <2>7. MapOf(f, (Active \ W) \cup {w})
    BY <1>5, <2>4, <2>6, FoundMore
  <2>8. (Active \ W) \cup {w} = Active \ (W \ {w})
    BY <2>6
  <2>9. ~Occurs(inbox', Changes(NamesOf(Bound \ (W \ {w}))))
    <3>1. ~Occurs(inbox', Changes(NamesOf(Bound \ W))) /\ ~Occurs(inbox', Changes(NamesOf({w})))
      BY <1>2, <2>4
    <3>2. Changes(NamesOf(Bound \ (W \ {w}))) \subseteq
            Changes(NamesOf(Bound \ W)) \cup Changes(NamesOf({w}))
      BY DEF Changes, NamesOf, Added, Removed
    <3> QED
      BY <3>1, <3>2 DEF Occurs
  <2>10. ~Occurs(inbox', Outdated) /\ matchedBuses' = matchedBuses
    BY <1>2, <1>9, <2>4 DEF OnObjects
  <2>11. ScanOK(c)' /\ (scan'[c].pc = "done" => Snapshot')
    <3> HIDE DEF W, rest, f, locals
    <3> DEFINE V == W \ {w}
    <3>1. /\ V = {rest[i] : i \in DOMAIN rest} /\ V \subseteq Active
          /\ MapOf(f, Active \ V) /\ ~Occurs(inbox', Changes(NamesOf(Bound \ V)))
          /\ BuildMap(c, rest, f) /\ Current \subseteq matchedBuses'
      BY <2>l, <2>4, <2>5, <2>7, <2>8, <2>9, <2>10 DEF f
    <3> HIDE DEF V
    <3> QED
      BY <1>1, <1>2, <2>5, <2>10, <3>1, BuildMoves
  <2> QED
    BY <2>11
<1>10. CASE OnObjectsError(m)
  BY <1>2, <1>10 DEF OnObjectsError, Expected
<1> QED
  BY <1>4, <1>6, <1>7, <1>8, <1>9, <1>10

-----------------------------------------------------------------------------
(* Before the first scan. *)

\* Where a scan stands after it has read a reply.
LEMMA BuildGoes ==
  ASSUME TypeInv, NEW c \in Callers, NEW buses, NEW found, BuildMap(c, buses, found)
  PROVE  /\ scan'[c].pc \in {"objects", "done"}
         /\ scan'[c].pc # "done" => UNCHANGED endpointMap
         /\ \A d \in Callers : d # c => scan'[d] = scan[d]
BY DEF BuildMap, Suspend, Return, TypeInv, TypeOK

LEMMA FindGoes ==
  ASSUME TypeInv, NEW c \in Callers, NEW todo, NEW buses, FindBuses(c, todo, buses)
  PROVE  /\ \/ isInitialisationsDone' /\ scan'[c].pc \in {"objects", "done"}
            \/ UNCHANGED <<isInitialisationsDone, endpointMap>> /\ scan'[c].pc = "owner"
         /\ scan'[c].pc # "done" => UNCHANGED endpointMap
         /\ \A d \in Callers : d # c => scan'[d] = scan[d]
<1>1. CASE BuildMap(c, buses, EmptyMap) /\ isInitialisationsDone' = TRUE
  BY <1>1, BuildGoes
<1>2. ASSUME NEW left, NEW next, Suspend(c, "owner", left, next, EmptyMap)
      PROVE  /\ \A d \in Callers : d # c => scan'[d] = scan[d]
             /\ scan'[c].pc = "owner"
  BY <1>2 DEF Suspend, TypeInv, TypeOK
<1> QED
  BY <1>1, <1>2 DEF FindBuses

\* A reply moves one scan on.
LEMMA ReplyGoes ==
  ASSUME TypeInv, Dispatch, NEW m, m = Head(inbox), NEW c, c = m.to,
         m.type \in {"services", "owner", "objects", "error"}
  PROVE  /\ c \in Callers
         /\ \A d \in Callers : d # c => scan'[d] = scan[d]
         /\ \/ scan[c].pc \in {"services", "owner"} /\ scan'[c].pc = "owner"
                 /\ UNCHANGED <<isInitialisationsDone, endpointMap>>
            \/ isInitialisationsDone' /\ scan'[c].pc \in {"objects", "done"}
            \/ scan[c].pc = "objects" /\ scan'[c].pc \in {"objects", "done"}
                 /\ UNCHANGED isInitialisationsDone
         /\ scan'[c].pc # "done" => UNCHANGED endpointMap
         /\ UNCHANGED spawned
         /\ networkIDCache' = networkIDCache \/ \E w \in Services :
              CacheNetworkID(WellKnown(w))
<1>1. m \in Message /\ m.type \in {"services", "owner", "objects", "error"}
  BY DEF Dispatch, TypeInv, TypeOK, BusTypeOK
<1>2. c \in Callers
  BY <1>1, MessageFields
<1>3. \/ OnServices(m) \/ OnMapperError(m) \/ OnOwner(m) \/ OnObjects(m)
      \/ OnObjectsError(m)
  BY <1>1 DEF Dispatch, OnNewService, OnNewEID, OnEIDRemoved, OnServiceRemoved,
              OnOwnEIDChange, IgnoreEvent, OnMessageReceived
<1>4. CASE OnServices(m)
  BY <1>2, <1>4, FindGoes DEF OnServices
<1>5. CASE OnMapperError(m)
  BY <1>2, <1>5 DEF OnMapperError, Return, TypeInv, TypeOK
<1>6. CASE OnOwner(m)
  BY <1>2, <1>6, FindGoes DEF OnOwner
<1>7. CASE OnObjects(m)
  <2>1. /\ scan[c].pc = "objects" /\ UNCHANGED <<isInitialisationsDone, spawned>>
        /\ CacheNetworkID(WellKnown(Head(scan[c].buses)))
        /\ \E found : BuildMap(c, Tail(scan[c].buses), found)
    BY <1>7 DEF OnObjects
  <2>2. Head(scan[c].buses) \in Services
    BY <1>2, <2>1, HeadVisited
  <2> QED
    BY <1>2, <2>1, <2>2, BuildGoes
<1>8. CASE OnObjectsError(m)
  BY <1>2, <1>8, BuildGoes DEF OnObjectsError
<1> QED
  BY <1>3, <1>4, <1>5, <1>6, <1>7, <1>8

\* It matches at most the service whose owner was asked for.
LEMMA ReplyMatches ==
  ASSUME TypeInv, Dispatch, NEW c, c = Head(inbox).to, ScanOK(c),
         Head(inbox).type \in {"services", "owner", "objects", "error"}
  PROVE  matchedBuses \subseteq matchedBuses' /\ matchedBuses' \subseteq matchedBuses \cup Current
<1> DEFINE m == Head(inbox)
           last == scan[c].buses[Len(scan[c].buses)]
<1>1. m \in Message /\ m.type \in {"services", "owner", "objects", "error"} /\ c = m.to
  BY DEF Dispatch, TypeInv, TypeOK, BusTypeOK
<1>2. c \in Callers /\ inbox # <<>> /\ inbox' = Tail(inbox)
  BY <1>1, MessageFields DEF Dispatch
<1>3. m \in Expected(c)
  BY <1>1, <1>2, ReplyRead
<1>4. \/ OnServices(m) \/ OnMapperError(m) \/ OnOwner(m) \/ OnObjects(m)
      \/ OnObjectsError(m)
  BY <1>1 DEF Dispatch, OnNewService, OnNewEID, OnEIDRemoved, OnServiceRemoved,
              OnOwnEIDChange, IgnoreEvent, OnMessageReceived
<1> HIDE DEF m
<1>5. CASE OnOwner(m)
  <2>1. /\ scan[c].pc = "owner"
        /\ matchedBuses' = matchedBuses \cup {NameToMatch(m, last)}
    BY <1>1, <1>5 DEF OnOwner
  <2>2. NameToMatch(m, last) = Unique(last)
    BY <1>3, <2>1 DEF Expected, NameToMatch
  <2>3. last \in Active
    BY <1>2, <2>1, HeadVisited DEF ScanOK, OwnerOK
  <2> QED
    BY <2>1, <2>2, <2>3 DEF Current
<1> QED
  BY <1>4, <1>5 DEF OnServices, OnMapperError, OnObjects, OnObjectsError

\* A signal leaves the scans and the calls as they are.
LEMMA SignalGoes ==
  ASSUME TypeInv, Dispatch, Head(inbox).type \notin {"services", "owner", "objects", "error"}
  PROVE  /\ UNCHANGED <<scan, calls, isInitialisationsDone>>
         /\ UNCHANGED <<endpointMap, spawned>> \/ isInitialisationsDone
         /\ networkIDCache' = networkIDCache \/ \E n \in Name :
              CacheNetworkID(n)
<1> DEFINE m == Head(inbox)
<1>1. m \in Message /\ m.type \notin {"services", "owner", "objects", "error"}
  BY DEF Dispatch, TypeInv, TypeOK, BusTypeOK
<1>2. m.from \in Name
  BY <1>1 DEF Message, Signal, Reply
<1>3. \/ OnNewService(m) \/ OnNewEID(m) \/ OnEIDRemoved(m) \/ OnServiceRemoved(m)
      \/ OnOwnEIDChange(m) \/ IgnoreEvent(m) \/ OnMessageReceived(m)
  BY <1>1 DEF Dispatch, OnServices, OnMapperError, OnOwner, OnObjects, OnObjectsError
<1> HIDE DEF m
<1>4. CASE OnNewService(m) \/ OnServiceRemoved(m) \/ OnOwnEIDChange(m) \/ IgnoreEvent(m)
  BY <1>4 DEF OnNewService, OnServiceRemoved, OnOwnEIDChange, IgnoreEvent, libVars
<1>5. CASE OnNewEID(m) \/ OnEIDRemoved(m) \/ OnMessageReceived(m)
  BY <1>2, <1>5 DEF OnNewEID, OnEIDRemoved, OnMessageReceived, Heard
<1> QED
  BY <1>3, <1>4, <1>5

LEMMA FirstStep ==
  ASSUME TypeInv, Steady, FirstInv, ScanInv, [Next]_vars
  PROVE  FirstInv'
<1>1. CASE UNCHANGED <<watching, scan, endpointMap, spawned, isInitialisationsDone, networkIDCache>>
             /\ (~watching => inbox' = <<>>)
  BY <1>1 DEF FirstInv, Entries
<1>2. CASE Dispatch
  <2>1. inbox # <<>> /\ watching'
    BY <1>2 DEF Dispatch, FirstInv
  <2>2. \A w \in Services : WellKnown(w) \in Name
    BY BusAssumption DEF WellKnown, Name
  <2>3. CASE Head(inbox).type \in {"services", "owner", "objects", "error"}
    <3>1. networkIDCache' = networkIDCache
      BY <1>2, <2>2, <2>3, ReplyGoes, SteadyIds
    <3>2. isInitialisationsDone' <=> \E c \in Callers : scan'[c].pc \in {"objects", "done"}
      BY <1>2, <2>3, ReplyGoes DEF FirstInv
    <3>3. ~isInitialisationsDone' => Entries(endpointMap') = {} /\ spawned' = <<>>
      BY <1>2, <2>3, ReplyGoes DEF FirstInv
    <3> QED
      BY <2>1, <3>1, <3>2, <3>3 DEF FirstInv, Entries
  <2>4. CASE Head(inbox).type \notin {"services", "owner", "objects", "error"}
    <3>1. networkIDCache' = networkIDCache
      BY <1>2, <2>4, SignalGoes, SteadyIds
    <3> QED
      BY <1>2, <2>1, <2>4, <3>1, SignalGoes DEF FirstInv, Entries
  <2> QED
    BY <2>3, <2>4
<1>3. CASE RunSpawned
  <2>1. isInitialisationsDone
    BY <1>3 DEF FirstInv, RunSpawned
  <2> QED
    BY <1>3, <2>1 DEF FirstInv, RunSpawned, busVars, Entries
<1>4. ASSUME NEW c \in Callers, DetectMctpEndpoints(c)
      PROVE  FirstInv'
  <2>1. /\ watching' /\ scan[c].pc = "idle"
        /\ UNCHANGED <<inbox, endpointMap, spawned, isInitialisationsDone, networkIDCache>>
        /\ scan'[c].pc = "services" /\ \A d \in Callers : d # c => scan'[d] = scan[d]
    BY <1>4 DEF DetectMctpEndpoints, listenForMCTPChanges, Suspend, TypeInv, TypeOK
  <2> QED
    BY <2>1 DEF FirstInv, Entries
<1>5. CASE Application
  BY <1>1, <1>4, <1>5 DEF Application, RegisterResponder, RegisterNothing, GetOwnEIDs,
       SetExtendedReceiveCallback, busVars, libVars, FirstInv
<1>6. CASE AnyService
  <2>1. watching' = watching /\ (~watching => inbox' = <<>>)
    BY <1>6 DEF AnyService, ServiceStep, StartService, StopService, CrashService,
         AddEndpoint, RemoveEndpoint, ChangeOwnEid, SendMessage, Emit, FirstInv
  <2> QED
    BY <1>1, <1>6, <2>1 DEF AnyService, libVars
<1>7. ASSUME NEW c \in Callers, Answers(c)
      PROVE  FirstInv'
  <2>1. PICK call \in calls : call.caller = c /\ Answer(call)
    BY <1>7 DEF Answers
  <2>2. scan[c].pc # "idle"
    BY <2>1 DEF ScanInv, CallOK, Awaited
  <2>3. watching' = watching
    BY <2>1, AnswerReply DEF AnswerCall
  <2> QED
    BY <1>1, <1>7, <2>2, <2>3 DEF Answers, libVars, FirstInv
<1>8. CASE UNCHANGED vars
  BY <1>1, <1>8 DEF vars, busVars, libVars, FirstInv
<1> QED
  BY <1>2, <1>3, <1>5, <1>6, <1>7, <1>8 DEF Next

LEMMA FirstInitially == ASSUME Init PROVE FirstInv
BY DEF Init, BusInit, FirstInv, Entries, EmptyMap

-----------------------------------------------------------------------------
(* The scans: every step. *)

\* A signal that is read leaves the running services matched.
LEMMA MatchedStay ==
  ASSUME TypeInv, SessionInv, Dispatch
  PROVE  \A n \in Current : n \in matchedBuses => n \in matchedBuses'
<1> DEFINE m == Head(inbox)
<1>1. m \in Message /\ inbox \in Seq(Message) /\ inbox # <<>> /\ inbox' = Tail(inbox)
  BY DEF Dispatch, TypeInv, TypeOK, BusTypeOK
<1>2. CASE OnServiceRemoved(m)
  <2>1. m.type = "serviceRemoved" /\ matchedBuses' = matchedBuses \ {m.from}
    BY <1>2 DEF OnServiceRemoved
  <2>2. m \in Left({m.from})
    BY <1>1, <2>1, KindsOne
  <2>3. Occurs(inbox, Left({m.from}))
    BY <1>1, <2>2, InboxRead
  <2>4. \A w \in Services : up[w] => Unique(w) # m.from
    BY <2>3 DEF SessionInv
  <2> QED
    BY <2>1, <2>4, BusAssumption DEF Current, Active
<1>3. CASE ~OnServiceRemoved(m)
  BY <1>3 DEF Dispatch, OnServices, OnMapperError, OnOwner, OnObjects, OnObjectsError,
              OnNewService, OnNewEID, OnEIDRemoved, OnOwnEIDChange, IgnoreEvent,
              OnMessageReceived, libVars
<1> QED
  BY <1>2, <1>3

LEMMA ScanDispatch ==
  ASSUME TypeInv, Steady, FirstInv, SessionInv, ScanInv, Dispatch, NEW c \in Callers
  PROVE  ScanOK(c)'
<1> DEFINE m == Head(inbox)
<1>1. /\ inbox \in Seq(Message) /\ inbox # <<>> /\ inbox' = Tail(inbox)
      /\ UNCHANGED <<up, life, eps>> /\ m \in Message
  BY DEF Dispatch, TypeInv, TypeOK, BusTypeOK
<1>2. ScanOK(c)
  BY DEF ScanInv, ScanOK
<1>3. /\ \A A : Occurs(inbox', A) => Occurs(inbox, A)
      /\ \A A, B : Closes(inbox, A, B) => Closes(inbox', A, B)
  BY <1>1, InboxRead
<1>4. CASE m.type \notin {"services", "owner", "objects", "error"}
  BY <1>1, <1>2, <1>3, <1>4, SignalGoes, MatchedStay, ScanKept
<1>5. CASE m.type \in {"services", "owner", "objects", "error"} /\ m.to = c
  BY <1>2, <1>5, ReplyMoves
<1>6. CASE m.type \in {"services", "owner", "objects", "error"} /\ m.to # c
  <2>1. scan'[c] = scan[c]
    BY <1>6, ReplyGoes
  <2>2. \A call : call \in calls' /\ call.caller = c => call \in calls
    <3>1. ASSUME NEW k, NEW buses, NEW found, BuildMap(k, buses, found),
                 NEW call \in calls', call.caller # k
          PROVE  call \in calls
      <4> DEFINE made == [caller |-> k, method |-> "GetManagedObjects", service |-> Head(buses),
                          life |-> IF up[Head(buses)] THEN life[Head(buses)] ELSE 0]
      <4>1. made.caller = k
        OBVIOUS
      <4> HIDE DEF made
      <4>2. calls' = calls \cup {made} \/ calls' = calls
        BY <3>1 DEF BuildMap, FinishDetect, made
      <4> QED
        BY <3>1, <4>1, <4>2
    <3>2. ASSUME NEW k, NEW todo, NEW buses, FindBuses(k, todo, buses),
                 NEW call \in calls', call.caller # k
          PROVE  call \in calls
      <4>1. ASSUME NEW w,
                   calls' = calls \cup {[caller |-> k, method |-> "GetNameOwner", service |-> w]}
            PROVE  call \in calls
        <5> DEFINE made == [caller |-> k, method |-> "GetNameOwner", service |-> w]
        <5>1. made.caller = k
          OBVIOUS
        <5> HIDE DEF made
        <5> QED
          BY <3>2, <4>1, <5>1 DEF made
      <4> QED
        BY <3>1, <3>2, <4>1 DEF FindBuses
    <3>3. \/ OnServices(m) \/ OnMapperError(m) \/ OnOwner(m) \/ OnObjects(m)
          \/ OnObjectsError(m)
      BY <1>6 DEF Dispatch, OnNewService, OnNewEID, OnEIDRemoved, OnServiceRemoved,
                  OnOwnEIDChange, IgnoreEvent, OnMessageReceived
    <3>4. CASE OnServices(m) \/ OnOwner(m)
      BY <1>6, <3>2, <3>4 DEF OnServices, OnOwner
    <3>5. CASE OnObjects(m) \/ OnObjectsError(m)
      BY <1>6, <3>1, <3>5 DEF OnObjects, OnObjectsError
    <3>6. CASE OnMapperError(m)
      BY <3>6 DEF OnMapperError, FinishDetect
    <3> QED
      BY <3>3, <3>4, <3>5, <3>6
  <2> HIDE DEF m
  <2> QED
    BY <1>1, <1>2, <1>3, <2>1, <2>2, MatchedStay, ScanKept
<1> QED
  BY <1>4, <1>5, <1>6

\* A scan that is not at work expects nothing, whatever services do.
LEMMA ScanServiceStep ==
  ASSUME TypeInv, Steady, FirstInv, ScanInv, NEW w \in Services, ServiceStep(w),
         UNCHANGED <<scan, matchedBuses>>, NEW c \in Callers
  PROVE  ScanOK(c)'
<1>1. /\ inbox \in Seq(Message) /\ Unique(w) \in Name /\ ScanOK(c)
      /\ up \in [Services -> BOOLEAN] /\ eps \in [Services -> SUBSET Eids]
      /\ w \in Services
  BY UniqueFacts DEF TypeInv, TypeOK, BusTypeOK, ScanInv, ScanOK
<1>2. CASE ServicesMayChange /\ (StartService(w) \/ StopService(w) \/ CrashService(w))
  <2>1. ~Reading(c)
    BY <1>2 DEF Steady, ServicesMayChange
  <2>2. ~Occurs(inbox, To(c)) /\ UNCHANGED calls
    BY <1>1, <1>2, <2>1, ReadingFacts DEF ScanOK, StartService, StopService, CrashService
  <2>3. \/ inbox' = inbox
        \/ \E m \in Message : inbox' = Append(inbox, m)
             /\ m.type \notin {"services", "owner", "objects", "error"}
    <3>1. CASE StartService(w)
      <4>1. <<w, life[w] + 1>> \in Name
        BY <3>1, BusAssumption DEF StartService, TypeInv, TypeOK, BusTypeOK, Name
      <4> QED
        BY <3>1, <4>1, SignalTypes DEF StartService, Emit
    <3>2. CASE StopService(w)
      BY <1>1, <3>2, SignalTypes DEF StopService, Emit
    <3> QED
      BY <1>2, <3>1, <3>2 DEF CrashService
  <2>4. ~Occurs(inbox', To(c))
    BY <2>2, <2>3, SignalReplies
  <2> QED
    BY <1>1, <2>1, <2>2, <2>4, UnreadKeeps
<1>3. ASSUME EndpointsMayChange(w), NEW e \in Eids, AddEndpoint(w, e) \/ RemoveEndpoint(w, e)
      PROVE  ScanOK(c)'
  <2>1. PICK t \in {"endpointAdded", "endpointRemoved"} :
          Emit([type |-> t, from |-> Unique(w), eid |-> e])
    BY <1>3 DEF AddEndpoint, RemoveEndpoint
  <2> DEFINE m == [type |-> t, from |-> Unique(w), eid |-> e]
  <2>2. /\ m \in Message /\ m.type \in {"endpointAdded", "endpointRemoved"}
        /\ m.from = Unique(w) /\ (inbox' = Append(inbox, m) \/ inbox' = inbox)
    BY <1>1, <2>1, SignalTypes DEF Emit
  <2> HIDE DEF m
  <2>3. /\ up[w] /\ UNCHANGED <<calls, up, life>>
        /\ \A x \in Services : x # w => eps'[x] = eps[x]
    BY <1>1, <1>3 DEF AddEndpoint, RemoveEndpoint
  <2>4. Reading(c) => SnapshotAhead(c, w)
    BY <1>3 DEF EndpointsMayChange, Steady
  <2> QED
    BY <1>1, <2>2, <2>3, <2>4, SignalKeeps
<1>4. ASSUME NEW m \in Message, Emit(m), m.type \in {"eidChanged", "message"},
             m.from = Unique(w), up[w], UNCHANGED <<calls, up, life, eps>>
      PROVE  ScanOK(c)'
  <2>1. inbox' = Append(inbox, m) \/ inbox' = inbox
    BY <1>4 DEF Emit
  <2> QED
    BY <1>1, <1>4, <2>1, SignalKeeps
<1>5. CASE ChangeOwnEid(w)
  <2>1. PICK own \in OwnEids : Emit([type |-> "eidChanged", from |-> Unique(w), own |-> own])
    BY <1>5 DEF ChangeOwnEid
  <2> DEFINE m == [type |-> "eidChanged", from |-> Unique(w), own |-> own]
  <2>2. m \in Message /\ m.type = "eidChanged" /\ m.from = Unique(w) /\ Emit(m)
    BY <1>1, <2>1, SignalTypes
  <2> HIDE DEF m
  <2>3. up[w] /\ UNCHANGED <<calls, up, life, eps>>
    BY <1>5 DEF ChangeOwnEid
  <2> QED
    BY <1>4, <2>2, <2>3
<1>6. ASSUME NEW e \in Eids, SendMessage(w, e)
      PROVE  ScanOK(c)'
  <2>1. PICK h \in Headers :
          Emit([type |-> "message", from |-> Unique(w), eid |-> e, header |-> h])
    BY <1>6 DEF SendMessage
  <2> DEFINE m == [type |-> "message", from |-> Unique(w), eid |-> e, header |-> h]
  <2>2. m \in Message /\ m.type = "message" /\ m.from = Unique(w) /\ Emit(m)
    BY <1>1, <2>1, SignalTypes
  <2> HIDE DEF m
  <2>3. up[w] /\ UNCHANGED <<calls, up, life, eps>>
    BY <1>6 DEF SendMessage
  <2> QED
    BY <1>4, <2>2, <2>3
<1> QED
  BY <1>2, <1>3, <1>5, <1>6 DEF ServiceStep

\* The application starts a scan.
LEMMA ScanStarts ==
  ASSUME TypeInv, ScanInv, NEW k \in Callers, DetectMctpEndpoints(k), NEW c \in Callers
  PROVE  ScanOK(c)'
<1>1. /\ scan[k].pc = "idle" /\ UNCHANGED <<up, life, eps, inbox, matchedBuses>>
      /\ calls' = calls \cup {[caller |-> k, method |-> "GetObject"]}
      /\ scan'[k].pc = "services" /\ scan'[k].buses = <<>>
      /\ \A d \in Callers : d # k => scan'[d] = scan[d]
  BY DEF DetectMctpEndpoints, Suspend, TypeInv, TypeOK
<1>2. ScanOK(c)
  BY DEF ScanInv, ScanOK
<1>3. CASE c = k
  <2>1. ~Occurs(inbox', To(c)) /\ \A call \in calls : call.caller # c
    BY <1>1, <1>2, <1>3, ReadingFacts DEF ScanOK
  <2>2. Awaited(c)' = {[caller |-> c, method |-> "GetObject"]}
    BY <1>1, <1>3 DEF Awaited
  <2>3. CallOK(c)'
    BY <1>1, <1>3, <2>1, <2>2, CallAlone
  <2>4. VisitsOnce(c)' /\ OwnerOK(c)' /\ ObjectsOK(c)'
    BY <1>1, <1>3 DEF VisitsOnce, OwnerOK, ObjectsOK
  <2>5. ServicesOK(c)'
    BY <2>1, OrderVoid DEF ServicesOK
  <2> QED
    BY <2>3, <2>4, <2>5 DEF ScanOK
<1>4. CASE c # k
  <2>1. \A call : call \in calls' /\ call.caller = c => call \in calls
    BY <1>1, <1>4
  <2> QED
    BY <1>1, <1>2, <1>4, <2>1, ScanKept
<1> QED
  BY <1>3, <1>4

\* Every step keeps what the scans rely on.
LEMMA ScanStep ==
  ASSUME TypeInv, Steady, FirstInv, SessionInv, ScanInv, [Next]_vars
  PROVE  ScanInv'
<1> SUFFICES ASSUME NEW c \in Callers
             PROVE  ScanOK(c)'
  BY DEF ScanInv, ScanOK
<1>1. ScanOK(c) /\ \A k \in Callers : ScanOK(k)
  BY DEF ScanInv, ScanOK
<1>2. CASE UNCHANGED <<scan, calls, inbox, up, life, eps, matchedBuses>>
  BY <1>1, <1>2, ScanKept
<1>3. CASE RunSpawned \/ UNCHANGED vars
  BY <1>2, <1>3 DEF RunSpawned, vars, busVars, libVars
<1>4. CASE Application
  BY <1>2, <1>4, ScanStarts DEF Application, RegisterResponder, RegisterNothing, GetOwnEIDs,
       SetExtendedReceiveCallback, busVars, libVars
<1>5. CASE AnyService
  BY <1>5, ScanServiceStep DEF AnyService, libVars
<1>6. ASSUME NEW k \in Callers, Answers(k)
      PROVE  ScanOK(c)'
  <2>1. PICK call \in calls : call.caller = k /\ Answer(call)
    BY <1>6 DEF Answers
  <2>2. PICK reply \in Expected(k) \cap Message : AnswerCall(call, reply)
    BY <1>1, <2>1, AnswerExpected
  <2> QED
    BY <1>1, <1>6, <2>1, <2>2, AnswerKeeps DEF Answers, libVars
<1> QED
  BY <1>3, <1>4, <1>5, <1>6, ScanDispatch DEF Next

LEMMA ScanInitially == ASSUME Init PROVE ScanInv
<1> SUFFICES ASSUME NEW c \in Callers
             PROVE  CallOK(c) /\ VisitsOnce(c) /\ ServicesOK(c) /\ OwnerOK(c) /\ ObjectsOK(c)
  BY DEF ScanInv
<1>1. inbox = <<>> /\ calls = {} /\ scan[c].pc = "idle" /\ scan[c].buses = <<>>
  BY DEF Init, BusInit
<1>2. CallOK(c)
  BY <1>1, NoMessages DEF CallOK
<1> QED
  BY <1>1, <1>2 DEF VisitsOnce, ServicesOK, OwnerOK, ObjectsOK

=============================================================================
