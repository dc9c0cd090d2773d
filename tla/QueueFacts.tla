----------------------------- MODULE QueueFacts ------------------------------
(***************************************************************************)
(* What the operations on a queue do to the entries of a kind.  A queue is *)
(* a sequence, of functors or of things left to do; a kind is a set X of   *)
(* entries.  The proofs about TcpConnection, TcpServer and Reactor rest on *)
(* these facts instead of on the positions of entries.                     *)
(***************************************************************************)
EXTENDS Integers, Sequences, FiniteSets, FiniteSetTheorems, SequenceTheorems,
        TLAPS

(* An entry of kind X is in the queue.                                     *)
Some(q, X) == \E k \in DOMAIN q : q[k] \in X

(* No two are.                                                             *)
AtMostOne(q, X) ==
  \A j, k \in DOMAIN q : q[j] \in X /\ q[k] \in X => j = k

(* Every a comes before every b.                                           *)
Before(q, a, b) == \A j, k \in DOMAIN q : q[j] = a /\ q[k] = b => j < k

-----------------------------------------------------------------------------
(* The empty queue, and a queue of one entry.                              *)
LEMMA EmptyQueue ==
  ASSUME NEW X
  PROVE  ~Some(<< >>, X) /\ AtMostOne(<< >>, X)
BY DEF Some, AtMostOne

(* A queue of one entry.                                                   *)
LEMMA OneEntry ==
  ASSUME NEW X, NEW e
  PROVE  (Some(<<e>>, X) <=> e \in X) /\ AtMostOne(<<e>>, X)
BY DEF Some, AtMostOne

(* A nonempty queue has an entry at its head.                              *)
LEMMA HeadEntry ==
  ASSUME NEW S, NEW q \in Seq(S), q # << >>, NEW X
  PROVE  Head(q) \in X => Some(q, X)
BY DEF Some

(* Taking the head off.                                                    *)
LEMMA TailQueue ==
  ASSUME NEW S, NEW q \in Seq(S), q # << >>, NEW X
  PROVE  /\ Some(q, X) <=> Head(q) \in X \/ Some(Tail(q), X)
         /\ AtMostOne(q, X) => AtMostOne(Tail(q), X)
         /\ AtMostOne(q, X) /\ Head(q) \in X => ~Some(Tail(q), X)
<1>1. /\ Len(q) \in Nat \ {0} /\ DOMAIN q = 1 .. Len(q)
      /\ Tail(q) \in Seq(S) /\ DOMAIN Tail(q) = 1 .. Len(q) - 1
      /\ Head(q) = q[1]
      /\ \A i \in 1 .. Len(q) - 1 : Tail(q)[i] = q[i + 1]
  OBVIOUS
<1>2. Some(q, X) => Head(q) \in X \/ Some(Tail(q), X)
  <2> SUFFICES ASSUME NEW k \in DOMAIN q, q[k] \in X, k # 1
               PROVE  Some(Tail(q), X)
    BY <1>1 DEF Some
  <2>1. k - 1 \in DOMAIN Tail(q) /\ Tail(q)[k - 1] = q[k] BY <1>1
  <2> QED BY <2>1 DEF Some
<1>3. Head(q) \in X \/ Some(Tail(q), X) => Some(q, X)
  BY <1>1 DEF Some
<1>4. AtMostOne(q, X) => AtMostOne(Tail(q), X)
  BY <1>1 DEF AtMostOne
<1>5. AtMostOne(q, X) /\ Head(q) \in X => ~Some(Tail(q), X)
  BY <1>1 DEF AtMostOne, Some
<1> QED BY <1>2, <1>3, <1>4, <1>5

(* Queues put together.                                                    *)
LEMMA ConcatQueue ==
  ASSUME NEW S, NEW q \in Seq(S), NEW r \in Seq(S), NEW X
  PROVE  /\ Some(q \o r, X) <=> Some(q, X) \/ Some(r, X)
         /\ AtMostOne(q, X) /\ AtMostOne(r, X) /\ ~(Some(q, X) /\ Some(r, X))
              => AtMostOne(q \o r, X)
<1>1. /\ Len(q) \in Nat /\ DOMAIN q = 1 .. Len(q)
      /\ Len(r) \in Nat /\ DOMAIN r = 1 .. Len(r)
      /\ q \o r \in Seq(S) /\ DOMAIN (q \o r) = 1 .. Len(q) + Len(r)
      /\ \A i \in 1 .. Len(q) : (q \o r)[i] = q[i]
      /\ \A i \in 1 .. Len(r) : (q \o r)[Len(q) + i] = r[i]
      /\ \A i \in Len(q) + 1 .. Len(q) + Len(r) :
           i - Len(q) \in 1 .. Len(r) /\ (q \o r)[i] = r[i - Len(q)]
  BY ConcatProperties
<1>2. Some(q \o r, X) => Some(q, X) \/ Some(r, X)
  <2> SUFFICES ASSUME NEW k \in DOMAIN (q \o r), (q \o r)[k] \in X
               PROVE  Some(q, X) \/ Some(r, X)
    BY DEF Some
  <2>1. k \in 1 .. Len(q) \/ k \in Len(q) + 1 .. Len(q) + Len(r) BY <1>1
  <2> QED BY <1>1, <2>1 DEF Some
<1>3. Some(q, X) => Some(q \o r, X)
  BY <1>1 DEF Some
<1>4. Some(r, X) => Some(q \o r, X)
  <2> SUFFICES ASSUME NEW k \in DOMAIN r, r[k] \in X
               PROVE  Some(q \o r, X)
    BY DEF Some
  <2>1. Len(q) + k \in DOMAIN (q \o r) /\ (q \o r)[Len(q) + k] \in X BY <1>1
  <2> QED BY <2>1 DEF Some
<1>5. ASSUME AtMostOne(q, X), AtMostOne(r, X), ~(Some(q, X) /\ Some(r, X)),
             NEW j \in DOMAIN (q \o r), NEW k \in DOMAIN (q \o r),
             (q \o r)[j] \in X, (q \o r)[k] \in X
      PROVE  j = k
  <2>1. CASE j \in 1 .. Len(q) /\ k \in 1 .. Len(q)
    BY <1>1, <1>5, <2>1 DEF AtMostOne
  <2>2. CASE /\ j \in Len(q) + 1 .. Len(q) + Len(r)
             /\ k \in Len(q) + 1 .. Len(q) + Len(r)
    <3>1. j - Len(q) = k - Len(q) BY <1>1, <1>5, <2>2 DEF AtMostOne
    <3> QED BY <1>1, <2>2, <3>1
  <2>3. CASE \/ /\ j \in 1 .. Len(q)
                /\ k \in Len(q) + 1 .. Len(q) + Len(r)
             \/ /\ k \in 1 .. Len(q)
                /\ j \in Len(q) + 1 .. Len(q) + Len(r)
    BY <1>1, <1>5, <2>3 DEF Some
  <2> QED BY <1>1, <2>1, <2>2, <2>3
<1> QED BY <1>2, <1>3, <1>4, <1>5 DEF AtMostOne

(* One more entry at the end.                                              *)
LEMMA AppendQueue ==
  ASSUME NEW S, NEW q \in Seq(S), NEW e \in S, NEW X
  PROVE  /\ Some(Append(q, e), X) <=> Some(q, X) \/ e \in X
         /\ AtMostOne(q, X) /\ ~(Some(q, X) /\ e \in X)
              => AtMostOne(Append(q, e), X)
<1>1. Append(q, e) = q \o <<e>> /\ <<e>> \in Seq(S) BY AppendIsConcat
<1>2. (Some(<<e>>, X) <=> e \in X) /\ AtMostOne(<<e>>, X) BY OneEntry
<1>3. /\ Some(q \o <<e>>, X) <=> Some(q, X) \/ Some(<<e>>, X)
      /\ AtMostOne(q, X) /\ AtMostOne(<<e>>, X)
           /\ ~(Some(q, X) /\ Some(<<e>>, X)) => AtMostOne(q \o <<e>>, X)
  BY <1>1, ConcatQueue, Zenon
<1> QED BY <1>1, <1>2, <1>3

(* A step of a queue's reader and writers: the head may be taken off, and  *)
(* entries that are not of kind X added.                                   *)
LEMMA StepQueue ==
  ASSUME NEW S, NEW p \in Seq(S), NEW q \in Seq(S), NEW new \in Seq(S),
         q = p \/ (p # << >> /\ q = Tail(p)),
         NEW X, ~Some(new, X)
  PROVE  /\ Some(q \o new, X) => Some(p, X)
         /\ AtMostOne(p, X) => AtMostOne(q \o new, X)
         /\ Some(p, X) => Some(q \o new, X) \/ (q = Tail(p) /\ Head(p) \in X)
<1>1. AtMostOne(new, X) BY DEF AtMostOne, Some
<1>2. /\ Some(q, X) => Some(p, X)
      /\ AtMostOne(p, X) => AtMostOne(q, X)
      /\ Some(p, X) => Some(q, X) \/ (q = Tail(p) /\ Head(p) \in X)
  <2>1. CASE q = p BY <2>1
  <2>2. CASE p # << >> /\ q = Tail(p) BY <2>2, TailQueue
  <2> QED BY <2>1, <2>2
<1>3. /\ Some(q \o new, X) <=> Some(q, X) \/ Some(new, X)
      /\ AtMostOne(q, X) /\ AtMostOne(new, X) /\ ~(Some(q, X) /\ Some(new, X))
           => AtMostOne(q \o new, X)
  BY ConcatQueue, Zenon
<1> QED BY <1>1, <1>2, <1>3

-----------------------------------------------------------------------------
(* The order of two entries, when one is added at the end ...              *)
LEMMA BeforeAppend ==
  ASSUME NEW S, NEW q \in Seq(S), NEW e \in S, NEW a, NEW b, a # b,
         Before(q, a, b), e = a => ~Some(q, {b})
  PROVE  Before(Append(q, e), a, b)
<1>1. /\ Len(q) \in Nat /\ DOMAIN q = 1 .. Len(q)
      /\ DOMAIN Append(q, e) = 1 .. Len(q) + 1
      /\ \A i \in 1 .. Len(q) : Append(q, e)[i] = q[i]
      /\ Append(q, e)[Len(q) + 1] = e
  OBVIOUS
<1> SUFFICES ASSUME NEW j \in 1 .. Len(q) + 1, NEW k \in 1 .. Len(q) + 1,
                    Append(q, e)[j] = a, Append(q, e)[k] = b
             PROVE  j < k
  BY <1>1 DEF Before
<1>2. CASE j \in 1 .. Len(q) /\ k \in 1 .. Len(q) BY <1>1, <1>2 DEF Before
<1>3. CASE j = Len(q) + 1 /\ k \in 1 .. Len(q) BY <1>1, <1>3 DEF Some
<1>4. CASE k = Len(q) + 1 BY <1>1, <1>4
<1> QED BY <1>1, <1>2, <1>3, <1>4

(* ... and when one is taken off.                                          *)
LEMMA BeforeTail ==
  ASSUME NEW S, NEW q \in Seq(S), q # << >>, NEW a, NEW b, Before(q, a, b)
  PROVE  /\ Before(Tail(q), a, b)
         /\ Head(q) = b => ~Some(q, {a})
<1>1. /\ Len(q) \in Nat \ {0} /\ DOMAIN q = 1 .. Len(q)
      /\ DOMAIN Tail(q) = 1 .. Len(q) - 1
      /\ Head(q) = q[1]
      /\ \A i \in 1 .. Len(q) - 1 : Tail(q)[i] = q[i + 1]
  OBVIOUS
<1>2. Before(Tail(q), a, b) BY <1>1 DEF Before
<1>3. Head(q) = b => ~Some(q, {a}) BY <1>1 DEF Before, Some
<1> QED BY <1>2, <1>3

(* How often an entry is in a queue that has it at most once.              *)
LEMMA CountEntry ==
  ASSUME NEW q, NEW e, AtMostOne(q, {e})
  PROVE  Cardinality({k \in DOMAIN q : q[k] = e})
           = IF Some(q, {e}) THEN 1 ELSE 0
<1> DEFINE K == {k \in DOMAIN q : q[k] = e}
<1>1. CASE Some(q, {e})
  <2>1. PICK k \in DOMAIN q : q[k] = e BY <1>1 DEF Some
  <2>2. K = {k} BY <2>1 DEF AtMostOne
  <2>3. Cardinality({k}) = 1 BY FS_Singleton
  <2> QED BY <1>1, <2>2, <2>3
<1>2. CASE ~Some(q, {e})
  <2>1. K = {} BY <1>2 DEF Some
  <2> QED BY <1>2, <2>1, FS_EmptySet
<1> QED BY <1>1, <1>2

(* How often an entry is in a queue.                                       *)
Count(q, e) == Cardinality({k \in DOMAIN q : q[k] = e})

(* It is counted once for each place.                                      *)
LEMMA CountConcat ==
  ASSUME NEW S, NEW q \in Seq(S), NEW r \in Seq(S), NEW e
  PROVE  /\ Count(q, e) \in Nat /\ Count(r, e) \in Nat
         /\ Count(q \o r, e) = Count(q, e) + Count(r, e)
<1> DEFINE A == {k \in DOMAIN q : q[k] = e}
           B == {k \in DOMAIN r : r[k] = e}
           C == {k \in DOMAIN (q \o r) : (q \o r)[k] = e}
           D == {k \in C : k > Len(q)}
<1>1. /\ Len(q) \in Nat /\ DOMAIN q = 1 .. Len(q)
      /\ Len(r) \in Nat /\ DOMAIN r = 1 .. Len(r)
      /\ DOMAIN (q \o r) = 1 .. Len(q) + Len(r)
      /\ \A i \in 1 .. Len(q) : (q \o r)[i] = q[i]
      /\ \A i \in 1 .. Len(r) : (q \o r)[Len(q) + i] = r[i]
      /\ \A i \in Len(q) + 1 .. Len(q) + Len(r) :
           i - Len(q) \in 1 .. Len(r) /\ (q \o r)[i] = r[i - Len(q)]
  BY ConcatProperties
<1>2. IsFiniteSet(A) /\ IsFiniteSet(B)
  <2>1. IsFiniteSet(1 .. Len(q)) /\ IsFiniteSet(1 .. Len(r))
    BY <1>1, FS_Interval
  <2>2. A \subseteq 1 .. Len(q) /\ B \subseteq 1 .. Len(r) BY <1>1
  <2> QED BY <2>1, <2>2, FS_Subset
<1>3. C = A \cup D /\ A \cap D = {} BY <1>1
<1>4. IsFiniteSet(D) /\ Cardinality(D) = Cardinality(B)
  <2> DEFINE f == [k \in B |-> Len(q) + k]
  <2>1. f \in [B -> D] BY <1>1
  <2>2. \A j, k \in B : f[j] = f[k] => j = k BY <1>1
  <2>3. \A d \in D : \E k \in B : f[k] = d
    <3> SUFFICES ASSUME NEW d \in D PROVE \E k \in B : f[k] = d
      OBVIOUS
    <3>1. d - Len(q) \in B /\ Len(q) + (d - Len(q)) = d BY <1>1
    <3> QED BY <3>1
  <2>4. f \in Bijection(B, D)
    <3> HIDE DEF f, B, D
    <3> QED
      BY <2>1, <2>2, <2>3 DEF Bijection, Injection, Surjection, IsInjective
  <2> HIDE DEF f, B, D
  <2> QED BY <1>2, <2>4, FS_Bijection DEF ExistsBijection
<1>5. Cardinality(A) \in Nat /\ Cardinality(B) \in Nat
  BY <1>2, FS_CardinalityType
<1>6. Cardinality(A \cap D) = 0 BY <1>3, FS_EmptySet
<1>7. Cardinality(C) = Cardinality(A) + Cardinality(B)
  <2> HIDE DEF A, B, C, D
  <2>1. Cardinality(A \cup D)
          = Cardinality(A) + Cardinality(D) - Cardinality(A \cap D)
    BY <1>2, <1>4, FS_Union
  <2> QED BY <1>3, <1>4, <1>5, <1>6, <2>1
<1> QED BY <1>5, <1>7 DEF Count

(* One entry, alone, ...                                                   *)
LEMMA CountOne ==
  ASSUME NEW g, NEW e
  PROVE  Count(<<g>>, e) = IF g = e THEN 1 ELSE 0
<1>1. Some(<<g>>, {e}) <=> g = e BY OneEntry
<1>2. AtMostOne(<<g>>, {e}) BY OneEntry
<1> QED BY <1>1, <1>2, CountEntry DEF Count

(* ... and at the head of a queue.                                         *)
LEMMA CountTail ==
  ASSUME NEW S, NEW q \in Seq(S), q # << >>, NEW e
  PROVE  /\ Count(q, e) \in Nat /\ Count(Tail(q), e) \in Nat
         /\ Count(Tail(q), e)
              = Count(q, e) - (IF Head(q) = e THEN 1 ELSE 0)
<1>1. /\ <<Head(q)>> \in Seq(S) /\ Tail(q) \in Seq(S)
      /\ q = <<Head(q)>> \o Tail(q)
  OBVIOUS
<1>2. /\ Count(Tail(q), e) \in Nat
      /\ Count(<<Head(q)>> \o Tail(q), e)
           = Count(<<Head(q)>>, e) + Count(Tail(q), e)
  BY <1>1, CountConcat
<1>3. Count(<<Head(q)>>, e) = IF Head(q) = e THEN 1 ELSE 0 BY CountOne
<1>4. Count(q, e) = Count(<<Head(q)>>, e) + Count(Tail(q), e)
  BY <1>1, <1>2, Zenon
<1> QED BY <1>2, <1>3, <1>4

(* Two queues in a row.                                                    *)
LEMMA BeforeConcat ==
  ASSUME NEW S, NEW q \in Seq(S), NEW r \in Seq(S), NEW a, NEW b,
         Before(q, a, b), Before(r, a, b), ~(Some(q, {b}) /\ Some(r, {a}))
  PROVE  Before(q \o r, a, b)
<1>1. /\ Len(q) \in Nat /\ DOMAIN q = 1 .. Len(q)
      /\ Len(r) \in Nat /\ DOMAIN r = 1 .. Len(r)
      /\ DOMAIN (q \o r) = 1 .. Len(q) + Len(r)
      /\ \A i \in 1 .. Len(q) : (q \o r)[i] = q[i]
      /\ \A i \in Len(q) + 1 .. Len(q) + Len(r) :
           i - Len(q) \in 1 .. Len(r) /\ (q \o r)[i] = r[i - Len(q)]
  BY ConcatProperties
<1> SUFFICES ASSUME NEW j \in DOMAIN (q \o r), NEW k \in DOMAIN (q \o r),
                    (q \o r)[j] = a, (q \o r)[k] = b
             PROVE  j < k
  BY DEF Before
<1>2. CASE j <= Len(q) /\ k <= Len(q) BY <1>1, <1>2 DEF Before
<1>3. CASE j > Len(q) /\ k > Len(q)
  <2>1. j - Len(q) < k - Len(q) BY <1>1, <1>3 DEF Before
  <2> QED BY <1>1, <2>1
<1>4. CASE j > Len(q) /\ k <= Len(q) BY <1>1, <1>4 DEF Some
<1> QED BY <1>1, <1>2, <1>3, <1>4
=============================================================================
