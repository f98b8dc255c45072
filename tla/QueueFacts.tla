----------------------------- MODULE QueueFacts -----------------------------
(***************************************************************************)
(* Facts about GQueues modelled as sequences, used by the proofs about the *)
(* modules that keep their state in queues: what pushing at the tail,      *)
(* taking out an element and concatenating do to the set of elements and   *)
(* to the absence of repetitions; what searching one, and joining several, *)
(* make of a queue that grows by an element.                               *)
(***************************************************************************)
EXTENDS Integers, Sequences, SequencesExt, Queues, SequenceTheorems,
        WellFoundedInduction, TLAPS

(* A non-empty set of naturals has a least element. *)
LEMMA LeastNat ==
  ASSUME NEW T \in SUBSET Nat, T # {}
  PROVE  \E x \in T : \A y \in T : x <= y
<1> DEFINE R == OpToRel(<, Nat)
<1>1. IsWellFoundedOn(R, Nat)
  BY NatLessThanWellFounded
<1>2. PICK x \in T : \A y \in T : ~ (<<y, x>> \in R)
  <2> HIDE DEF R
  <2> QED BY <1>1, WFMin
<1>3. \A y \in T : ~ (y < x)
  BY <1>2 DEF OpToRel
<1> QED BY <1>3

(* The elements of a sequence, by position. *)
LEMMA ToSetProps ==
  ASSUME NEW S, NEW q \in Seq(S)
  PROVE  /\ ToSet(q) \in SUBSET S
         /\ DOMAIN q = 1..Len(q)
         /\ Len(q) \in Nat
         /\ \A i \in 1..Len(q) : q[i] \in ToSet(q)
         /\ \A e \in ToSet(q) : \E i \in 1..Len(q) : q[i] = e
<1>1. DOMAIN q = 1..Len(q) /\ Len(q) \in Nat
  BY LenProperties
<1>2. \A i \in 1..Len(q) : q[i] \in S
  BY ElementOfSeq
<1> QED BY <1>1, <1>2 DEF ToSet

(* g_queue_push_tail adds one element, and no repetition if it is new. *)
LEMMA PushTail ==
  ASSUME NEW S, NEW q \in Seq(S), NEW e \in S
  PROVE  /\ Append(q, e) \in Seq(S)
         /\ ToSet(Append(q, e)) = ToSet(q) \cup {e}
         /\ IsInjective(q) /\ e \notin ToSet(q) => IsInjective(Append(q, e))
<1>1. DOMAIN q = 1..Len(q) /\ Len(q) \in Nat
  BY LenProperties
<1>2. /\ Append(q, e) \in Seq(S)
      /\ Len(Append(q, e)) = Len(q) + 1
      /\ \A i \in 1..Len(q) : Append(q, e)[i] = q[i]
      /\ Append(q, e)[Len(q) + 1] = e
  BY AppendProperties
<1>3. DOMAIN Append(q, e) = 1..(Len(q) + 1)
  BY <1>2, LenProperties
<1>4. ToSet(Append(q, e)) = ToSet(q) \cup {e}
  BY <1>1, <1>2, <1>3 DEF ToSet
<1>5. ASSUME IsInjective(q), e \notin ToSet(q)
      PROVE  IsInjective(Append(q, e))
  BY <1>1, <1>2, <1>3, <1>5 DEF IsInjective, ToSet
<1> QED BY <1>2, <1>4, <1>5

(* RemoveAt, position by position. *)
LEMMA RemoveAtProps ==
  ASSUME NEW S, NEW q \in Seq(S), NEW i \in 1..Len(q)
  PROVE  /\ RemoveAt(q, i) \in Seq(S)
         /\ Len(RemoveAt(q, i)) = Len(q) - 1
         /\ \A j \in 1..(Len(q) - 1) :
              RemoveAt(q, i)[j] = IF j < i THEN q[j] ELSE q[j + 1]
<1> DEFINE front == SubSeq(q, 1, i - 1)
           back == SubSeq(q, i + 1, Len(q))
<1>1. Len(q) \in Nat /\ i \in Nat /\ i - 1 \in Int /\ i + 1 \in Int
  OBVIOUS
<1>2. /\ \A k \in 1..(i - 1) : q[k] \in S
      /\ \A k \in (i + 1)..Len(q) : q[k] \in S
  <2>1. \A k \in 1..Len(q) : q[k] \in S
    BY ElementOfSeq
  <2> QED BY <2>1, <1>1
<1>3. /\ front \in Seq(S) /\ Len(front) = i - 1
      /\ \A k \in 1..(i - 1) : front[k] = q[k]
  BY <1>1, <1>2, SubSeqProperties, Z3
<1>4. /\ back \in Seq(S) /\ Len(back) = Len(q) - i
      /\ \A k \in 1..(Len(q) - i) : back[k] = q[i + k]
  BY <1>1, <1>2, SubSeqProperties, Z3
<1>5. RemoveAt(q, i) = front \o back
  BY DEF RemoveAt
<1> HIDE DEF front, back
<1>6. /\ front \o back \in Seq(S)
      /\ Len(front \o back) = Len(front) + Len(back)
      /\ \A k \in 1..(Len(front) + Len(back)) :
           (front \o back)[k] = IF k <= Len(front) THEN front[k]
                                ELSE back[k - Len(front)]
  BY <1>3, <1>4, ConcatProperties
<1>7. ASSUME NEW j \in 1..(Len(q) - 1)
      PROVE  (front \o back)[j] = IF j < i THEN q[j] ELSE q[j + 1]
  <2>1. CASE j < i
    BY <2>1, <1>1, <1>3, <1>4, <1>6
  <2>2. CASE ~(j < i)
    <3>1. j - Len(front) \in 1..(Len(q) - i)
      BY <2>2, <1>1, <1>3
    <3>2. back[j - Len(front)] = q[i + (j - Len(front))]
      BY <3>1, <1>4
    <3>3. i + (j - Len(front)) = j + 1
      BY <1>1, <1>3
    <3> QED BY <2>2, <3>2, <3>3, <1>1, <1>3, <1>4, <1>6
  <2> QED BY <2>1, <2>2
<1> QED BY <1>1, <1>3, <1>4, <1>5, <1>6, <1>7

(* g_queue_pop_nth takes out one element of a queue without repetitions. *)
LEMMA RemoveNth ==
  ASSUME NEW S, NEW q \in Seq(S), NEW i \in 1..Len(q), IsInjective(q)
  PROVE  /\ RemoveAt(q, i) \in Seq(S)
         /\ ToSet(RemoveAt(q, i)) = ToSet(q) \ {q[i]}
         /\ IsInjective(RemoveAt(q, i))
<1> DEFINE r == RemoveAt(q, i)
<1>1. Len(q) \in Nat /\ DOMAIN q = 1..Len(q)
  BY LenProperties
<1>2. /\ r \in Seq(S)
      /\ Len(r) = Len(q) - 1
      /\ \A j \in 1..(Len(q) - 1) : r[j] = IF j < i THEN q[j] ELSE q[j + 1]
  BY RemoveAtProps
<1>3. DOMAIN r = 1..(Len(q) - 1)
  BY <1>2, LenProperties
<1> HIDE DEF r
<1>4. ToSet(r) = ToSet(q) \ {q[i]}
  <2>1. ASSUME NEW e \in ToSet(r)
        PROVE  e \in ToSet(q) \ {q[i]}
    <3>1. PICK j \in 1..(Len(q) - 1) : r[j] = e
      BY <1>3 DEF ToSet
    <3> DEFINE k == IF j < i THEN j ELSE j + 1
    <3>2. k \in 1..Len(q) /\ k # i
      BY <1>1
    <3>3. q[k] = e
      BY <3>1, <1>2
    <3> HIDE DEF k
    <3>4. q[k] # q[i]
      BY <3>2, <1>1 DEF IsInjective
    <3> QED BY <3>2, <3>3, <3>4, <1>1 DEF ToSet
  <2>2. ASSUME NEW e \in ToSet(q) \ {q[i]}
        PROVE  e \in ToSet(r)
    <3>1. PICK j \in 1..Len(q) : q[j] = e /\ j # i
      BY <1>1 DEF ToSet
    <3>2. CASE j < i
      BY SMTT(30), <3>1, <3>2, <1>1, <1>2, <1>3 DEF ToSet
    <3>3. CASE j > i
      <4>1. j - 1 \in 1..(Len(q) - 1) /\ ~(j - 1 < i) /\ (j - 1) + 1 = j
        BY <3>3, <1>1
      <4>2. r[j - 1] = e
        BY <4>1, <3>1, <1>2
      <4> QED BY <4>1, <4>2, <1>3 DEF ToSet
    <3> QED BY <3>1, <3>2, <3>3
  <2> QED BY <2>1, <2>2
<1>5. IsInjective(r)
  <2> SUFFICES ASSUME NEW a \in 1..(Len(q) - 1), NEW b \in 1..(Len(q) - 1),
                      r[a] = r[b]
               PROVE  a = b
    BY <1>3 DEF IsInjective
  <2> DEFINE at(k) == IF k < i THEN k ELSE k + 1
  <2>1. at(a) \in 1..Len(q) /\ at(b) \in 1..Len(q)
    BY <1>1
  <2>2. r[a] = q[at(a)] /\ r[b] = q[at(b)]
    BY <1>2
  <2>3. at(a) = at(b)
    BY <2>1, <2>2, <1>1 DEF IsInjective
  <2> QED BY <2>3, <1>1
<1> QED BY <1>2, <1>4, <1>5 DEF r

(* g_queue_pop_head takes the first element. *)
LEMMA PopHead ==
  ASSUME NEW S, NEW q \in Seq(S), q # <<>>
  PROVE  /\ Head(q) \in S /\ Head(q) = q[1] /\ Tail(q) \in Seq(S)
         /\ Len(q) \in Nat \ {0} /\ Len(Tail(q)) = Len(q) - 1
         /\ \A i \in 1..(Len(q) - 1) : Tail(q)[i] = q[i + 1]
         /\ ToSet(q) = {Head(q)} \cup ToSet(Tail(q))
         /\ IsInjective(q) => IsInjective(Tail(q)) /\ Head(q) \notin ToSet(Tail(q))
<1>1. /\ Head(q) \in S /\ Tail(q) \in Seq(S) /\ Len(Tail(q)) = Len(q) - 1
      /\ \A i \in 1..Len(Tail(q)) : Tail(q)[i] = q[i + 1]
  BY HeadTailProperties
<1>2. /\ DOMAIN q = 1..Len(q) /\ Len(q) \in Nat \ {0} /\ Head(q) = q[1]
      /\ DOMAIN Tail(q) = 1..(Len(q) - 1)
  BY <1>1, LenProperties, EmptySeq
<1>3. ToSet(q) = {Head(q)} \cup ToSet(Tail(q))
  <2>1. ASSUME NEW i \in 1..Len(q), i # 1
        PROVE  q[i] \in ToSet(Tail(q))
    <3>1. i - 1 \in 1..(Len(q) - 1) /\ (i - 1) + 1 = i
      BY <2>1, <1>2
    <3>2. Tail(q)[i - 1] = q[i]
      BY <3>1, <1>1
    <3> QED BY <3>1, <3>2, <1>2 DEF ToSet
  <2>2. ASSUME NEW i \in 1..(Len(q) - 1)
        PROVE  Tail(q)[i] \in ToSet(q)
    <3>1. i + 1 \in 1..Len(q) /\ Tail(q)[i] = q[i + 1]
      BY <1>1, <1>2
    <3> QED BY <3>1, <1>2 DEF ToSet
  <2>3. 1 \in 1..Len(q)
    BY <1>2
  <2>4. ToSet(q) = {q[i] : i \in 1..Len(q)}
    BY <1>2 DEF ToSet
  <2>5. ToSet(Tail(q)) = {Tail(q)[i] : i \in 1..(Len(q) - 1)}
    BY <1>2 DEF ToSet
  <2>6. ToSet(q) \subseteq {q[1]} \cup ToSet(Tail(q))
    BY <2>1, <2>4
  <2>7. ToSet(Tail(q)) \subseteq ToSet(q)
    BY <2>2, <2>5
  <2> QED BY <2>3, <2>4, <2>6, <2>7, <1>2
<1>4. ASSUME IsInjective(q)
      PROVE  IsInjective(Tail(q)) /\ Head(q) \notin ToSet(Tail(q))
  <2>1. ASSUME NEW a \in 1..(Len(q) - 1), NEW b \in 1..(Len(q) - 1),
               Tail(q)[a] = Tail(q)[b]
        PROVE  a = b
    <3>1. a + 1 \in 1..Len(q) /\ b + 1 \in 1..Len(q) /\ q[a + 1] = q[b + 1]
      BY <2>1, <1>1, <1>2
    <3>2. a + 1 = b + 1
      BY <3>1, <1>2, <1>4 DEF IsInjective
    <3> QED BY <3>2
  <2>2. ASSUME NEW a \in 1..(Len(q) - 1)
        PROVE  Tail(q)[a] # q[1]
    <3>1. a + 1 \in 1..Len(q) /\ 1 \in 1..Len(q) /\ a + 1 # 1
      BY <1>2
    <3>2. q[a + 1] # q[1]
      BY <3>1, <1>2, <1>4 DEF IsInjective
    <3> QED BY <3>2, <1>1
  <2> QED BY <2>1, <2>2, <1>2 DEF IsInjective, ToSet
<1> QED BY <1>1, <1>2, <1>3, <1>4

(* Two queues one after the other. *)
LEMMA BothQueues ==
  ASSUME NEW S, NEW q \in Seq(S), NEW o \in Seq(S)
  PROVE  /\ q \o o \in Seq(S)
         /\ ToSet(q \o o) = ToSet(q) \cup ToSet(o)
         /\ IsInjective(q) /\ IsInjective(o) /\ ToSet(q) \cap ToSet(o) = {}
              => IsInjective(q \o o)
<1> DEFINE c == q \o o
<1>1. /\ Len(q) \in Nat /\ DOMAIN q = 1..Len(q)
      /\ Len(o) \in Nat /\ DOMAIN o = 1..Len(o)
  BY LenProperties
<1>2. /\ c \in Seq(S)
      /\ Len(c) = Len(q) + Len(o)
      /\ \A i \in 1..(Len(q) + Len(o)) :
           c[i] = IF i <= Len(q) THEN q[i] ELSE o[i - Len(q)]
  BY ConcatProperties
<1>3. DOMAIN c = 1..(Len(q) + Len(o))
  BY <1>2, LenProperties
<1> HIDE DEF c
<1>4. ToSet(c) = ToSet(q) \cup ToSet(o)
  <2>1. ASSUME NEW e \in ToSet(c)
        PROVE  e \in ToSet(q) \cup ToSet(o)
    <3>1. PICK j \in 1..(Len(q) + Len(o)) : c[j] = e
      BY <1>3 DEF ToSet
    <3>2. CASE j <= Len(q)
      <4>1. j \in 1..Len(q) /\ q[j] = e
        BY <3>1, <3>2, <1>1, <1>2
      <4> QED BY <4>1, <1>1 DEF ToSet
    <3>3. CASE ~(j <= Len(q))
      <4>1. j - Len(q) \in 1..Len(o) /\ o[j - Len(q)] = e
        BY <3>1, <3>3, <1>1, <1>2
      <4> QED BY <4>1, <1>1 DEF ToSet
    <3> QED BY <3>2, <3>3
  <2>2. ASSUME NEW e \in ToSet(q)
        PROVE  e \in ToSet(c)
    BY <1>1, <1>2, <1>3 DEF ToSet
  <2>3. ASSUME NEW e \in ToSet(o)
        PROVE  e \in ToSet(c)
    <3>1. PICK j \in 1..Len(o) : o[j] = e
      BY <1>1 DEF ToSet
    <3>2. /\ Len(q) + j \in 1..(Len(q) + Len(o))
          /\ ~(Len(q) + j <= Len(q))
          /\ (Len(q) + j) - Len(q) = j
      BY <1>1
    <3>3. c[Len(q) + j] = e
      BY <3>1, <3>2, <1>2
    <3> QED BY <3>2, <3>3, <1>3 DEF ToSet
  <2> QED BY <2>1, <2>2, <2>3
<1>5. ASSUME IsInjective(q), IsInjective(o), ToSet(q) \cap ToSet(o) = {}
      PROVE  IsInjective(c)
  <2> SUFFICES ASSUME NEW a \in 1..(Len(q) + Len(o)),
                      NEW b \in 1..(Len(q) + Len(o)), c[a] = c[b]
               PROVE  a = b
    BY <1>3 DEF IsInjective
  <2>1. CASE a <= Len(q) /\ b <= Len(q)
    <3>1. a \in 1..Len(q) /\ b \in 1..Len(q)
      BY <2>1, <1>1
    <3>2. q[a] = q[b]
      BY <2>1, <1>1, <1>2
    <3> QED BY <3>1, <3>2, <1>1, <1>5 DEF IsInjective
  <2>2. CASE a > Len(q) /\ b > Len(q)
    <3>1. a - Len(q) \in 1..Len(o) /\ b - Len(q) \in 1..Len(o)
      BY <2>2, <1>1
    <3>2. o[a - Len(q)] = o[b - Len(q)]
      BY <2>2, <1>1, <1>2
    <3>3. a - Len(q) = b - Len(q)
      BY <3>1, <3>2, <1>1, <1>5 DEF IsInjective
    <3> QED BY <3>3, <1>1
  <2>3. CASE a <= Len(q) /\ b > Len(q)
    <3>1. a \in 1..Len(q) /\ b - Len(q) \in 1..Len(o)
      BY <2>3, <1>1
    <3>2. q[a] = o[b - Len(q)]
      BY <2>3, <1>1, <1>2
    <3> QED BY <3>1, <3>2, <1>1, <1>5 DEF ToSet
  <2>4. CASE a > Len(q) /\ b <= Len(q)
    <3>1. b \in 1..Len(q) /\ a - Len(q) \in 1..Len(o)
      BY <2>4, <1>1
    <3>2. q[b] = o[a - Len(q)]
      BY <2>4, <1>1, <1>2
    <3> QED BY <3>1, <3>2, <1>1, <1>5 DEF ToSet
  <2> QED BY <2>1, <2>2, <2>3, <2>4, <1>1
<1> QED BY <1>2, <1>4, <1>5 DEF c

(* Sift is what its definition says: the recursive function exists.        *)
LEMMA SiftFcn ==
  ASSUME NEW S, NEW q \in Seq(S), NEW P
  PROVE  \E F : /\ F = [i \in 0..Len(q) |->
                          IF i = 0 THEN <<>>
                          ELSE IF q[i] \in P THEN Append(F[i - 1], q[i]) ELSE F[i - 1]]
                /\ Sift(q, P) = F[Len(q)]
<1> DEFINE Is(n, F) == F = [i \in 0..n |->
                              IF i = 0 THEN <<>>
                              ELSE IF q[i] \in P THEN Append(F[i - 1], q[i]) ELSE F[i - 1]]
<1>1. \A n \in Nat : \E F : Is(n, F)
  <2> DEFINE T == {n \in Nat : ~ \E F : Is(n, F)}
  <2> SUFFICES ASSUME T # {} PROVE FALSE
    OBVIOUS
  <2>1. PICK n \in T : \A m \in T : n <= m
    BY LeastNat
  <2>2. n # 0
    <3> DEFINE F == [i \in 0..0 |-> <<>>]
    <3>1. Is(0, F)
      OBVIOUS
    <3>2. \E E : Is(0, E)
      <4> HIDE DEF F
      <4> QED BY <3>1
    <3> QED BY <3>2, <2>1
  <2>3. n - 1 \in Nat /\ n - 1 \notin T /\ n \in Nat
    <3> HIDE DEF Is
    <3> QED BY <2>1, <2>2
  <2>4. PICK F : Is(n - 1, F)
    BY <2>3
  <2> DEFINE G == [i \in 0..n |->
                     IF i = n THEN IF q[n] \in P THEN Append(F[n - 1], q[n]) ELSE F[n - 1]
                     ELSE F[i]]
  <2> DEFINE Step(i) == IF i = 0 THEN <<>>
                       ELSE IF q[i] \in P THEN Append(G[i - 1], q[i]) ELSE G[i - 1]
  <2>5. ASSUME NEW i \in 0..n PROVE G[i] = Step(i)
    <3>1. CASE i = n
      <4>1. G[n - 1] = F[n - 1] /\ n # 0
        BY <2>2, <2>3
      <4> QED BY <3>1, <4>1, <2>2
    <3>2. CASE i # n /\ i = 0
      <4>1. G[i] = F[i] /\ i \in 0..(n - 1)
        BY <3>2, <2>3
      <4>2. F[i] = <<>>
        BY <4>1, <3>2, <2>4
      <4> QED BY <4>1, <4>2, <3>2
    <3>3. CASE i # n /\ i # 0
      <4>1. G[i] = F[i] /\ i \in 0..(n - 1) /\ i - 1 \in 0..(n - 1) /\ i - 1 \in 0..n /\ i - 1 # n
        BY <3>3, <2>3
      <4>2. G[i - 1] = F[i - 1]
        BY <4>1
      <4>3. F[i] = IF q[i] \in P THEN Append(F[i - 1], q[i]) ELSE F[i - 1]
        BY <4>1, <3>3, <2>4
      <4> HIDE DEF G
      <4> QED BY <4>1, <4>2, <4>3, <3>3
    <3> QED BY <3>1, <3>2, <3>3
  <2>6. G = [i \in 0..n |-> G[i]]
    OBVIOUS
  <2> HIDE DEF G
  <2>7. Is(n, G)
    BY <2>5, <2>6
  <2> QED BY <2>1, <2>7
<1>2. Len(q) \in Nat
  BY LenProperties
<1> DEFINE H == CHOOSE F : Is(Len(q), F)
<1>3. Is(Len(q), H)
  <2>1. PICK F : Is(Len(q), F)
    BY <1>1, <1>2
  <2> QED BY <2>1
<1>4. Sift(q, P) = H[Len(q)]
  BY DEF Sift
<1> HIDE DEF H
<1> QED BY <1>3, <1>4

(* What Sift leaves is in q and in P, all that is, and in the order of q.  *)
LEMMA SiftProps ==
  ASSUME NEW S, NEW q \in Seq(S), NEW P
  PROVE  /\ Sift(q, P) \in Seq(S)
         /\ ToSet(Sift(q, P)) = ToSet(q) \cap P
         /\ \A a, b \in DOMAIN Sift(q, P) : a < b =>
              \E i, j \in DOMAIN q : i < j /\ q[i] = Sift(q, P)[a] /\ q[j] = Sift(q, P)[b]
<1>0. PICK F : /\ F = [i \in 0..Len(q) |->
                          IF i = 0 THEN <<>>
                          ELSE IF q[i] \in P THEN Append(F[i - 1], q[i]) ELSE F[i - 1]]
               /\ Sift(q, P) = F[Len(q)]
  BY SiftFcn
<1>1. Len(q) \in Nat /\ DOMAIN q = 1..Len(q) /\ \A i \in 1..Len(q) : q[i] \in S
  BY LenProperties, ElementOfSeq
<1> DEFINE Good(m) ==
      /\ F[m] \in Seq(S)
      /\ ToSet(F[m]) = {q[i] : i \in 1..m} \cap P
      /\ \A a, b \in DOMAIN F[m] : a < b =>
           \E i, j \in 1..m : i < j /\ q[i] = F[m][a] /\ q[j] = F[m][b]
<1> HIDE DEF Good
<1>2. \A m \in 0..Len(q) : Good(m)
  <2> DEFINE T == {m \in Nat : m \in 0..Len(q) /\ ~Good(m)}
  <2> SUFFICES ASSUME T # {} PROVE FALSE
    BY <1>1
  <2>1. PICK m \in T : \A k \in T : m <= k
    <3> HIDE DEF T
    <3>1. T \in SUBSET Nat
      BY DEF T
    <3> QED BY <3>1, LeastNat
  <2>2. Good(0)
    <3>1. F[0] = <<>>
      BY <1>0, <1>1
    <3>2. <<>> \in Seq(S) /\ ToSet(<<>>) = {} /\ DOMAIN <<>> = {}
      BY DEF ToSet
    <3> QED BY <3>1, <3>2 DEF Good
  <2>3. m # 0 /\ m \in 1..Len(q) /\ m - 1 \in 0..Len(q) /\ m - 1 \in Nat
    BY <2>1, <2>2, <1>1
  <2>4. Good(m - 1)
    BY <2>1, <2>3
  <2>5. F[m] = IF q[m] \in P THEN Append(F[m - 1], q[m]) ELSE F[m - 1]
    BY <1>0, <2>3
  <2> DEFINE G == F[m - 1]
  <2>6. /\ G \in Seq(S) /\ ToSet(G) = {q[i] : i \in 1..(m - 1)} \cap P
        /\ \A a, b \in DOMAIN G : a < b =>
             \E i, j \in 1..(m - 1) : i < j /\ q[i] = G[a] /\ q[j] = G[b]
    BY <2>4 DEF Good
  <2>7. {q[i] : i \in 1..m} = {q[i] : i \in 1..(m - 1)} \cup {q[m]} /\ 1..m = 1..(m - 1) \cup {m}
    BY <2>3
  <2>8. Good(m)
    <3>1. CASE q[m] \notin P
      <4>1. F[m] = G
        BY <3>1, <2>5
      <4> HIDE DEF G
      <4>2. ToSet(F[m]) = {q[i] : i \in 1..m} \cap P
        BY <4>1, <2>6, <2>7, <3>1
      <4> QED BY <4>1, <4>2, <2>6, <2>7 DEF Good
    <3>2. CASE q[m] \in P
      <4>1. F[m] = Append(G, q[m])
        BY <3>2, <2>5
      <4> HIDE DEF G
      <4>2. q[m] \in S
        BY <1>1, <2>3
      <4>3. /\ F[m] \in Seq(S) /\ ToSet(F[m]) = ToSet(G) \cup {q[m]}
        BY <4>1, <4>2, <2>6, PushTail
      <4>4. ToSet(F[m]) = {q[i] : i \in 1..m} \cap P
        BY <4>3, <2>6, <2>7, <3>2
      <4>5. /\ Len(G) \in Nat /\ DOMAIN G = 1..Len(G) /\ DOMAIN F[m] = 1..(Len(G) + 1)
            /\ \A i \in 1..Len(G) : F[m][i] = G[i]
            /\ F[m][Len(G) + 1] = q[m]
        BY <4>1, <4>2, <2>6, AppendProperties, LenProperties
      <4>6. ASSUME NEW a \in DOMAIN F[m], NEW b \in DOMAIN F[m], a < b
            PROVE  \E i, j \in 1..m : i < j /\ q[i] = F[m][a] /\ q[j] = F[m][b]
        <5>1. a \in DOMAIN G /\ F[m][a] = G[a]
          BY <4>5, <4>6
        <5>2. CASE b \in DOMAIN G
          <6>1. F[m][b] = G[b]
            BY <5>2, <4>5
          <6>2. PICK i \in 1..(m - 1), j \in 1..(m - 1) : i < j /\ q[i] = G[a] /\ q[j] = G[b]
            BY <5>1, <5>2, <4>6, <2>6
          <6> QED BY <6>1, <6>2, <5>1, <2>7
        <5>3. CASE b \notin DOMAIN G
          <6>1. F[m][b] = q[m]
            BY <5>3, <4>5
          <6>2. G[a] \in ToSet(G)
            BY <5>1 DEF ToSet
          <6>3. PICK i \in 1..(m - 1) : q[i] = G[a]
            BY <6>2, <2>6
          <6>4. i < m /\ i \in 1..m /\ m \in 1..m
            BY <6>3, <2>3
          <6> QED BY <6>1, <6>3, <6>4, <5>1
        <5> QED BY <5>2, <5>3
      <4> QED BY <4>3, <4>4, <4>6 DEF Good
    <3> QED BY <3>1, <3>2
  <2> QED BY <2>1, <2>8
<1>3. Good(Len(q))
  BY <1>1, <1>2
<1>4. {q[i] : i \in 1..Len(q)} = ToSet(q)
  BY <1>1 DEF ToSet
<1> DEFINE L == F[Len(q)]
<1>5. /\ L \in Seq(S) /\ ToSet(L) = {q[i] : i \in 1..Len(q)} \cap P
      /\ \A a, b \in DOMAIN L : a < b =>
           \E i, j \in 1..Len(q) : i < j /\ q[i] = L[a] /\ q[j] = L[b]
  BY <1>3 DEF Good
<1>6. Sift(q, P) = L
  BY <1>0
<1> HIDE DEF L
<1>7. L \in Seq(S) /\ ToSet(L) = ToSet(q) \cap P
  BY <1>4, <1>5
<1>8. ASSUME NEW a \in DOMAIN L, NEW b \in DOMAIN L, a < b
      PROVE  \E i, j \in DOMAIN q : i < j /\ q[i] = L[a] /\ q[j] = L[b]
  <2>1. PICK i \in 1..Len(q), j \in 1..Len(q) : i < j /\ q[i] = L[a] /\ q[j] = L[b]
    BY <1>5, <1>8
  <2> QED BY <1>1, <2>1
<1> QED BY <1>6, <1>7, <1>8

(* What is appended to a queue is sifted last.                             *)
LEMMA SiftAppend ==
  ASSUME NEW S, NEW q \in Seq(S), NEW e \in S, NEW P
  PROVE  Sift(Append(q, e), P) = IF e \in P THEN Append(Sift(q, P), e) ELSE Sift(q, P)
<1> DEFINE r == Append(q, e)
<1>1. /\ r \in Seq(S) /\ Len(r) = Len(q) + 1 /\ Len(q) \in Nat
      /\ \A i \in 1..Len(q) : r[i] = q[i]
      /\ r[Len(q) + 1] = e
  BY AppendProperties, LenProperties
<1> HIDE DEF r
<1>2. PICK F : /\ F = [i \in 0..Len(q) |->
                          IF i = 0 THEN <<>>
                          ELSE IF q[i] \in P THEN Append(F[i - 1], q[i]) ELSE F[i - 1]]
               /\ Sift(q, P) = F[Len(q)]
  BY SiftFcn
<1>3. PICK G : /\ G = [i \in 0..Len(r) |->
                          IF i = 0 THEN <<>>
                          ELSE IF r[i] \in P THEN Append(G[i - 1], r[i]) ELSE G[i - 1]]
               /\ Sift(r, P) = G[Len(r)]
  BY <1>1, SiftFcn
<1>4. \A n \in 0..Len(q) : G[n] = F[n]
  <2> DEFINE T == {n \in 0..Len(q) : G[n] # F[n]}
  <2> SUFFICES ASSUME T # {} PROVE FALSE
    OBVIOUS
  <2>1. PICK n \in T : \A m \in T : n <= m
    <3> HIDE DEF T
    <3>1. T \in SUBSET Nat
      BY <1>1 DEF T
    <3> QED BY <3>1, LeastNat
  <2>2. G[0] = <<>> /\ F[0] = <<>>
    BY <1>1, <1>2, <1>3
  <2>3. n # 0 /\ n \in 1..Len(q) /\ n - 1 \in 0..Len(q) /\ n \in 0..Len(q) /\ n \in 0..Len(r)
    BY <1>1, <2>1, <2>2
  <2>4. G[n - 1] = F[n - 1]
    BY <2>1, <2>3
  <2>5. G[n] = IF r[n] \in P THEN Append(G[n - 1], r[n]) ELSE G[n - 1]
    BY <1>3, <2>3
  <2>6. F[n] = IF q[n] \in P THEN Append(F[n - 1], q[n]) ELSE F[n - 1]
    BY <1>2, <2>3
  <2> QED BY <2>1, <2>3, <2>4, <2>5, <2>6, <1>1
<1>5. G[Len(q)] = F[Len(q)]
  BY <1>1, <1>4
<1>6. G[Len(r)] = IF r[Len(r)] \in P THEN Append(G[Len(r) - 1], r[Len(r)]) ELSE G[Len(r) - 1]
  <2>1. Len(r) # 0 /\ Len(r) \in 0..Len(r)
    BY <1>1
  <2> QED BY <2>1, <1>3
<1>7. Len(r) - 1 = Len(q)
  BY <1>1
<1>8. Sift(r, P) = IF e \in P THEN Append(Sift(q, P), e) ELSE Sift(q, P)
  BY <1>1, <1>2, <1>3, <1>5, <1>6, <1>7
<1> QED BY <1>8 DEF r

(* An empty queue stays empty.                                             *)
LEMMA SiftEmpty == \A P : Sift(<<>>, P) = <<>>
<1> SUFFICES ASSUME NEW P PROVE Sift(<<>>, P) = <<>>
  OBVIOUS
<1>0. <<>> \in Seq({}) /\ Len(<<>>) = 0
  OBVIOUS
<1>1. PICK q : q = <<>>
  OBVIOUS
<1>2. PICK F : /\ F = [i \in 0..Len(q) |->
                          IF i = 0 THEN <<>>
                          ELSE IF q[i] \in P THEN Append(F[i - 1], q[i]) ELSE F[i - 1]]
               /\ Sift(q, P) = F[Len(q)]
  <2>1. q \in Seq({})
    BY <1>0, <1>1
  <2> QED BY <2>1, SiftFcn
<1>3. F[0] = <<>>
  BY <1>0, <1>1, <1>2
<1> QED BY <1>0, <1>1, <1>2, <1>3

(* What is in the queue decides what is sifted.                            *)
LEMMA SiftSame ==
  ASSUME NEW S, NEW q \in Seq(S), NEW P, NEW R,
         \A i \in 1..Len(q) : q[i] \in P <=> q[i] \in R
  PROVE  Sift(q, P) = Sift(q, R)
<1>1. Len(q) \in Nat
  BY LenProperties
<1>2. PICK F : /\ F = [i \in 0..Len(q) |->
                          IF i = 0 THEN <<>>
                          ELSE IF q[i] \in P THEN Append(F[i - 1], q[i]) ELSE F[i - 1]]
               /\ Sift(q, P) = F[Len(q)]
  BY SiftFcn
<1>3. PICK G : /\ G = [i \in 0..Len(q) |->
                          IF i = 0 THEN <<>>
                          ELSE IF q[i] \in R THEN Append(G[i - 1], q[i]) ELSE G[i - 1]]
               /\ Sift(q, R) = G[Len(q)]
  BY SiftFcn
<1>4. \A n \in 0..Len(q) : G[n] = F[n]
  <2> DEFINE T == {n \in 0..Len(q) : G[n] # F[n]}
  <2> SUFFICES ASSUME T # {} PROVE FALSE
    OBVIOUS
  <2>1. PICK n \in T : \A m \in T : n <= m
    <3> HIDE DEF T
    <3>1. T \in SUBSET Nat
      BY <1>1 DEF T
    <3> QED BY <3>1, LeastNat
  <2>2. G[0] = <<>> /\ F[0] = <<>>
    BY <1>1, <1>2, <1>3
  <2>3. n # 0 /\ n \in 1..Len(q) /\ n - 1 \in 0..Len(q) /\ n \in 0..Len(q)
    BY <1>1, <2>1, <2>2
  <2>4. G[n - 1] = F[n - 1]
    BY <2>1, <2>3
  <2>5. G[n] = IF q[n] \in R THEN Append(G[n - 1], q[n]) ELSE G[n - 1]
    BY <1>3, <2>3
  <2>6. F[n] = IF q[n] \in P THEN Append(F[n - 1], q[n]) ELSE F[n - 1]
    BY <1>2, <2>3
  <2> QED BY <2>1, <2>3, <2>4, <2>5, <2>6
<1> QED BY <1>1, <1>2, <1>3, <1>4

(* A sequence that is not empty has a last element.                        *)
LEMMA FrontAndLast ==
  ASSUME NEW S, NEW r \in Seq(S), r # <<>>
  PROVE  \E o \in Seq(S) : \E e \in S : r = Append(o, e) /\ Len(o) = Len(r) - 1
<1> DEFINE o == SubSeq(r, 1, Len(r) - 1)
           e == r[Len(r)]
<1>1. Len(r) \in Nat \ {0} /\ DOMAIN r = 1..Len(r)
  BY LenProperties, EmptySeq
<1>2. o \in Seq(S) /\ Len(o) = Len(r) - 1 /\ \A i \in 1..(Len(r) - 1) : o[i] = r[i]
  BY <1>1
<1>3. e \in S
  BY <1>1, ElementOfSeq
<1> HIDE DEF o, e
<1>4. /\ Append(o, e) \in Seq(S) /\ Len(Append(o, e)) = Len(r)
      /\ \A i \in 1..Len(o) : Append(o, e)[i] = o[i]
      /\ Append(o, e)[Len(r)] = e
  <2>1. /\ Append(o, e) \in Seq(S) /\ Len(Append(o, e)) = Len(o) + 1
        /\ \A i \in 1..Len(o) : Append(o, e)[i] = o[i]
        /\ Append(o, e)[Len(o) + 1] = e
    BY <1>2, <1>3, AppendProperties
  <2>2. Len(o) + 1 = Len(r)
    BY <1>1, <1>2
  <2> QED BY <2>1, <2>2
<1>5. ASSUME NEW i \in 1..Len(r) PROVE Append(o, e)[i] = r[i]
  BY <1>1, <1>2, <1>4 DEF e
<1>6. r = Append(o, e)
  BY <1>1, <1>4, <1>5, SeqEqual
<1> QED BY <1>2, <1>3, <1>6

(* Concatenation and appending.                                            *)
LEMMA ConcatAppend ==
  ASSUME NEW S, NEW q \in Seq(S), NEW o \in Seq(S), NEW e \in S
  PROVE  q \o Append(o, e) = Append(q \o o, e)
<1>1. Append(o, e) = o \o <<e>> /\ Append(q \o o, e) = (q \o o) \o <<e>>
  <2>1. q \o o \in Seq(S)
    BY ConcatProperties
  <2> QED BY <2>1, AppendIsConcat
<1>2. <<e>> \in Seq(S)
  OBVIOUS
<1> QED BY <1>1, <1>2, ConcatAssociative

(* A sequence is its first element and the rest.                           *)
LEMMA HeadFirst ==
  ASSUME NEW S, NEW r \in Seq(S), r # <<>>
  PROVE  r = <<Head(r)>> \o Tail(r)
<1>1. PICK x \in S, t \in Seq(S) : x = Head(r) /\ t = Tail(r)
  BY PopHead
<1>2. PICK h \in Seq(S) : h = <<x>>
  <2>1. <<x>> \in Seq(S)
    OBVIOUS
  <2> QED BY <2>1
<1>3. /\ Len(r) \in Nat \ {0} /\ Len(t) = Len(r) - 1 /\ r[1] = x
      /\ \A i \in 1..(Len(r) - 1) : t[i] = r[i + 1]
  BY <1>1, PopHead
<1>4. PICK q \in Seq(S) : q = h \o t
  BY ConcatProperties
<1>5. Len(h) = 1 /\ h[1] = x
  BY <1>2
<1>6. Len(q) = 1 + Len(t) /\ \A i \in 1..(1 + Len(t)) : q[i] = IF i <= 1 THEN h[i] ELSE t[i - 1]
  <2>1. /\ Len(q) = Len(h) + Len(t)
        /\ \A i \in 1..(Len(h) + Len(t)) : q[i] = IF i <= Len(h) THEN h[i] ELSE t[i - Len(h)]
    BY <1>4, ConcatProperties
  <2> QED BY <2>1, <1>5
<1>7. ASSUME NEW i \in 1..Len(r) PROVE q[i] = r[i]
  <2>1. CASE i = 1
    <3>1. i \in 1..(1 + Len(t)) /\ i <= 1
      BY <1>3, <2>1
    <3> QED BY <2>1, <3>1, <1>3, <1>5, <1>6
  <2>2. CASE i # 1
    <3>1. i \in 1..(1 + Len(t)) /\ ~(i <= 1) /\ i - 1 \in 1..(Len(r) - 1) /\ (i - 1) + 1 = i
      BY <1>3, <2>2
    <3> QED BY <3>1, <1>3, <1>6
  <2> QED BY <2>1, <2>2
<1>8. Len(q) = Len(r)
  BY <1>3, <1>6
<1>9. q = r
  BY <1>7, <1>8, SeqEqual
<1> QED BY <1>1, <1>2, <1>4, <1>9

(* Queues may be sifted one after the other.                               *)
LEMMA SiftConcat ==
  ASSUME NEW S, NEW q \in Seq(S), NEW P
  PROVE  \A r \in Seq(S) : Sift(q \o r, P) = Sift(q, P) \o Sift(r, P)
<1> DEFINE Good(r) == Sift(q \o r, P) = Sift(q, P) \o Sift(r, P)
           T == {Len(r) : r \in {o \in Seq(S) : ~Good(o)}}
<1> SUFFICES ASSUME T # {} PROVE FALSE
  OBVIOUS
<1>1. PICK n \in T : \A m \in T : n <= m
  <2>1. T \in SUBSET Nat
    BY LenProperties
  <2> HIDE DEF T
  <2> QED BY <2>1, LeastNat
<1>2. PICK r \in Seq(S) : n = Len(r) /\ ~Good(r)
  BY <1>1
<1>3. Sift(q, P) \in Seq(S)
  BY SiftProps
<1>4. r # <<>>
  <2> SUFFICES ASSUME r = <<>> PROVE Good(r)
    BY <1>2
  <2>1. q \o r = q /\ Sift(q, P) \o <<>> = Sift(q, P)
    BY <1>3
  <2> QED BY <2>1, SiftEmpty
<1>5. PICK o \in Seq(S), e \in S : r = Append(o, e) /\ Len(o) = Len(r) - 1
  BY <1>4, FrontAndLast
<1>6. Good(o)
  <2> SUFFICES ASSUME ~Good(o) PROVE FALSE
    OBVIOUS
  <2>1. Len(o) \in T
    OBVIOUS
  <2>2. Len(o) \in Nat /\ Len(r) \in Nat
    BY LenProperties
  <2> HIDE DEF T
  <2> QED BY <1>1, <1>2, <1>5, <2>1, <2>2
<1> HIDE DEF T
<1>7. q \o r = Append(q \o o, e) /\ q \o o \in Seq(S)
  BY <1>5, ConcatAppend, ConcatProperties
<1>8. Sift(q \o r, P) = IF e \in P THEN Append(Sift(q \o o, P), e) ELSE Sift(q \o o, P)
  <2>1. PICK u \in Seq(S) : u = q \o o
    BY <1>7
  <2>2. Sift(Append(u, e), P) = IF e \in P THEN Append(Sift(u, P), e) ELSE Sift(u, P)
    BY SiftAppend
  <2> QED BY <1>7, <2>1, <2>2
<1>9. Sift(r, P) = IF e \in P THEN Append(Sift(o, P), e) ELSE Sift(o, P)
  BY <1>5, SiftAppend
<1>10. Sift(o, P) \in Seq(S)
  BY SiftProps
<1>11. Sift(q, P) \o Append(Sift(o, P), e) = Append(Sift(q, P) \o Sift(o, P), e)
  BY <1>3, <1>10, ConcatAppend
<1>12. Good(r)
  BY <1>6, <1>8, <1>9, <1>11
<1> QED BY <1>2, <1>12

(* FlattenSeq is what its definition says: the recursive function exists.  *)
LEMMA FlattenFcn ==
  ASSUME NEW S, NEW q \in Seq(S), q # <<>>
  PROVE  \E F : /\ F = [i \in 1..Len(q) |-> IF i = 1 THEN q[i] ELSE F[i - 1] \o q[i]]
                /\ FlattenSeq(q) = F[Len(q)]
<1> DEFINE Is(n, F) == F = [i \in 1..n |-> IF i = 1 THEN q[i] ELSE F[i - 1] \o q[i]]
<1>1. \A n \in Nat : \E F : Is(n, F)
  <2> DEFINE T == {n \in Nat : ~ \E F : Is(n, F)}
  <2> SUFFICES ASSUME T # {} PROVE FALSE
    OBVIOUS
  <2>1. PICK n \in T : \A m \in T : n <= m
    BY LeastNat
  <2>2. n # 0
    <3> DEFINE F == [i \in 1..0 |-> IF i = 1 THEN q[i] ELSE <<>>]
    <3>1. Is(0, F)
      OBVIOUS
    <3>2. \E E : Is(0, E)
      <4> HIDE DEF F
      <4> QED BY <3>1
    <3> HIDE DEF Is
    <3> QED BY <3>2, <2>1
  <2>3. n - 1 \in Nat /\ n - 1 \notin T /\ n \in Nat
    <3> HIDE DEF Is
    <3> QED BY <2>1, <2>2
  <2>4. PICK F : Is(n - 1, F)
    BY <2>3
  <2> DEFINE G == [i \in 1..n |->
                     IF i # n THEN F[i] ELSE IF n = 1 THEN q[n] ELSE F[n - 1] \o q[n]]
  <2> DEFINE Step(i) == IF i = 1 THEN q[i] ELSE G[i - 1] \o q[i]
  <2>5. ASSUME NEW i \in 1..n PROVE G[i] = Step(i)
    <3>1. CASE i = n /\ i = 1
      BY <3>1
    <3>2. CASE i = n /\ i # 1
      <4>1. G[n - 1] = F[n - 1]
        BY <3>2, <2>3
      <4>2. G[n] = F[n - 1] \o q[n]
        BY <3>2, <2>3
      <4> HIDE DEF G
      <4> QED BY <3>2, <4>1, <4>2
    <3>3. CASE i # n /\ i = 1
      <4>1. G[i] = F[i] /\ i \in 1..(n - 1)
        BY <3>3, <2>3
      <4>2. F[i] = q[i]
        BY <4>1, <3>3, <2>4
      <4> QED BY <4>1, <4>2, <3>3
    <3>4. CASE i # n /\ i # 1
      <4>1. G[i] = F[i] /\ i \in 1..(n - 1) /\ i - 1 \in 1..(n - 1) /\ i - 1 \in 1..n /\ i - 1 # n
        BY <3>4, <2>3
      <4>2. G[i - 1] = F[i - 1]
        BY <4>1
      <4>3. F[i] = F[i - 1] \o q[i]
        BY <4>1, <3>4, <2>4
      <4> HIDE DEF G
      <4> QED BY <4>1, <4>2, <4>3, <3>4
    <3> QED BY <3>1, <3>2, <3>3, <3>4
  <2>6. G = [i \in 1..n |-> G[i]]
    OBVIOUS
  <2> HIDE DEF G
  <2>7. Is(n, G)
    BY <2>5, <2>6
  <2> QED BY <2>1, <2>7
<1>2. Len(q) \in Nat /\ Len(q) # 0
  BY LenProperties, EmptySeq
<1> DEFINE H == CHOOSE F : Is(Len(q), F)
<1>3. Is(Len(q), H)
  <2>1. PICK F : Is(Len(q), F)
    BY <1>1, <1>2
  <2> QED BY <2>1
<1>4. FlattenSeq(q) = H[Len(q)]
  BY <1>2 DEF FlattenSeq
<1> HIDE DEF H
<1> QED BY <1>3, <1>4

(* Flattening goes on at the end.                                          *)
LEMMA FlattenAppend ==
  ASSUME NEW S, NEW q \in Seq(Seq(S)), NEW e \in Seq(S)
  PROVE  FlattenSeq(Append(q, e)) = FlattenSeq(q) \o e
<1>1. PICK r : r = Append(q, e)
  OBVIOUS
<1>2. /\ r \in Seq(Seq(S)) /\ Len(r) = Len(q) + 1 /\ Len(q) \in Nat /\ r # <<>>
      /\ \A i \in 1..Len(q) : r[i] = q[i]
      /\ r[Len(q) + 1] = e
  BY <1>1, AppendProperties, LenProperties
<1>3. PICK G : /\ G = [i \in 1..Len(r) |-> IF i = 1 THEN r[i] ELSE G[i - 1] \o r[i]]
               /\ FlattenSeq(r) = G[Len(r)]
  BY <1>2, FlattenFcn
<1>4. CASE q = <<>>
  <2>1. Len(r) = 1 /\ Len(q) = 0
    BY <1>2, <1>4, EmptySeq
  <2>2. FlattenSeq(r) = e
    BY <2>1, <1>2, <1>3
  <2>3. FlattenSeq(q) = <<>>
    BY <2>1, <1>4 DEF FlattenSeq
  <2> QED BY <1>1, <2>2, <2>3, ConcatEmptySeq
<1>5. CASE q # <<>>
  <2>1. Len(q) \in Nat \ {0}
    BY <1>2, <1>5, EmptySeq
  <2>2. PICK F : /\ F = [i \in 1..Len(q) |-> IF i = 1 THEN q[i] ELSE F[i - 1] \o q[i]]
                 /\ FlattenSeq(q) = F[Len(q)]
    BY <1>5, FlattenFcn
  <2>3. \A n \in 1..Len(q) : G[n] = F[n]
    <3> DEFINE T == {n \in 1..Len(q) : G[n] # F[n]}
    <3> SUFFICES ASSUME T # {} PROVE FALSE
      OBVIOUS
    <3>1. PICK n \in T : \A m \in T : n <= m
      <4> HIDE DEF T
      <4>1. T \in SUBSET Nat
        BY <1>2 DEF T
      <4> QED BY <4>1, LeastNat
    <3>2. n \in 1..Len(q) /\ n \in 1..Len(r) /\ n \in Nat
      BY <1>2, <3>1
    <3>3. n # 1
      <4>1. 1 \in 1..Len(q) /\ 1 \in 1..Len(r)
        <5>1. \A m \in Nat \ {0} : 1 \in 1..m /\ 1 \in 1..(m + 1)
          OBVIOUS
        <5> QED BY <5>1, <1>2, <2>1
      <4>2. G[1] = r[1] /\ F[1] = q[1] /\ r[1] = q[1]
        BY <4>1, <1>2, <1>3, <2>2
      <4> QED BY <4>2, <3>1
    <3>4. n - 1 \in 1..Len(q)
      <4>1. \A m, k \in Nat : k \in 1..m /\ k # 1 => k - 1 \in 1..m
        OBVIOUS
      <4> QED BY <4>1, <3>2, <3>3, <1>2
    <3>5. G[n - 1] = F[n - 1]
      BY <3>1, <3>2, <3>4
    <3>6. G[n] = G[n - 1] \o r[n]
      BY <1>3, <3>2, <3>3
    <3>7. F[n] = F[n - 1] \o q[n]
      BY <2>2, <3>2, <3>3
    <3> QED BY <3>1, <3>2, <3>5, <3>6, <3>7, <1>2
  <2>4. G[Len(q)] = F[Len(q)] /\ Len(r) - 1 = Len(q) /\ Len(r) # 1 /\ Len(r) \in 1..Len(r)
    BY <1>2, <2>1, <2>3
  <2>5. G[Len(r)] = G[Len(r) - 1] \o r[Len(r)]
    BY <1>3, <2>4
  <2>6. FlattenSeq(r) = FlattenSeq(q) \o e
    BY <1>2, <1>3, <2>2, <2>4, <2>5
  <2> QED BY <1>1, <2>6
<1> QED BY <1>4, <1>5
=============================================================================
