------------------------------- MODULE Ordering -------------------------------
(***************************************************************************)
(* Lemmas about order, for the proofs of several components.               *)
(*                                                                         *)
(* A finite set whose elements carry distinct numbers is enumerated by the *)
(* rank of its elements: how many of them have a smaller number.  Entries  *)
(* of the outbox are read in this way by their id (Realtime), files of the *)
(* spool by the number in their name (EventDelivery).                      *)
(*                                                                         *)
(* Numbered messages that pass through a row of queues stay in order when  *)
(* each queue is in order and precedes the one behind it (SignalWorker,    *)
(* TelegramWorker).                                                        *)
(***************************************************************************)
EXTENDS Integers, Sequences, FiniteSets, FiniteSetTheorems, WellFoundedInduction, TLAPS

\* The elements of S with a smaller number than x.
Below(S, f, x) == {y \in S : f[y] < f[x]}

Rank(S, f, x) == Cardinality(Below(S, f, x))

\* A nonempty set of natural numbers has a least element.
LEMMA LeastNumber ==
    ASSUME NEW T, T \subseteq Nat, T # {}
    PROVE  \E n \in T : \A m \in T : n <= m
<1>1. PICK n \in T : \A m \in T : <<m, n>> \notin OpToRel(<, Nat)
    BY WFMin, NatLessThanWellFounded, Zenon
<1>2. \A m \in T : ~(m < n)
    BY <1>1 DEF OpToRel
<1>. QED BY <1>2

\* A nonempty numbered set has an element with the least number.
LEMMA LeastElement ==
    ASSUME NEW S, NEW f \in [S -> Nat], NEW U, U \subseteq S, U # {}
    PROVE  \E x \in U : \A y \in U : f[x] <= f[y]
<1> DEFINE T == {f[x] : x \in U}
<1>1. T \subseteq Nat /\ T # {}
    OBVIOUS
<1>2. PICK n \in T : \A m \in T : n <= m
    BY <1>1, LeastNumber
<1>. QED BY <1>2

\* Ranks are natural numbers below the size of the set.
LEMMA RankBound ==
    ASSUME NEW S, IsFiniteSet(S), NEW f \in [S -> Nat], NEW x \in S
    PROVE  /\ IsFiniteSet(Below(S, f, x))
           /\ Rank(S, f, x) \in 0..Cardinality(S) - 1
<1>1. Below(S, f, x) \in SUBSET S /\ x \notin Below(S, f, x)
    BY DEF Below
<1>2. /\ IsFiniteSet(Below(S, f, x))
      /\ Cardinality(Below(S, f, x)) <= Cardinality(S)
      /\ Cardinality(S) # Cardinality(Below(S, f, x))
    BY <1>1, FS_Subset
<1>3. Cardinality(S) \in Nat /\ Cardinality(Below(S, f, x)) \in Nat
    BY <1>2, FS_CardinalityType
<1>. QED BY <1>2, <1>3 DEF Rank

\* The order of the ranks is the order of the numbers.
LEMMA RankMonotone ==
    ASSUME NEW S, IsFiniteSet(S), NEW f \in [S -> Nat], NEW x \in S, NEW y \in S,
           f[x] < f[y]
    PROVE  Rank(S, f, x) < Rank(S, f, y)
<1>1. Below(S, f, x) \in SUBSET Below(S, f, y)
    BY DEF Below
<1>2. x \in Below(S, f, y) /\ x \notin Below(S, f, x)
    BY DEF Below
<1>3. IsFiniteSet(Below(S, f, y))
    BY RankBound
<1>4. /\ IsFiniteSet(Below(S, f, x))
      /\ Cardinality(Below(S, f, x)) <= Cardinality(Below(S, f, y))
      /\ Cardinality(Below(S, f, y)) # Cardinality(Below(S, f, x))
    BY <1>1, <1>2, <1>3, FS_Subset
<1>5. Cardinality(Below(S, f, x)) \in Nat /\ Cardinality(Below(S, f, y)) \in Nat
    BY <1>3, <1>4, FS_CardinalityType
<1>. QED BY <1>4, <1>5 DEF Rank

\* Every number below the size of the set is the rank of exactly one element,
\* if no two elements carry the same number.
LEMMA RankExists ==
    ASSUME NEW S, IsFiniteSet(S), NEW f \in [S -> Nat],
           \A x, y \in S : f[x] = f[y] => x = y,
           NEW k \in 0..Cardinality(S) - 1
    PROVE  \E x \in S : Rank(S, f, x) = k
<1> DEFINE Missing == {n \in Nat : n < Cardinality(S) /\ \A x \in S : Rank(S, f, x) # n}
<1>a. Cardinality(S) \in Nat
    BY FS_CardinalityType
<1>1. SUFFICES ASSUME Missing # {} PROVE FALSE
    BY <1>a
<1>2. PICK n \in Missing : \A m \in Missing : n <= m
    BY <1>1, LeastNumber
<1>3. n \in Nat /\ n < Cardinality(S) /\ \A x \in S : Rank(S, f, x) # n
    BY <1>2
<1>4. CASE n = 0
  <2>1. S # {}
    BY <1>3, <1>4, FS_EmptySet
  <2>2. PICK x \in S : \A y \in S : f[x] <= f[y]
    BY <2>1, LeastElement
  <2>3. Below(S, f, x) = {}
    BY <2>2 DEF Below
  <2>. QED BY <1>3, <1>4, <2>3, FS_EmptySet DEF Rank
<1>5. CASE n # 0
  <2>1. n - 1 \in Nat /\ n - 1 < Cardinality(S) /\ n - 1 \notin Missing
    BY <1>2, <1>3, <1>5, <1>a
  <2>2. PICK x \in S : Rank(S, f, x) = n - 1
    BY <2>1
  <2> DEFINE Above == {y \in S : f[x] < f[y]}
  <2>3. IsFiniteSet(Below(S, f, x))
    BY RankBound
  <2>3a. x \notin Below(S, f, x)
    BY DEF Below
  <2>4. Cardinality(Below(S, f, x) \cup {x}) = Cardinality(Below(S, f, x)) + 1
    BY <2>3, <2>3a, FS_AddElement
  <2>5. Cardinality(Below(S, f, x) \cup {x}) = n
    BY <1>3, <2>2, <2>4 DEF Rank
  <2>6. Above # {}
    <3>1. SUFFICES ASSUME Above = {} PROVE FALSE
      OBVIOUS
    <3>2. S = Below(S, f, x) \cup {x}
      BY <3>1 DEF Below
    <3>. QED BY <3>2, <2>5, <1>3, <1>a
  <2>7. PICK z \in Above : \A y \in Above : f[z] <= f[y]
    BY <2>6, LeastElement
  <2>8. Below(S, f, z) = Below(S, f, x) \cup {x}
    BY <2>7 DEF Below
  <2>. QED BY <1>3, <2>5, <2>7, <2>8 DEF Rank
<1>. QED BY <1>4, <1>5

\* A nonempty finite set has an element that carries the largest number.
LEMMA LargestElement ==
    ASSUME NEW S, IsFiniteSet(S), S # {}, NEW f \in [S -> Nat],
           \A x, y \in S : f[x] = f[y] => x = y
    PROVE  \E x \in S : \A y \in S : f[y] <= f[x]
<1>1. Cardinality(S) \in Nat /\ Cardinality(S) # 0
    BY FS_CardinalityType, FS_EmptySet
<1>2. PICK x \in S : Rank(S, f, x) = Cardinality(S) - 1
    BY <1>1, RankExists
<1>3. ASSUME NEW y \in S, f[x] < f[y] PROVE FALSE
    BY <1>1, <1>2, <1>3, RankBound, RankMonotone
<1>. QED BY <1>3

-----------------------------------------------------------------------------
(* Queues                                                                  *)

\* The head and the rest of a queue.
LEMMA TailOfQueue ==
    ASSUME NEW T, NEW q \in Seq(T), q # <<>>
    PROVE  /\ Head(q) \in T /\ Head(q) = q[1] /\ 1 \in 1..Len(q)
           /\ Tail(q) \in Seq(T) /\ Len(Tail(q)) = Len(q) - 1
           /\ \A j \in 1..Len(q) - 1 : Tail(q)[j] = q[j + 1]
    OBVIOUS

\* A sequence over a part of a set.
LEMMA Widen ==
    ASSUME NEW T, NEW S \in SUBSET T, NEW b \in Seq(S)
    PROVE  b \in Seq(T) /\ Len(b) \in Nat /\ \A j \in 1..Len(b) : b[j] \in S
    OBVIOUS

\* Two queues, one behind the other.
LEMMA Joined ==
    ASSUME NEW T, NEW q \in Seq(T), NEW p \in Seq(T)
    PROVE  /\ Len(q \o p) = Len(q) + Len(p) /\ Len(q) \in Nat /\ Len(p) \in Nat
           /\ \A k \in 1..Len(q) : (q \o p)[k] = q[k]
           /\ \A i \in 1..Len(p) : (q \o p)[Len(q) + i] = p[i]
    OBVIOUS

\* A queue that something has joined is not empty.
LEMMA Nonempty ==
    ASSUME NEW T, NEW q \in Seq(T), NEW e \in T
    PROVE  Append(q, e) # <<>>
<1>1. Len(Append(q, e)) = Len(q) + 1 /\ Len(q) \in Nat
    OBVIOUS
<1>2. Len(<<>>) = 0
    OBVIOUS
<1>. QED BY <1>1, <1>2

\* A channel with room for another value.
LEMMA Room ==
    ASSUME NEW T, NEW q \in Seq(T), NEW e \in T, NEW limit \in Nat, Len(q) < limit
    PROVE  Append(q, e) \in Seq(T) /\ Len(Append(q, e)) <= limit
    OBVIOUS

\* The members of T in a queue, and that they are in order.
Among(s, T) == {m \in T : \E i \in 1..Len(s) : s[i] = m}

Ordered(s, T) ==
    \A i, j \in 1..Len(s) : i < j /\ s[i] \in T /\ s[j] \in T => s[i] < s[j]

Precedes(A, B) == \A m \in A, n \in B : m < n

\* An empty queue is in order.
LEMMA EmptyQueue ==
    ASSUME NEW T
    PROVE  Among(<<>>, T) = {} /\ Ordered(<<>>, T)
    BY DEF Among, Ordered

\* A send on a channel.
LEMMA QueueAppend ==
    ASSUME NEW T, NEW s \in Seq(Nat), NEW e \in Nat
    PROVE  /\ Among(Append(s, e), T) = Among(s, T) \cup ({e} \cap T)
           /\ Ordered(s, T) /\ Precedes(Among(s, T), {e} \cap T) => Ordered(Append(s, e), T)
<1>1. /\ Len(Append(s, e)) = Len(s) + 1 /\ Len(s) \in Nat
      /\ Append(s, e)[Len(s) + 1] = e
      /\ \A i \in 1..Len(s) : Append(s, e)[i] = s[i] /\ i \in 1..Len(s) + 1
      /\ \A i \in 1..Len(s) + 1 : i \in 1..Len(s) \/ i = Len(s) + 1
    OBVIOUS
<1>2. Among(Append(s, e), T) = Among(s, T) \cup ({e} \cap T)
    BY <1>1 DEF Among
<1>3. ASSUME Ordered(s, T), Precedes(Among(s, T), {e} \cap T)
      PROVE  Ordered(Append(s, e), T)
    BY <1>1, <1>3 DEF Among, Ordered, Precedes
<1>. QED BY <1>2, <1>3

\* A receive from a channel.
LEMMA QueueTail ==
    ASSUME NEW T, NEW s \in Seq(Nat), s # <<>>
    PROVE  /\ Head(s) \in Nat
           /\ Among(s, T) = ({Head(s)} \cap T) \cup Among(Tail(s), T)
           /\ Ordered(s, T) => /\ Ordered(Tail(s), T)
                               /\ Precedes({Head(s)} \cap T, Among(Tail(s), T))
<1>1. /\ Head(s) = s[1] /\ Head(s) \in Nat /\ Len(s) \in Nat /\ Len(s) > 0
      /\ Len(Tail(s)) = Len(s) - 1
      /\ \A i \in 1..Len(s) - 1 : Tail(s)[i] = s[i + 1] /\ i + 1 \in 1..Len(s)
      /\ \A i \in 1..Len(s) : i = 1 \/ (i - 1 \in 1..Len(s) - 1 /\ (i - 1) + 1 = i)
    OBVIOUS
<1>2. Among(s, T) = ({Head(s)} \cap T) \cup Among(Tail(s), T)
    BY <1>1 DEF Among
<1>3. ASSUME Ordered(s, T) PROVE Ordered(Tail(s), T)
  <2> SUFFICES ASSUME NEW i \in 1..Len(s) - 1, NEW j \in 1..Len(s) - 1, i < j,
                      Tail(s)[i] \in T, Tail(s)[j] \in T
               PROVE  Tail(s)[i] < Tail(s)[j]
    BY <1>1 DEF Ordered
  <2>1. i + 1 < j + 1
    OBVIOUS
  <2>. QED BY <1>1, <1>3, <2>1 DEF Ordered
<1>4. ASSUME Ordered(s, T) PROVE Precedes({Head(s)} \cap T, Among(Tail(s), T))
  <2> SUFFICES ASSUME NEW i \in 1..Len(s) - 1, Head(s) \in T, Tail(s)[i] \in T
               PROVE  Head(s) < Tail(s)[i]
    BY <1>1 DEF Precedes, Among
  <2>1. 1 < i + 1 /\ 1 \in 1..Len(s)
    BY <1>1
  <2>. QED BY <1>1, <1>4, <2>1 DEF Ordered
<1>. QED BY <1>1, <1>2, <1>3, <1>4

\* Two queues, one behind the other.
LEMMA QueueJoin ==
    ASSUME NEW T, NEW s \in Seq(Nat), NEW t \in Seq(Nat)
    PROVE  /\ s \o t \in Seq(Nat)
           /\ Among(s \o t, T) = Among(s, T) \cup Among(t, T)
           /\ Ordered(s, T) /\ Ordered(t, T) /\ Precedes(Among(s, T), Among(t, T)) =>
                 Ordered(s \o t, T)
<1>1. /\ Len(s) \in Nat /\ Len(t) \in Nat /\ Len(s \o t) = Len(s) + Len(t)
      /\ \A i \in 1..Len(s) : (s \o t)[i] = s[i] /\ i \in 1..Len(s) + Len(t)
      /\ \A i \in 1..Len(t) : (s \o t)[Len(s) + i] = t[i] /\ Len(s) + i \in 1..Len(s) + Len(t)
      /\ \A i \in 1..Len(s) + Len(t) :
            i \in 1..Len(s) \/ (i - Len(s) \in 1..Len(t) /\ Len(s) + (i - Len(s)) = i)
    OBVIOUS
<1>2. s \o t \in Seq(Nat)
    OBVIOUS
<1>3. Among(s \o t, T) = Among(s, T) \cup Among(t, T)
  <2>1. ASSUME NEW m \in Among(s \o t, T) PROVE m \in Among(s, T) \cup Among(t, T)
    <3>1. PICK i \in 1..Len(s) + Len(t) : (s \o t)[i] = m
      BY <1>1, <2>1 DEF Among
    <3>2. CASE i \in 1..Len(s)
      BY <1>1, <2>1, <3>1, <3>2 DEF Among
    <3>3. CASE i - Len(s) \in 1..Len(t) /\ Len(s) + (i - Len(s)) = i
      <4>1. t[i - Len(s)] = m
        BY <1>1, <3>1, <3>3
      <4>. QED BY <2>1, <3>3, <4>1 DEF Among
    <3>. QED BY <1>1, <3>2, <3>3
  <2>2. ASSUME NEW m \in Among(s, T) \cup Among(t, T) PROVE m \in Among(s \o t, T)
    BY <1>1, <2>2 DEF Among
  <2>. QED BY <2>1, <2>2
<1>4. ASSUME Ordered(s, T), Ordered(t, T), Precedes(Among(s, T), Among(t, T))
      PROVE  Ordered(s \o t, T)
  <2> SUFFICES ASSUME NEW i \in 1..Len(s) + Len(t), NEW j \in 1..Len(s) + Len(t), i < j,
                      (s \o t)[i] \in T, (s \o t)[j] \in T
               PROVE  (s \o t)[i] < (s \o t)[j]
    BY <1>1 DEF Ordered
  <2>1. CASE i \in 1..Len(s) /\ j \in 1..Len(s)
    BY <1>1, <1>4, <2>1 DEF Ordered
  <2>2. CASE i \in 1..Len(s) /\ j - Len(s) \in 1..Len(t)
    <3>1. (s \o t)[i] = s[i] /\ (s \o t)[j] = t[j - Len(s)]
      BY <1>1, <2>2
    <3>2. s[i] \in Among(s, T) /\ t[j - Len(s)] \in Among(t, T)
      BY <2>2, <3>1 DEF Among
    <3>. QED BY <1>4, <3>1, <3>2 DEF Precedes
  <2>3. CASE i - Len(s) \in 1..Len(t) /\ j - Len(s) \in 1..Len(t)
    <3>1. (s \o t)[i] = t[i - Len(s)] /\ (s \o t)[j] = t[j - Len(s)]
      BY <1>1, <2>3
    <3>2. i - Len(s) < j - Len(s)
      BY <1>1
    <3>. QED BY <1>4, <2>3, <3>1, <3>2 DEF Ordered
  <2>. QED BY <1>1, <2>1, <2>2, <2>3
<1>. QED BY <1>2, <1>3, <1>4
=============================================================================
