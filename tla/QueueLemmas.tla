---------------------------- MODULE QueueLemmas ----------------------------
(***************************************************************************)
(* Facts about sequences used as queues, for the proof modules: what the   *)
(* enqueue and the dequeue step do to the contents of a queue.             *)
(***************************************************************************)
EXTENDS Integers, Sequences, Functions, SequenceTheorems, FiniteSetTheorems, TLAPS

\* Dequeue: the head and what stays were in the queue.
LEMMA TailFacts ==
    ASSUME NEW S, NEW q \in Seq(S), q # <<>>
    PROVE  /\ Head(q) \in S /\ Tail(q) \in Seq(S)
           /\ Len(Tail(q)) = Len(q) - 1
           /\ \A i \in 1..Len(Tail(q)) : Tail(q)[i] = q[i + 1]
           /\ Head(q) \in Range(q)
           /\ Range(Tail(q)) \subseteq Range(q)
<1>1. /\ Head(q) \in S /\ Tail(q) \in Seq(S)
      /\ Len(Tail(q)) = Len(q) - 1
      /\ \A i \in 1..Len(Tail(q)) : Tail(q)[i] = q[i + 1]
  BY HeadTailProperties
<1>2. Len(q) \in Nat \ {0} /\ DOMAIN q = 1..Len(q) /\ DOMAIN Tail(q) = 1..Len(Tail(q))
  BY <1>1, EmptySeq, LenProperties
<1>3. Head(q) = q[1]
  OBVIOUS
<1>4. Head(q) \in Range(q)
  BY <1>2, <1>3 DEF Range
<1>5. Range(Tail(q)) \subseteq Range(q)
  <2>1. SUFFICES ASSUME NEW i \in 1..Len(Tail(q))
                 PROVE  Tail(q)[i] \in Range(q)
    BY <1>2 DEF Range
  <2>2. i + 1 \in DOMAIN q
    BY <1>1, <1>2
  <2> QED
    BY <1>1, <2>2 DEF Range
<1> QED
  BY <1>1, <1>4, <1>5

\* Enqueue: the contents grow by the element, at the end.
LEMMA AppendFacts ==
    ASSUME NEW S, NEW q \in Seq(S), NEW x \in S
    PROVE  /\ Append(q, x) \in Seq(S)
           /\ Len(Append(q, x)) = Len(q) + 1
           /\ \A i \in 1..Len(q) : Append(q, x)[i] = q[i]
           /\ Append(q, x)[Len(q) + 1] = x
           /\ Range(Append(q, x)) = Range(q) \cup {x}
<1>1. /\ Append(q, x) \in Seq(S)
      /\ Len(Append(q, x)) = Len(q) + 1
      /\ \A i \in 1..Len(q) : Append(q, x)[i] = q[i]
      /\ Append(q, x)[Len(q) + 1] = x
  BY AppendProperties
<1>2. Len(q) \in Nat /\ DOMAIN q = 1..Len(q) /\ DOMAIN Append(q, x) = 1..(Len(q) + 1)
  BY <1>1, LenProperties
<1>3. DOMAIN Append(q, x) = DOMAIN q \cup {Len(q) + 1}
  BY <1>2
<1> QED
  BY <1>1, <1>2, <1>3 DEF Range

\* The empty queue has no contents.
LEMMA EmptyFacts == Range(<<>>) = {} /\ \A S : <<>> \in Seq(S)
BY EmptySeq DEF Range

\* Moving the head of a queue to the end of what was taken keeps their
\* concatenation; so does adding at the end of the queue.
LEMMA MoveHead ==
    ASSUME NEW S, NEW t \in Seq(S), NEW q \in Seq(S), q # <<>>
    PROVE  Append(t, Head(q)) \o Tail(q) = t \o q
<1> DEFINE u == Append(t, Head(q)) \o Tail(q)
           v == t \o q
<1>1. /\ Head(q) \in S /\ Tail(q) \in Seq(S) /\ Len(Tail(q)) = Len(q) - 1
      /\ \A i \in 1..Len(Tail(q)) : Tail(q)[i] = q[i + 1]
      /\ Head(q) = q[1] /\ Len(q) \in Nat /\ Len(t) \in Nat
  BY TailFacts, LenProperties
<1>2. /\ Append(t, Head(q)) \in Seq(S) /\ Len(Append(t, Head(q))) = Len(t) + 1
      /\ \A i \in 1..Len(t) : Append(t, Head(q))[i] = t[i]
      /\ Append(t, Head(q))[Len(t) + 1] = q[1]
  BY <1>1, AppendFacts
<1>3. /\ u \in Seq(S) /\ Len(u) = Len(t) + 1 + (Len(q) - 1)
      /\ \A i \in 1..Len(u) : u[i] = IF i <= Len(t) + 1 THEN Append(t, Head(q))[i]
                                      ELSE Tail(q)[i - (Len(t) + 1)]
  BY <1>1, <1>2, ConcatProperties
<1>4. /\ v \in Seq(S) /\ Len(v) = Len(t) + Len(q)
      /\ \A i \in 1..Len(v) : v[i] = IF i <= Len(t) THEN t[i] ELSE q[i - Len(t)]
  BY <1>1, ConcatProperties
<1>5. ASSUME NEW i \in 1..Len(v) PROVE u[i] = v[i]
  <2> HIDE DEF u, v
  <2>1. CASE i <= Len(t)
    BY <1>1, <1>2, <1>3, <1>4, <2>1
  <2>2. CASE i = Len(t) + 1
    <3>1. i \in 1..Len(u) /\ i <= Len(t) + 1 /\ ~(i <= Len(t)) /\ i - Len(t) = 1
      BY <1>1, <1>3, <1>4, <2>2
    <3>2. u[i] = Append(t, Head(q))[i]
      BY <1>3, <3>1
    <3>3. v[i] = q[1]
      BY <1>4, <3>1
    <3> QED
      BY <1>2, <2>2, <3>2, <3>3
  <2>3. CASE i > Len(t) + 1
    <3> DEFINE j == i - (Len(t) + 1)
    <3>1. /\ j \in 1..Len(Tail(q)) /\ j + 1 = i - Len(t)
          /\ i \in 1..Len(u) /\ ~(i <= Len(t) + 1) /\ ~(i <= Len(t))
      BY <1>1, <1>3, <1>4, <2>3
    <3>2. u[i] = Tail(q)[j]
      BY <1>3, <3>1
    <3>3. v[i] = q[j + 1]
      BY <1>4, <3>1
    <3> HIDE DEF j
    <3> QED
      BY <1>1, <3>1, <3>2, <3>3
  <2>4. i \in Int /\ Len(t) \in Int
    BY <1>1
  <2> QED
    BY <2>1, <2>2, <2>3, <2>4
<1>6. Len(u) = Len(v)
  BY <1>1, <1>3, <1>4
<1> QED
  BY <1>3, <1>4, <1>5, <1>6, SeqEqual

LEMMA AddLast ==
    ASSUME NEW S, NEW t \in Seq(S), NEW q \in Seq(S), NEW x \in S
    PROVE  t \o Append(q, x) = Append(t \o q, x)
<1> DEFINE u == Append(t \o q, x)
           v == t \o Append(q, x)
<1>1. /\ t \o q \in Seq(S) /\ Len(t \o q) = Len(t) + Len(q)
      /\ \A i \in 1..Len(t) + Len(q) : (t \o q)[i] = IF i <= Len(t) THEN t[i]
                                                  ELSE q[i - Len(t)]
      /\ Len(q) \in Nat /\ Len(t) \in Nat
  BY ConcatProperties, LenProperties
<1>2. /\ u \in Seq(S) /\ Len(u) = Len(t) + Len(q) + 1
      /\ \A i \in 1..Len(t) + Len(q) : u[i] = (t \o q)[i]
      /\ u[Len(t) + Len(q) + 1] = x
  BY <1>1, AppendFacts
<1>3. /\ Append(q, x) \in Seq(S) /\ Len(Append(q, x)) = Len(q) + 1
      /\ \A i \in 1..Len(q) : Append(q, x)[i] = q[i]
      /\ Append(q, x)[Len(q) + 1] = x
  BY AppendFacts
<1>4. /\ v \in Seq(S) /\ Len(v) = Len(t) + (Len(q) + 1)
      /\ \A i \in 1..Len(v) : v[i] = IF i <= Len(t) THEN t[i]
                                      ELSE Append(q, x)[i - Len(t)]
  BY <1>1, <1>3, ConcatProperties
<1>5. ASSUME NEW i \in 1..Len(v) PROVE u[i] = v[i]
  <2> HIDE DEF u, v
  <2>1. CASE i <= Len(t)
    <3>1. i \in 1..Len(t) + Len(q)
      BY <1>1, <2>1
    <3> QED
      BY <1>1, <1>2, <1>4, <2>1, <3>1
  <2>2. CASE i > Len(t) /\ i <= Len(t) + Len(q)
    <3> DEFINE j == i - Len(t)
    <3>1. i \in 1..Len(t) + Len(q) /\ ~(i <= Len(t)) /\ j \in 1..Len(q)
      BY <1>1, <2>2
    <3>2. u[i] = q[j]
      BY <1>1, <1>2, <3>1
    <3>3. v[i] = Append(q, x)[j]
      BY <1>4, <3>1
    <3> HIDE DEF j
    <3> QED
      BY <1>3, <3>1, <3>2, <3>3
  <2>3. CASE i = Len(t) + Len(q) + 1
    BY <1>1, <1>2, <1>3, <1>4, <2>3
  <2> QED
    BY <1>1, <1>4, <2>1, <2>2, <2>3
<1>6. Len(u) = Len(v)
  BY <1>1, <1>2, <1>4
<1> QED
  BY <1>2, <1>4, <1>5, <1>6, SeqEqual

-----------------------------------------------------------------------------
(* Counting the elements of a queue that are of some kind.                 *)

PlacesOf(q, S) == {i \in DOMAIN q : q[i] \in S}

CountIn(q, S) == Cardinality(PlacesOf(q, S))

LEMMA CountType ==
    ASSUME NEW T, NEW q \in Seq(T), NEW S
    PROVE  /\ CountIn(q, S) \in Nat
           /\ PlacesOf(q, S) \subseteq 1..Len(q) /\ IsFiniteSet(PlacesOf(q, S))
<1>1. Len(q) \in Nat /\ DOMAIN q = 1..Len(q)
  BY LenProperties
<1>2. IsFiniteSet(1..Len(q))
  BY <1>1, FS_Interval
<1>3. PlacesOf(q, S) \subseteq 1..Len(q)
  BY <1>1 DEF PlacesOf
<1>4. IsFiniteSet(PlacesOf(q, S))
  BY <1>2, <1>3, FS_Subset
<1> QED
  BY <1>3, <1>4, FS_CardinalityType DEF CountIn

LEMMA CountEmpty == \A S : CountIn(<<>>, S) = 0
<1> SUFFICES ASSUME NEW S PROVE CountIn(<<>>, S) = 0
  OBVIOUS
<1>1. DOMAIN <<>> = {}
  OBVIOUS
<1>2. PlacesOf(<<>>, S) = {}
  BY <1>1 DEF PlacesOf
<1> QED
  BY <1>2, FS_EmptySet DEF CountIn

LEMMA CountAppend ==
    ASSUME NEW T, NEW q \in Seq(T), NEW x \in T, NEW S
    PROVE  CountIn(Append(q, x), S) = CountIn(q, S) + IF x \in S THEN 1 ELSE 0
<1> DEFINE n == Len(q)
<1>1. /\ n \in Nat /\ DOMAIN q = 1..n /\ DOMAIN Append(q, x) = 1..(n + 1)
      /\ \A i \in 1..n : Append(q, x)[i] = q[i]
      /\ Append(q, x)[n + 1] = x
  BY AppendFacts, LenProperties
<1>2. /\ CountIn(q, S) \in Nat /\ IsFiniteSet(PlacesOf(q, S)) /\ PlacesOf(q, S) \subseteq 1..n
  BY CountType
<1> HIDE DEF n
<1>3. n + 1 \notin PlacesOf(q, S) /\ 1..(n + 1) = 1..n \cup {n + 1}
  BY <1>1, <1>2
<1>4. CASE x \in S
  <2>1. PlacesOf(Append(q, x), S) = PlacesOf(q, S) \cup {n + 1}
    BY <1>1, <1>3, <1>4 DEF PlacesOf
  <2> QED
    BY <1>2, <1>3, <1>4, <2>1, FS_AddElement DEF CountIn
<1>5. CASE x \notin S
  <2>1. PlacesOf(Append(q, x), S) = PlacesOf(q, S)
    BY <1>1, <1>3, <1>5 DEF PlacesOf
  <2> QED
    BY <1>2, <1>5, <2>1 DEF CountIn
<1> QED
  BY <1>4, <1>5

LEMMA CountTail ==
    ASSUME NEW T, NEW q \in Seq(T), q # <<>>, NEW S
    PROVE  CountIn(q, S) = CountIn(Tail(q), S) + IF Head(q) \in S THEN 1 ELSE 0
<1> DEFINE n == Len(q)
           A == PlacesOf(Tail(q), S)
           B == PlacesOf(q, S) \ {1}
           f == [i \in A |-> i + 1]
<1>1. /\ n \in Nat \ {0} /\ DOMAIN q = 1..n /\ DOMAIN Tail(q) = 1..(n - 1)
      /\ \A i \in 1..(n - 1) : Tail(q)[i] = q[i + 1]
      /\ Head(q) = q[1] /\ Tail(q) \in Seq(T)
  BY TailFacts, EmptySeq, LenProperties
<1>2. /\ IsFiniteSet(A) /\ IsFiniteSet(PlacesOf(q, S)) /\ CountIn(q, S) \in Nat
      /\ CountIn(Tail(q), S) \in Nat
  BY <1>1, CountType
<1> HIDE DEF n
<1>3. \A i \in A : i \in 1..(n - 1) /\ i + 1 \in B
  BY <1>1 DEF PlacesOf
<1>4. \A j \in B : j - 1 \in A /\ (j - 1) + 1 = j
  BY <1>1 DEF PlacesOf
<1>5. f \in Bijection(A, B)
  <2>1. f \in [A -> B]
    BY <1>3
  <2>2. \A i, k \in A : f[i] = f[k] => i = k
    BY <1>3
  <2>3. \A j \in B : \E i \in A : f[i] = j
    BY <1>4
  <2> HIDE DEF A, B, f
  <2> QED
    BY <2>1, <2>2, <2>3 DEF Bijection, Injection, IsInjective, Surjection
<1>6. IsFiniteSet(B) /\ Cardinality(B) = Cardinality(A)
  BY <1>2, <1>5, FS_Bijection DEF ExistsBijection
<1>7. Cardinality(B) = IF 1 \in PlacesOf(q, S) THEN Cardinality(PlacesOf(q, S)) - 1
                       ELSE Cardinality(PlacesOf(q, S))
  BY <1>2, FS_RemoveElement
<1>8. 1 \in PlacesOf(q, S) <=> Head(q) \in S
  BY <1>1 DEF PlacesOf
<1> QED
  BY <1>2, <1>6, <1>7, <1>8 DEF CountIn

-----------------------------------------------------------------------------
(* Numbers that wrap.                                                      *)

LEMMA Quotient ==
    ASSUME NEW m \in Nat \ {0}, NEW x \in Nat
    PROVE  \E q \in Int : x = q * m + (x % m) /\ x % m \in 0..(m - 1)
<1>1. x = (x \div m) * m + (x % m) /\ x \div m \in Int /\ x % m \in 0..(m - 1)
  OBVIOUS
<1> QED
  BY <1>1

LEMMA Remainder ==
    ASSUME NEW m \in Nat \ {0}, NEW q \in Int, NEW r \in 0..(m - 1)
    PROVE  (q * m + r) % m = r
OBVIOUS

\* Counting on after a reduction is counting on before it.
LEMMA ReducedSum ==
    ASSUME NEW m \in Nat \ {0}, NEW x \in Nat
    PROVE  ((x % m) + 1) % m = (x + 1) % m
<1>1. PICK q \in Int : x = q * m + (x % m) /\ x % m \in 0..(m - 1)
  BY Quotient
<1> PICK r \in 0..(m - 1) : r = x % m
  BY <1>1
<1>2. x = q * m + r
  BY <1>1
<1>3. CASE r + 1 = m
  <2>1. x + 1 = (q + 1) * m + 0 /\ q + 1 \in Int /\ 0 \in 0..(m - 1)
    BY <1>2, <1>3
  <2>2. ((q + 1) * m + 0) % m = 0
    BY <2>1, Remainder
  <2>3. (r + 1) % m = 0
    BY <1>3
  <2> QED
    BY <2>1, <2>2, <2>3
<1>4. CASE r + 1 # m
  <2>1. x + 1 = q * m + (r + 1) /\ r + 1 \in 0..(m - 1)
    BY <1>2, <1>4
  <2>2. (q * m + (r + 1)) % m = r + 1
    BY <2>1, Remainder
  <2>3. (r + 1) % m = r + 1
    BY <2>1
  <2> QED
    BY <2>1, <2>2, <2>3
<1> QED
  BY <1>3, <1>4

\* Numbers with the same remainder are a turn apart at least.
LEMMA SameRemainder ==
    ASSUME NEW m \in Nat \ {0}, NEW x \in Nat, NEW y \in Nat, x < y, x % m = y % m
    PROVE  y - x >= m
<1>1. PICK p \in Int : x = p * m + (x % m) /\ x % m \in 0..(m - 1)
  BY Quotient
<1>2. PICK q \in Int : y = q * m + (y % m) /\ y % m \in 0..(m - 1)
  BY Quotient
<1> PICK d \in Int : d = q - p
  OBVIOUS
<1>3. y - x = d * m
  BY <1>1, <1>2
<1>4. d * m > 0
  BY <1>3
<1>5. d >= 1
  BY <1>4
<1>6. d * m >= m
  BY <1>5
<1> QED
  BY <1>3, <1>6

=============================================================================
