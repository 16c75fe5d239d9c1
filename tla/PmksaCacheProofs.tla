-------------------------- MODULE PmksaCacheProofs --------------------------
(***************************************************************************)
(* Proofs about PmksaCache, for any BSSs, supplicants, addresses, PMKs,    *)
(* limits, lifetimes and installations: the two structures of a cache, its *)
(* count, its timeout and the stations' pointers stay in step.             *)
(***************************************************************************)
EXTENDS PmksaCache, FiniteSetTheorems, SequenceTheorems, TLAPS

\* No entry is in a list twice.
Distinct(seq) == \A i, j \in 1..Len(seq) : seq[i] = seq[j] => i = j

\* The positions of a list whose elements are not in A.
Places(seq, A) == {i \in DOMAIN seq : seq[i] \notin A}

\* The positions up to i.
UpTo(K, i) == {j \in K : j <= i}

\* Place n of K in order.
Nth(K, n) == CHOOSE i \in K : Cardinality(UpTo(K, i)) = n
-----------------------------------------------------------------------------
(***************************************************************************)
(* Lists.                                                                  *)
(***************************************************************************)
\* A set of numbers that is not empty has a least one.
LEMMA Least ==
  ASSUME NEW S, S \subseteq Nat, S # {}
  PROVE  \E x \in S : \A y \in S : x <= y
  <1>1. PICK x \in S : \A y \in S : ~(<<y, x>> \in OpToRel(<, Nat))
    BY WFMin, NatLessThanWellFounded
  <1>2. \A y \in S : y < x => <<y, x>> \in OpToRel(<, Nat)
    BY DEF OpToRel
  <1>3. \A y \in S : ~(y < x)
    BY <1>1, <1>2, Zenon
  <1>4. \A y \in S : x <= y
    BY <1>3
  <1>5. QED
    BY <1>4

\* Positions are numbers.
LEMMA InRange ==
  ASSUME NEW N \in Nat, NEW K, K \subseteq 1..N
  PROVE  \A k \in K : k \in Nat /\ 1 <= k /\ k <= N
  OBVIOUS

\* A set of positions is finite, and so is what lies before one of them.
LEMMA PlacesFinite ==
  ASSUME NEW N \in Nat, NEW K, K \subseteq 1..N
  PROVE  /\ IsFiniteSet(K) /\ Cardinality(K) \in Nat
         /\ \A i : /\ IsFiniteSet(UpTo(K, i))
                   /\ Cardinality(UpTo(K, i)) \in Nat
                   /\ Cardinality(UpTo(K, i)) <= Cardinality(K)
  <1>1. IsFiniteSet(1..N)
    BY FS_Interval
  <1>2. IsFiniteSet(K)
    BY <1>1, FS_Subset
  <1>3. Cardinality(K) \in Nat
    BY <1>2, FS_CardinalityType
  <1>4. ASSUME NEW i
        PROVE  /\ IsFiniteSet(UpTo(K, i)) /\ Cardinality(UpTo(K, i)) \in Nat
               /\ Cardinality(UpTo(K, i)) <= Cardinality(K)
    <2>1. UpTo(K, i) \in SUBSET K
      BY DEF UpTo
    <2>2. IsFiniteSet(UpTo(K, i)) /\ Cardinality(UpTo(K, i)) <= Cardinality(K)
      BY <1>2, <2>1, FS_Subset
    <2>3. QED
      BY <2>2, FS_CardinalityType
  <1>5. QED
    BY <1>2, <1>3, <1>4

\* A later position has more positions up to it.
LEMMA UpToGrows ==
  ASSUME NEW N \in Nat, NEW K, K \subseteq 1..N, NEW i \in K, NEW j \in K, i < j
  PROVE  Cardinality(UpTo(K, i)) < Cardinality(UpTo(K, j))
  <1>1. i \in Nat /\ j \in Nat /\ \A k \in K : k \in Nat
    OBVIOUS
  <1>2. UpTo(K, i) \in SUBSET UpTo(K, j) /\ UpTo(K, i) # UpTo(K, j)
    <2>1. \A k \in UpTo(K, i) : k \in UpTo(K, j)
      BY <1>1 DEF UpTo
    <2>2. j \in UpTo(K, j) /\ j \notin UpTo(K, i)
      BY <1>1 DEF UpTo
    <2>3. QED
      BY <2>1, <2>2
  <1>3. /\ IsFiniteSet(UpTo(K, j)) /\ Cardinality(UpTo(K, j)) \in Nat
        /\ Cardinality(UpTo(K, i)) \in Nat
    BY PlacesFinite
  <1>4. /\ Cardinality(UpTo(K, i)) <= Cardinality(UpTo(K, j))
        /\ Cardinality(UpTo(K, j)) # Cardinality(UpTo(K, i))
    BY <1>2, <1>3, FS_Subset
  <1>5. QED
    BY <1>3, <1>4

\* The positions up to the next one.
LEMMA UpToNext ==
  ASSUME NEW N \in Nat, NEW K, K \subseteq 1..N
  PROVE  /\ UpTo(K, 0) = {}
         /\ UpTo(K, N) = K
         /\ \A i \in 1..N : /\ i \notin K => UpTo(K, i) = UpTo(K, i - 1)
                            /\ i \in K => UpTo(K, i) = UpTo(K, i - 1) \cup {i}
                            /\ i \notin UpTo(K, i - 1)
  <1>1. \A k \in K : k \in Nat /\ 1 <= k /\ k <= N
    OBVIOUS
  <1>2. UpTo(K, 0) = {}
    <2>1. \A k \in K : ~(k <= 0)
      BY <1>1
    <2>2. QED
      BY <2>1, Zenon DEF UpTo
  <1>3. UpTo(K, N) = K
    <2>1. \A k : k \in UpTo(K, N) <=> k \in K
      BY <1>1 DEF UpTo
    <2>2. QED
      BY <2>1
  <1>4. ASSUME NEW i \in 1..N
        PROVE  /\ i \notin K => UpTo(K, i) = UpTo(K, i - 1)
               /\ i \in K => UpTo(K, i) = UpTo(K, i - 1) \cup {i}
               /\ i \notin UpTo(K, i - 1)
    <2>1. i \in Nat /\ i - 1 \in Nat
      OBVIOUS
    <2>2. \A k \in K : k <= i <=> k <= i - 1 \/ k = i
      BY <1>1, <2>1
    <2>3. ~(i <= i - 1)
      BY <2>1
    <2>4. QED
      BY <2>2, <2>3, Zenon DEF UpTo
  <1>5. QED
    BY <1>2, <1>3, <1>4

\* There is a place for every number up to how many there are.
LEMMA NthExists ==
  ASSUME NEW N \in Nat, NEW K, K \subseteq 1..N,
         NEW n \in Nat, 1 <= n, n <= Cardinality(K)
  PROVE  Nth(K, n) \in K /\ Cardinality(UpTo(K, Nth(K, n))) = n
  <1> DEFINE S == {i \in 0..N : Cardinality(UpTo(K, i)) >= n}
  <1>1. Cardinality(K) \in Nat
    BY PlacesFinite
  <1>3. N \in S
    <2>1. N \in 0..N /\ Cardinality(K) >= n
      BY <1>1
    <2>2. UpTo(K, N) = K
      BY UpToNext
    <2>3. QED
      BY <2>1, <2>2
  <1>4. PICK i \in S : \A y \in S : i <= y
    <2>1. S \subseteq Nat /\ S # {}
      BY <1>3
    <2>2. QED
      BY <2>1, Least
  <1>5. i \in Nat /\ i <= N /\ Cardinality(UpTo(K, i)) >= n
    BY <1>4
  <1>6. i # 0
    <2>1. UpTo(K, 0) = {}
      BY UpToNext
    <2>2. Cardinality({}) = 0
      BY FS_EmptySet
    <2>3. QED
      BY <1>1, <1>5, <2>1, <2>2
  <1>7. i - 1 \in 0..N /\ i - 1 \notin S
    BY <1>4, <1>5, <1>6
  <1>8. IsFiniteSet(UpTo(K, i - 1)) /\ Cardinality(UpTo(K, i - 1)) \in Nat
    BY PlacesFinite
  <1>9. Cardinality(UpTo(K, i - 1)) < n
    BY <1>1, <1>7, <1>8
  <1>10. /\ i \notin K => UpTo(K, i) = UpTo(K, i - 1)
         /\ i \in K => UpTo(K, i) = UpTo(K, i - 1) \cup {i}
         /\ i \notin UpTo(K, i - 1)
    <2>1. i \in 1..N
      BY <1>5, <1>6
    <2>2. QED
      BY <2>1, UpToNext
  <1>11. i \in K
    BY <1>1, <1>5, <1>8, <1>9, <1>10
  <1>12. Cardinality(UpTo(K, i)) = Cardinality(UpTo(K, i - 1)) + 1
    BY <1>8, <1>10, <1>11, FS_AddElement
  <1>13. Cardinality(UpTo(K, i)) = n
    BY <1>1, <1>5, <1>8, <1>9, <1>12
  <1>14. QED
    BY <1>11, <1>13, Zenon DEF Nth

\* Without() keeps what is not in A, in the order of the list.
LEMMA WithoutKeeps ==
  ASSUME NEW T, NEW seq \in Seq(T), NEW A
  PROVE  LET K == Places(seq, A)
             w == Without(seq, A)
         IN /\ w \in Seq(T) /\ Len(w) = Cardinality(K)
            /\ \A n \in 1..Len(w) : /\ Nth(K, n) \in 1..Len(seq)
                                    /\ seq[Nth(K, n)] \notin A
                                    /\ w[n] = seq[Nth(K, n)]
            /\ \A n, m \in 1..Len(w) : n < m => Nth(K, n) < Nth(K, m)
            /\ Range(w) = Range(seq) \ A
  <1> DEFINE K == Places(seq, A)
             w == Without(seq, A)
  <1> HIDE DEF K, w
  <1>1. Len(seq) \in Nat /\ DOMAIN seq = 1..Len(seq)
    OBVIOUS
  <1>2. K \subseteq 1..Len(seq)
    BY <1>1, Zenon DEF K, Places
  <1>3. Cardinality(K) \in Nat
    BY <1>1, <1>2, PlacesFinite
  <1>4. w = [n \in 1..Cardinality(K) |-> seq[Nth(K, n)]]
    BY DEF w, Without, K, Places, Nth, UpTo
  <1>5. ASSUME NEW n \in 1..Cardinality(K)
        PROVE  Nth(K, n) \in K /\ Cardinality(UpTo(K, Nth(K, n))) = n
    <2>1. n \in Nat /\ 1 <= n /\ n <= Cardinality(K)
      BY <1>3
    <2>2. QED
      BY <1>1, <1>2, <2>1, NthExists
  <1>6. ASSUME NEW n \in 1..Cardinality(K)
        PROVE  /\ Nth(K, n) \in 1..Len(seq) /\ seq[Nth(K, n)] \in T
               /\ seq[Nth(K, n)] \notin A
    <2>1. Nth(K, n) \in K
      BY <1>5
    <2>2. Nth(K, n) \in 1..Len(seq) /\ seq[Nth(K, n)] \notin A
      BY <2>1, <1>1, Zenon DEF K, Places
    <2>3. QED
      BY <2>2
  <1>7. w \in Seq(T) /\ Len(w) = Cardinality(K) /\ DOMAIN w = 1..Cardinality(K)
    <2>1. w \in [1..Cardinality(K) -> T]
      BY <1>4, <1>6
    <2>2. QED
      BY <1>3, <2>1
  <1>8. ASSUME NEW n \in 1..Cardinality(K), NEW m \in 1..Cardinality(K), n < m
        PROVE  Nth(K, n) < Nth(K, m)
    <2>1. /\ Nth(K, n) \in K /\ Cardinality(UpTo(K, Nth(K, n))) = n
          /\ Nth(K, m) \in K /\ Cardinality(UpTo(K, Nth(K, m))) = m
      BY <1>5
    <2>2. CASE Nth(K, m) < Nth(K, n)
      <3>1. m < n
        BY <1>1, <1>2, <2>1, <2>2, UpToGrows
      <3>2. QED
        BY <1>3, <1>8, <3>1
    <2>3. CASE Nth(K, m) = Nth(K, n)
      BY <1>3, <1>8, <2>1, <2>3
    <2>4. Nth(K, n) \in Nat /\ Nth(K, m) \in Nat
      BY <1>1, <1>6
    <2>5. QED
      BY <2>2, <2>3, <2>4
  <1>9. Range(w) = Range(seq) \ A
    <2>1. \A x \in Range(w) : x \in Range(seq) \ A
      BY <1>1, <1>4, <1>6, <1>7, Zenon DEF Range
    <2>2. ASSUME NEW i \in 1..Len(seq), seq[i] \notin A
          PROVE  seq[i] \in Range(w)
      <3>1. i \in K
        BY <1>1, <2>2 DEF K, Places
      <3> DEFINE n == Cardinality(UpTo(K, i))
      <3>2. n \in Nat /\ n <= Cardinality(K) /\ IsFiniteSet(UpTo(K, i))
        BY <1>1, <1>2, PlacesFinite
      <3>3. i \in UpTo(K, i)
        BY <3>1, <1>1 DEF UpTo
      <3>4. n # 0
        BY <3>2, <3>3, FS_EmptySet
      <3>5. n \in 1..Cardinality(K)
        BY <1>3, <3>2, <3>4
      <3>6. Nth(K, n) \in K /\ Cardinality(UpTo(K, Nth(K, n))) = n
        BY <3>5, <1>5
      <3>7. Nth(K, n) = i
        <4>1. CASE i < Nth(K, n)
          <5>1. n < Cardinality(UpTo(K, Nth(K, n)))
            BY <1>1, <1>2, <3>1, <3>6, <4>1, UpToGrows
          <5>2. QED
            BY <3>2, <3>6, <5>1
        <4>2. CASE Nth(K, n) < i
          <5>1. Cardinality(UpTo(K, Nth(K, n))) < n
            BY <1>1, <1>2, <3>1, <3>6, <4>2, UpToGrows
          <5>2. QED
            BY <3>2, <3>6, <5>1
        <4>3. Nth(K, n) \in Nat /\ i \in Nat
          BY <1>1, <1>6, <3>5
        <4>4. QED
          BY <4>1, <4>2, <4>3
      <3>8. w[n] = seq[i]
        BY <1>4, <3>5, <3>7
      <3>9. QED
        BY <1>7, <3>5, <3>8, Zenon DEF Range
    <2>3. \A x \in Range(seq) \ A : x \in Range(w)
      BY <1>1, <2>2, Zenon DEF Range
    <2>4. QED
      BY <2>1, <2>3
  <1>10. QED
    BY <1>6, <1>7, <1>8, <1>9, <1>4 DEF K, w

\* No entry comes twice into a list by taking others out.
LEMMA WithoutDistinct ==
  ASSUME NEW T, NEW seq \in Seq(T), NEW A, Distinct(seq)
  PROVE  Distinct(Without(seq, A))
  <1> DEFINE K == Places(seq, A)
             w == Without(seq, A)
  <1>1. /\ w \in Seq(T)
        /\ \A n \in 1..Len(w) : Nth(K, n) \in 1..Len(seq) /\ w[n] = seq[Nth(K, n)]
        /\ \A n, m \in 1..Len(w) : n < m => Nth(K, n) < Nth(K, m)
    BY WithoutKeeps
  <1> HIDE DEF K, w
  <1>2. SUFFICES ASSUME NEW n \in 1..Len(w), NEW m \in 1..Len(w), w[n] = w[m]
                 PROVE  n = m
    BY DEF Distinct, w
  <1>3. Nth(K, n) = Nth(K, m)
    BY <1>1, <1>2 DEF Distinct
  <1>4. Nth(K, n) \in Nat /\ Nth(K, m) \in Nat /\ n \in Nat /\ m \in Nat
    BY <1>1
  <1>5. ~(n < m) /\ ~(m < n)
    BY <1>1, <1>3, <1>4
  <1>6. QED
    BY <1>4, <1>5

\* The list seq with a behind its first n elements.
Inserted(seq, a, n) == SubSeq(seq, 1, n) \o <<a>> \o SubSeq(seq, n + 1, Len(seq))

\* The list w is seq with a behind its first n elements.
IsInserted(w, seq, a, n) ==
  /\ Len(w) = Len(seq) + 1
  /\ \A i \in 1..n : w[i] = seq[i]
  /\ w[n + 1] = a
  /\ \A i \in (n + 2)..(Len(seq) + 1) : w[i] = seq[i - 1]

\* What an insertion does to the positions.
LEMMA InsertedPlaces ==
  ASSUME NEW T, NEW seq \in Seq(T), NEW a \in T, NEW n \in 0..Len(seq)
  PROVE  /\ Inserted(seq, a, n) \in Seq(T)
         /\ IsInserted(Inserted(seq, a, n), seq, a, n)
  <1> DEFINE p == SubSeq(seq, 1, n)
             q == SubSeq(seq, n + 1, Len(seq))
             v == p \o <<a>>
             w == v \o q
  <1>1. Len(seq) \in Nat /\ n \in Nat /\ n <= Len(seq)
    OBVIOUS
  <1>2. p \in Seq(T) /\ Len(p) = n /\ \A i \in 1..n : p[i] = seq[i]
    BY <1>1
  <1>3. q \in Seq(T) /\ Len(q) = Len(seq) - n /\ \A i \in 1..(Len(seq) - n) : q[i] = seq[n + i]
    BY <1>1
  <1> HIDE DEF p, q
  <1>4. v \in Seq(T) /\ Len(v) = n + 1 /\ (\A i \in 1..n : v[i] = p[i]) /\ v[n + 1] = a
    BY <1>1, <1>2
  <1> HIDE DEF v
  <1>5. /\ w \in Seq(T) /\ Len(w) = Len(seq) + 1
        /\ \A i \in 1..(n + 1) : w[i] = v[i]
        /\ \A i \in 1..(Len(seq) - n) : w[n + 1 + i] = q[i]
    <2>a. v \in Seq(T) /\ q \in Seq(T)
      BY <1>3, <1>4
    <2>1. w \in Seq(T) /\ Len(w) = Len(v) + Len(q)
      BY <2>a, ConcatProperties
    <2>2. \A i \in 1..(Len(v) + Len(q)) : w[i] = IF i <= Len(v) THEN v[i] ELSE q[i - Len(v)]
      BY <1>3, <1>4, ConcatProperties
    <2>3. Len(v) + Len(q) = Len(seq) + 1
      BY <1>1, <1>3, <1>4
    <2>4. \A i \in 1..(n + 1) : i \in 1..(Len(v) + Len(q)) /\ i <= Len(v)
      BY <1>1, <1>4, <2>3
    <2>5. \A i \in 1..(Len(seq) - n) :
            /\ n + 1 + i \in 1..(Len(v) + Len(q)) /\ ~(n + 1 + i <= Len(v))
            /\ (n + 1 + i) - Len(v) = i
      BY <1>1, <1>4, <2>3
    <2> HIDE DEF w
    <2>6. QED
      BY <2>1, <2>2, <2>3, <2>4, <2>5
  <1> HIDE DEF w
  <1>6. \A i \in 1..n : w[i] = seq[i]
    BY <1>1, <1>2, <1>4, <1>5
  <1>7. w[n + 1] = a
    BY <1>1, <1>4, <1>5
  <1>8. ASSUME NEW i \in (n + 2)..(Len(seq) + 1) PROVE w[i] = seq[i - 1]
    <2>1. i - n - 1 \in 1..(Len(seq) - n) /\ n + 1 + (i - n - 1) = i /\ n + (i - n - 1) = i - 1
      BY <1>1
    <2>2. w[n + 1 + (i - n - 1)] = q[i - n - 1] /\ q[i - n - 1] = seq[n + (i - n - 1)]
      BY <1>3, <1>5, <2>1
    <2>3. QED
      BY <2>1, <2>2
  <1>9. w = Inserted(seq, a, n)
    BY DEF w, v, p, q, Inserted
  <1>10. QED
    BY <1>5, <1>6, <1>7, <1>8, <1>9 DEF IsInserted

\* Element i of the list w is a, inserted, or one of seq before or behind it.
ComesFrom(w, seq, a, n, i) ==
  \/ i = n + 1 /\ w[i] = a
  \/ \E k \in 1..Len(seq) : /\ w[i] = seq[k]
                            /\ (k <= n /\ i = k) \/ (k > n /\ i = k + 1)

\* Where the elements of a list with an insertion come from.
LEMMA InsertedFrom ==
  ASSUME NEW T, NEW seq \in Seq(T), NEW a \in T, NEW n \in 0..Len(seq),
         NEW i \in 1..(Len(seq) + 1)
  PROVE  ComesFrom(Inserted(seq, a, n), seq, a, n, i)
  <1>1. Len(seq) \in Nat /\ n \in Nat /\ n <= Len(seq) /\ i \in Nat /\ i >= 1
        /\ i <= Len(seq) + 1
    OBVIOUS
  <1> DEFINE w == Inserted(seq, a, n)
  <1> HIDE DEF w, ComesFrom
  <1>a. IsInserted(w, seq, a, n)
    BY InsertedPlaces, Zenon DEF w
  <1>2. /\ \A j \in 1..n : w[j] = seq[j]
        /\ w[n + 1] = a
        /\ \A j \in (n + 2)..(Len(seq) + 1) : w[j] = seq[j - 1]
    BY <1>a, Zenon DEF IsInserted
  <1>3. CASE i <= n
    <2>1. i \in 1..n /\ i \in 1..Len(seq)
      BY <1>1, <1>3
    <2>2. w[i] = seq[i]
      BY <1>2, <2>1
    <2>3. QED
      BY <1>3, <2>1, <2>2 DEF w, ComesFrom
  <1>4. CASE i = n + 1
    BY <1>2, <1>4 DEF w, ComesFrom
  <1>5. CASE i > n + 1
    <2>1. i \in (n + 2)..(Len(seq) + 1) /\ i - 1 \in 1..Len(seq)
          /\ i - 1 > n /\ i = (i - 1) + 1
      BY <1>1, <1>5
    <2>2. w[i] = seq[i - 1]
      BY <1>2, <2>1
    <2>3. QED
      BY <2>1, <2>2 DEF w, ComesFrom
  <1>6. QED
    BY <1>1, <1>3, <1>4, <1>5

\* An insertion adds one element, and does not repeat any if it is new.
LEMMA InsertedSet ==
  ASSUME NEW T, NEW seq \in Seq(T), NEW a \in T, NEW n \in 0..Len(seq)
  PROVE  /\ Range(Inserted(seq, a, n)) = Range(seq) \cup {a}
         /\ Distinct(seq) /\ a \notin Range(seq) => Distinct(Inserted(seq, a, n))
  <1> DEFINE w == Inserted(seq, a, n)
  <1>1. Len(seq) \in Nat /\ n \in Nat /\ n <= Len(seq) /\ DOMAIN seq = 1..Len(seq)
    OBVIOUS
  <1>2. /\ w \in Seq(T) /\ Len(w) = Len(seq) + 1
        /\ \A j \in 1..n : w[j] = seq[j]
        /\ w[n + 1] = a
        /\ \A j \in (n + 2)..(Len(seq) + 1) : w[j] = seq[j - 1]
    <2>1. w \in Seq(T) /\ IsInserted(w, seq, a, n)
      BY InsertedPlaces, Zenon
    <2>2. QED
      BY <2>1, Zenon DEF IsInserted
  <1>3. \A i \in 1..(Len(seq) + 1) :
           \/ i = n + 1 /\ w[i] = a
           \/ \E k \in 1..Len(seq) : /\ w[i] = seq[k]
                                     /\ (k <= n /\ i = k) \/ (k > n /\ i = k + 1)
    BY InsertedFrom DEF ComesFrom
  <1> HIDE DEF w
  <1>4. DOMAIN w = 1..(Len(seq) + 1)
    BY <1>2
  <1>5. Range(w) = Range(seq) \cup {a}
    <2>1. \A x \in Range(w) : x \in Range(seq) \cup {a}
      BY <1>1, <1>3, <1>4, Zenon DEF Range
    <2>2. a \in Range(w)
      <3>1. n + 1 \in 1..(Len(seq) + 1)
        BY <1>1
      <3>2. QED
        BY <1>2, <1>4, <3>1, Zenon DEF Range
    <2>3. ASSUME NEW k \in 1..Len(seq) PROVE seq[k] \in Range(w)
      <3>1. CASE k <= n
        <4>1. k \in 1..n /\ k \in 1..(Len(seq) + 1)
          BY <1>1, <3>1
        <4>2. QED
          BY <1>2, <1>4, <4>1, Zenon DEF Range
      <3>2. CASE k > n
        <4>1. k + 1 \in (n + 2)..(Len(seq) + 1) /\ k + 1 \in 1..(Len(seq) + 1)
              /\ (k + 1) - 1 = k
          BY <1>1, <3>2
        <4>2. w[k + 1] = seq[k]
          BY <1>2, <4>1
        <4>3. QED
          BY <1>4, <4>1, <4>2, Zenon DEF Range
      <3>3. QED
        BY <1>1, <3>1, <3>2
    <2>4. \A x \in Range(seq) : x \in Range(w)
      BY <1>1, <2>3, Zenon DEF Range
    <2>5. QED
      BY <2>1, <2>2, <2>4
  <1>6. ASSUME Distinct(seq), a \notin Range(seq) PROVE Distinct(w)
    <2>1. SUFFICES ASSUME NEW i \in 1..(Len(seq) + 1), NEW j \in 1..(Len(seq) + 1),
                          w[i] = w[j]
                   PROVE  i = j
      BY <1>2 DEF Distinct
    <2>2. \A k \in 1..Len(seq) : seq[k] # a
      BY <1>1, <1>6 DEF Range
    <2>3. \A k, m \in 1..Len(seq) : seq[k] = seq[m] => k = m
      BY <1>6 DEF Distinct
    <2>4. /\ \/ i = n + 1 /\ w[i] = a
             \/ \E k \in 1..Len(seq) : /\ w[i] = seq[k]
                                       /\ (k <= n /\ i = k) \/ (k > n /\ i = k + 1)
          /\ \/ j = n + 1 /\ w[j] = a
             \/ \E k \in 1..Len(seq) : /\ w[j] = seq[k]
                                       /\ (k <= n /\ j = k) \/ (k > n /\ j = k + 1)
      BY <1>3
    <2>5. QED
      BY <2>1, <2>2, <2>3, <2>4
  <1>7. QED
    BY <1>5, <1>6 DEF w

-----------------------------------------------------------------------------
(***************************************************************************)
(* One cache.                                                              *)
(***************************************************************************)
\* The types of a cache.
CacheType ==
  [pmksa : Seq(Entry), chain : [Hashes -> Seq(Entry)], pmksa_count : Nat,
   timeout : 0..(MaxNow + 1) \cup {NULL}, entry : [Entry -> PmksaEntry \cup {NULL}],
   sm : [Spa -> Entry \cup {NULL}]]

\* The entries of a hash chain.
Here(c, h) == {a \in Live(c) : PMKID_HASH(c.entry[a].pmkid) = h}

\* The list is ordered by expiration.
Ordered(c) ==
  \A i, j \in 1..Len(c.pmksa) :
    i <= j => c.entry[c.pmksa[i]].expiration <= c.entry[c.pmksa[j]].expiration

\* The list has the entries that are allocated, each once.
Listed(c) == Distinct(c.pmksa) /\ Range(c.pmksa) = Live(c)

\* The count is their number.
Counted(c) == IsFiniteSet(Live(c)) /\ c.pmksa_count = Cardinality(Live(c))

\* The chains have them as well, each once.
Chained(c) == \A h \in Hashes : Distinct(c.chain[h]) /\ Range(c.chain[h]) = Here(c, h)

\* A station points at nothing or at an entry of its own.
Pointed(c) ==
  \A s \in Spa : c.sm[s] # NULL => c.sm[s] \in Live(c) /\ c.entry[c.sm[s]].spa \in Addresses(s)

\* The structures of a cache describe the same entries.
Good(c) ==
  c \in CacheType /\ Listed(c) /\ Ordered(c) /\ Counted(c) /\ Chained(c) /\ Pointed(c)

\* At time t the timeout is set soon enough for every entry.
Timely(c, t) ==
  \A a \in Live(c) :
    /\ c.timeout # NULL
    /\ c.timeout <= c.entry[a].expiration + 1 \/ c.timeout <= t + 1

\* The entries of d are those of c that are in L, unchanged.
SameEntries(d, c, L) == Live(d) = L /\ \A a \in L : d.entry[a] = c.entry[a]

\* Entries are not NULL.
LEMMA LiveEntry ==
  ASSUME NEW c \in CacheType
  PROVE  \A a \in Entry : a \in Live(c) <=> c.entry[a] \in PmksaEntry
  BY CacheAssumption DEF CacheType, Live

\* What pmksa_cache_free_entry() leaves.
LEMMA FreeFields ==
  ASSUME NEW c \in CacheType, NEW A
  PROVE  LET f == pmksa_cache_free_entry(c, A)
         IN /\ f.pmksa = Without(c.pmksa, A)
            /\ f.chain = [h \in Hashes |->
                 Without(c.chain[h], {a \in A : PMKID_HASH(c.entry[a].pmkid) = h})]
            /\ f.pmksa_count = c.pmksa_count - Cardinality(A)
            /\ f.timeout = c.timeout
            /\ f.entry = [a \in Entry |-> IF a \in A THEN NULL ELSE c.entry[a]]
            /\ f.sm = [s \in Spa |-> IF c.sm[s] \in A THEN NULL ELSE c.sm[s]]
            /\ f = [pmksa |-> f.pmksa, chain |-> f.chain, pmksa_count |-> f.pmksa_count,
                    timeout |-> f.timeout, entry |-> f.entry, sm |-> f.sm]
  <1> DEFINE f == pmksa_cache_free_entry(c, A)
  <1>1. c = [pmksa |-> c.pmksa, chain |-> c.chain, pmksa_count |-> c.pmksa_count,
             timeout |-> c.timeout, entry |-> c.entry, sm |-> c.sm]
    BY DEF CacheType
  <1> DEFINE list    == Without(c.pmksa, A)
             chains  == [h \in Hashes |->
                 Without(c.chain[h], {a \in A : PMKID_HASH(c.entry[a].pmkid) = h})]
             count   == c.pmksa_count - Cardinality(A)
             entries == [a \in Entry |-> IF a \in A THEN NULL ELSE c.entry[a]]
             sms     == [s \in Spa |-> IF c.sm[s] \in A THEN NULL ELSE c.sm[s]]
  <1>2. f = [c EXCEPT !.pmksa_count = count, !.sm = sms, !.chain = chains,
                      !.pmksa = list, !.entry = entries]
    BY Zenon DEF pmksa_cache_free_entry
  <1> HIDE DEF f, list, chains, count, entries, sms
  <1>3. f = [pmksa |-> list, chain |-> chains, pmksa_count |-> count,
             timeout |-> c.timeout, entry |-> entries, sm |-> sms]
    BY <1>1, <1>2
  <1>4. QED
    BY <1>3 DEF f, list, chains, count, entries, sms

\* Freeing entries of a cache leaves a good one with the others.
LEMMA FreeGood ==
  ASSUME NEW c, Good(c), NEW A, A \subseteq Live(c)
  PROVE  /\ Good(pmksa_cache_free_entry(c, A))
         /\ SameEntries(pmksa_cache_free_entry(c, A), c, Live(c) \ A)
         /\ pmksa_cache_free_entry(c, A).timeout = c.timeout
         /\ \A s \in Spa : \/ pmksa_cache_free_entry(c, A).sm[s] = NULL
                           \/ pmksa_cache_free_entry(c, A).sm[s] = c.sm[s]
  <1> DEFINE f == pmksa_cache_free_entry(c, A)
  <1>0. c \in CacheType
    BY DEF Good
  <1>1. /\ f.pmksa = Without(c.pmksa, A)
        /\ f.chain = [h \in Hashes |->
             Without(c.chain[h], {a \in A : PMKID_HASH(c.entry[a].pmkid) = h})]
        /\ f.pmksa_count = c.pmksa_count - Cardinality(A)
        /\ f.timeout = c.timeout
        /\ f.entry = [a \in Entry |-> IF a \in A THEN NULL ELSE c.entry[a]]
        /\ f.sm = [s \in Spa |-> IF c.sm[s] \in A THEN NULL ELSE c.sm[s]]
        /\ f = [pmksa |-> f.pmksa, chain |-> f.chain, pmksa_count |-> f.pmksa_count,
                timeout |-> f.timeout, entry |-> f.entry, sm |-> f.sm]
    BY <1>0, FreeFields
  <1> HIDE DEF f
  <1>2. /\ c.pmksa \in Seq(Entry) /\ c.chain \in [Hashes -> Seq(Entry)]
        /\ c.pmksa_count \in Nat /\ c.timeout \in 0..(MaxNow + 1) \cup {NULL}
        /\ c.entry \in [Entry -> PmksaEntry \cup {NULL}]
        /\ c.sm \in [Spa -> Entry \cup {NULL}]
    BY <1>0 DEF CacheType
  <1>3. SameEntries(f, c, Live(c) \ A)
    BY <1>1 DEF SameEntries, Live
  <1>4. /\ f.pmksa \in Seq(Entry)
        /\ Range(f.pmksa) = Range(c.pmksa) \ A
    BY <1>1, <1>2, WithoutKeeps
  <1>5. ASSUME NEW h \in Hashes
        PROVE  /\ f.chain[h] \in Seq(Entry)
               /\ Range(f.chain[h]) = Range(c.chain[h])
                    \ {a \in A : PMKID_HASH(c.entry[a].pmkid) = h}
               /\ Distinct(f.chain[h])
    <2>1. c.chain[h] \in Seq(Entry) /\ Distinct(c.chain[h])
      BY <1>2 DEF Good, Chained
    <2>2. f.chain[h] = Without(c.chain[h], {a \in A : PMKID_HASH(c.entry[a].pmkid) = h})
      BY <1>1
    <2>3. QED
      BY <2>1, <2>2, WithoutKeeps, WithoutDistinct
  <1>6. Counted(f) /\ f.pmksa_count \in Nat
    <2>1. IsFiniteSet(Live(c)) /\ c.pmksa_count = Cardinality(Live(c))
      BY DEF Good, Counted
    <2>2. Live(c) \cap A = A
      OBVIOUS
    <2>3. /\ IsFiniteSet(Live(c) \ A)
          /\ Cardinality(Live(c) \ A) = Cardinality(Live(c)) - Cardinality(A)
      <3>1. /\ IsFiniteSet(Live(c) \ A)
            /\ Cardinality(Live(c) \ A) = Cardinality(Live(c)) - Cardinality(Live(c) \cap A)
        BY <2>1, FS_Difference
      <3>2. QED
        BY <2>2, <3>1, Zenon
    <2>4. Cardinality(Live(c) \ A) \in Nat
      BY <2>3, FS_CardinalityType
    <2>5. QED
      BY <1>1, <1>3, <2>1, <2>3, <2>4 DEF Counted, SameEntries
  <1>7. f \in CacheType
    <2>1. f.chain \in [Hashes -> Seq(Entry)]
      BY <1>1, <1>5
    <2>2. /\ f.entry \in [Entry -> PmksaEntry \cup {NULL}]
          /\ f.sm \in [Spa -> Entry \cup {NULL}]
      BY <1>1, <1>2
    <2>3. f.timeout \in 0..(MaxNow + 1) \cup {NULL}
      BY <1>1, <1>2
    <2>4. QED
      BY <1>1, <1>4, <1>6, <2>1, <2>2, <2>3 DEF CacheType
  <1>8. Listed(f)
    <2>1. Distinct(c.pmksa) /\ Range(c.pmksa) = Live(c)
      BY DEF Good, Listed
    <2>2. Distinct(f.pmksa)
      BY <1>1, <1>2, <2>1, WithoutDistinct
    <2>3. QED
      BY <1>3, <1>4, <2>1, <2>2 DEF Listed, SameEntries
  <1>9. Ordered(f)
    <2> DEFINE K == Places(c.pmksa, A)
    <2>1. /\ \A n \in 1..Len(f.pmksa) : Nth(K, n) \in 1..Len(c.pmksa)
                                        /\ f.pmksa[n] = c.pmksa[Nth(K, n)]
          /\ \A n, m \in 1..Len(f.pmksa) : n < m => Nth(K, n) < Nth(K, m)
      BY <1>1, <1>2, WithoutKeeps
    <2> HIDE DEF K
    <2>2. SUFFICES ASSUME NEW i \in 1..Len(f.pmksa), NEW j \in 1..Len(f.pmksa), i <= j
                   PROVE  f.entry[f.pmksa[i]].expiration <= f.entry[f.pmksa[j]].expiration
      BY DEF Ordered
    <2>3. Nth(K, i) \in Nat /\ Nth(K, j) \in Nat /\ Nth(K, i) <= Nth(K, j)
      BY <1>4, <2>1, <2>2
    <2>4. c.entry[c.pmksa[Nth(K, i)]].expiration <= c.entry[c.pmksa[Nth(K, j)]].expiration
      BY <2>1, <2>3 DEF Good, Ordered
    <2>5. f.pmksa[i] \in Live(c) \ A /\ f.pmksa[j] \in Live(c) \ A
      <3>1. f.pmksa[i] \in Range(f.pmksa) /\ f.pmksa[j] \in Range(f.pmksa)
        BY <1>4 DEF Range
      <3>2. QED
        BY <1>4, <3>1 DEF Good, Listed
    <2>6. QED
      BY <1>3, <2>1, <2>4, <2>5 DEF SameEntries
  <1>10. Chained(f)
    <2>1. SUFFICES ASSUME NEW h \in Hashes PROVE Range(f.chain[h]) = Here(f, h)
      BY <1>5 DEF Chained
    <2>2. Range(c.chain[h]) = Here(c, h)
      BY DEF Good, Chained
    <2>3. Here(f, h) = Here(c, h) \ {a \in A : PMKID_HASH(c.entry[a].pmkid) = h}
      <3>1. Live(f) = Live(c) \ A /\ \A a \in Live(c) \ A : f.entry[a] = c.entry[a]
        BY <1>3, Zenon DEF SameEntries
      <3>2. \A a : a \in Here(f, h) <=>
                      a \in Here(c, h) /\ ~(a \in A /\ PMKID_HASH(c.entry[a].pmkid) = h)
        BY <3>1, Zenon DEF Here
      <3>3. QED
        BY <3>2
    <2>4. QED
      BY <1>5, <2>2, <2>3
  <1>11. /\ Pointed(f)
         /\ \A s \in Spa : f.sm[s] = NULL \/ f.sm[s] = c.sm[s]
    <2>1. SUFFICES ASSUME NEW s \in Spa
                   PROVE  /\ f.sm[s] = NULL \/ f.sm[s] = c.sm[s]
                          /\ f.sm[s] # NULL =>
                               f.sm[s] \in Live(f) /\ f.entry[f.sm[s]].spa \in Addresses(s)
      BY DEF Pointed
    <2>2. c.sm[s] # NULL => c.sm[s] \in Live(c) /\ c.entry[c.sm[s]].spa \in Addresses(s)
      BY DEF Good, Pointed
    <2>3. f.sm[s] = IF c.sm[s] \in A THEN NULL ELSE c.sm[s]
      BY <1>1
    <2>4. QED
      BY <1>3, <2>2, <2>3 DEF SameEntries
  <1>12. QED
    BY <1>1, <1>3, <1>6, <1>7, <1>8, <1>9, <1>10, <1>11 DEF Good, f

\* Good() looks at the timeout's type only.
LEMMA TimeoutGood ==
  ASSUME NEW c, Good(c), NEW t \in 0..(MaxNow + 1) \cup {NULL}
  PROVE  /\ Good([c EXCEPT !.timeout = t])
         /\ SameEntries([c EXCEPT !.timeout = t], c, Live(c))
         /\ [c EXCEPT !.timeout = t].timeout = t
         /\ [c EXCEPT !.timeout = t].sm = c.sm
         /\ [c EXCEPT !.timeout = t].pmksa = c.pmksa
  <1> DEFINE d == [c EXCEPT !.timeout = t]
  <1>1. c \in CacheType
    BY DEF Good
  <1>2. /\ d \in CacheType /\ d.timeout = t /\ d.pmksa = c.pmksa /\ d.chain = c.chain
        /\ d.pmksa_count = c.pmksa_count /\ d.entry = c.entry /\ d.sm = c.sm
    BY <1>1 DEF CacheType
  <1> HIDE DEF d
  <1>3. Live(d) = Live(c)
    BY <1>2 DEF Live
  <1>4. Listed(d) /\ Counted(d) /\ Pointed(d)
    BY <1>2, <1>3 DEF Good, Listed, Counted, Pointed
  <1>5. Ordered(d)
    BY <1>2 DEF Good, Ordered
  <1>6. Chained(d)
    BY <1>2, <1>3 DEF Good, Chained, Here
  <1>7. QED
    BY <1>2, <1>3, <1>4, <1>5, <1>6 DEF Good, SameEntries, d

\* A station may point at an entry of its own, or at none.
LEMMA PointGood ==
  ASSUME NEW c, Good(c), NEW s \in Spa, NEW p \in Entry \cup {NULL},
         p # NULL => p \in Live(c) /\ c.entry[p].spa \in Addresses(s)
  PROVE  /\ Good([c EXCEPT !.sm[s] = p])
         /\ SameEntries([c EXCEPT !.sm[s] = p], c, Live(c))
         /\ [c EXCEPT !.sm[s] = p].timeout = c.timeout
  <1> DEFINE d == [c EXCEPT !.sm[s] = p]
  <1>1. c \in CacheType
    BY DEF Good
  <1>2. /\ d \in CacheType /\ d.timeout = c.timeout /\ d.pmksa = c.pmksa
        /\ d.chain = c.chain /\ d.pmksa_count = c.pmksa_count /\ d.entry = c.entry
        /\ d.sm = [c.sm EXCEPT ![s] = p]
    BY <1>1 DEF CacheType
  <1> HIDE DEF d
  <1>3. Live(d) = Live(c)
    BY <1>2 DEF Live
  <1>4. Listed(d) /\ Counted(d)
    BY <1>2, <1>3 DEF Good, Listed, Counted
  <1>5. Pointed(d)
    <2>1. c.sm \in [Spa -> Entry \cup {NULL}]
      BY <1>1 DEF CacheType
    <2>2. QED
      BY <1>2, <1>3, <2>1 DEF Good, Pointed
  <1>6. Ordered(d)
    BY <1>2 DEF Good, Ordered
  <1>7. Chained(d)
    BY <1>2, <1>3 DEF Good, Chained, Here
  <1>8. QED
    BY <1>2, <1>3, <1>4, <1>5, <1>6, <1>7 DEF Good, SameEntries, d

\* The head of the list expires first.
LEMMA HeadFirst ==
  ASSUME NEW c, Good(c)
  PROVE  /\ c.pmksa = <<>> => Live(c) = {}
         /\ c.pmksa # <<>> =>
              /\ Head(c.pmksa) \in Live(c)
              /\ \A a \in Live(c) :
                   c.entry[Head(c.pmksa)].expiration <= c.entry[a].expiration
  <1>1. c.pmksa \in Seq(Entry) /\ Range(c.pmksa) = Live(c)
    BY DEF Good, CacheType, Listed
  <1>2. Len(c.pmksa) \in Nat /\ DOMAIN c.pmksa = 1..Len(c.pmksa)
    BY <1>1
  <1>3. CASE c.pmksa = <<>>
    <2>1. \A i : i \notin DOMAIN c.pmksa
      BY <1>1, <1>3
    <2>2. QED
      BY <1>1, <1>3, <2>1, Zenon DEF Range
  <1>4. CASE c.pmksa # <<>>
    <2>1. 1 \in 1..Len(c.pmksa) /\ Head(c.pmksa) = c.pmksa[1]
      BY <1>1, <1>4
    <2>2. Head(c.pmksa) \in Live(c)
      BY <1>1, <1>2, <2>1, Zenon DEF Range
    <2>3. ASSUME NEW i \in 1..Len(c.pmksa)
          PROVE  c.entry[c.pmksa[1]].expiration <= c.entry[c.pmksa[i]].expiration
      <3>1. 1 <= i
        BY <1>2
      <3>2. QED
        BY <2>1, <3>1 DEF Good, Ordered
    <2>4. \A a \in Live(c) : \E i \in 1..Len(c.pmksa) : a = c.pmksa[i]
      BY <1>1, <1>2, Zenon DEF Range
    <2>5. \A a \in Live(c) : c.entry[Head(c.pmksa)].expiration <= c.entry[a].expiration
      BY <2>1, <2>3, <2>4, Zenon
    <2>6. QED
      BY <1>4, <2>2, <2>5
  <1>5. QED
    BY <1>3, <1>4

\* pmksa_cache_set_expiration() sets the timeout in time for every entry.
LEMMA SetExpirationGood ==
  ASSUME NEW c, Good(c), now \in 0..MaxNow
  PROVE  /\ Good(pmksa_cache_set_expiration(c))
         /\ SameEntries(pmksa_cache_set_expiration(c), c, Live(c))
         /\ Timely(pmksa_cache_set_expiration(c), now)
         /\ pmksa_cache_set_expiration(c).sm = c.sm
  <1> DEFINE d == pmksa_cache_set_expiration(c)
             x == c.entry[Head(c.pmksa)].expiration
             t == IF c.pmksa = <<>> THEN NULL ELSE (IF x < now THEN now ELSE x) + 1
  <1>1. d = [c EXCEPT !.timeout = t]
    BY Zenon DEF pmksa_cache_set_expiration
  <1>2. \A a \in Live(c) : c.entry[a].expiration \in 0..MaxNow
    <2>1. \A a \in Live(c) : a \in Entry /\ c.entry[a] \in PmksaEntry
      BY LiveEntry DEF Good, Live
    <2>2. QED
      BY <2>1 DEF PmksaEntry
  <1>3. c.pmksa # <<>> => x \in 0..MaxNow /\ \A a \in Live(c) : x <= c.entry[a].expiration
    BY <1>2, HeadFirst
  <1> HIDE DEF x
  <1>4. MaxNow \in Nat /\ NULL \notin Nat
    BY CacheAssumption
  <1>5. t \in 0..(MaxNow + 1) \cup {NULL}
    BY <1>3, <1>4
  <1>6. /\ Good(d) /\ SameEntries(d, c, Live(c)) /\ d.timeout = t /\ d.sm = c.sm
    <2> HIDE DEF d, t
    <2>1. QED
      BY <1>1, <1>5, TimeoutGood
  <1>7. Timely(d, now)
    <2>1. SUFFICES ASSUME NEW a \in Live(c)
                   PROVE  /\ d.timeout # NULL
                          /\ d.timeout <= c.entry[a].expiration + 1 \/ d.timeout <= now + 1
      <3> HIDE DEF d
      <3>1. QED
        BY <1>6 DEF Timely, SameEntries
    <2>2. c.pmksa # <<>>
      BY HeadFirst
    <2>3. x \in 0..MaxNow /\ x <= c.entry[a].expiration /\ c.entry[a].expiration \in 0..MaxNow
      BY <1>2, <1>3, <2>2
    <2>4. d.timeout = (IF x < now THEN now ELSE x) + 1
      BY <1>6, <2>2
    <2> HIDE DEF d
    <2>5. QED
      BY <1>4, <2>3, <2>4
  <1>8. QED
    BY <1>6, <1>7

\* The place of a new entry exists: pmksa_cache_link_entry()'s loop finds it.
LEMMA BeforeIs ==
  ASSUME NEW c, Good(c), NEW t \in Nat
  PROVE  /\ Before(c, t) \in 0..Len(c.pmksa)
         /\ \A i \in 1..Before(c, t) : c.entry[c.pmksa[i]].expiration <= t
         /\ Before(c, t) < Len(c.pmksa) =>
              c.entry[c.pmksa[Before(c, t) + 1]].expiration > t
  <1> DEFINE x(i) == c.entry[c.pmksa[i]].expiration
             S == {i \in 1..Len(c.pmksa) : x(i) > t}
             Is(n) == /\ \A i \in 1..n : x(i) <= t
                      /\ n < Len(c.pmksa) => x(n + 1) > t
  <1>1. Len(c.pmksa) \in Nat
    BY DEF Good, CacheType
  <1>2. \A i \in 1..Len(c.pmksa) : x(i) \in Nat
    <2>1. c \in CacheType /\ c.pmksa \in Seq(Entry) /\ Range(c.pmksa) = Live(c)
      BY DEF Good, CacheType, Listed
    <2>2. \A i \in 1..Len(c.pmksa) : c.pmksa[i] \in Live(c) /\ c.pmksa[i] \in Entry
      BY <2>1 DEF Range
    <2>3. \A i \in 1..Len(c.pmksa) : c.entry[c.pmksa[i]] \in PmksaEntry
      BY <2>1, <2>2, LiveEntry
    <2>4. QED
      BY <2>3, CacheAssumption DEF PmksaEntry
  <1> HIDE DEF x
  <1>3. \E n \in 0..Len(c.pmksa) : Is(n)
    <2>1. CASE S = {}
      <3>1. \A i \in 1..Len(c.pmksa) : x(i) <= t
        BY <1>2, <2>1
      <3>2. QED
        BY <1>1, <3>1
    <2>2. CASE S # {}
      <3>1. S \subseteq Nat
        BY <1>1
      <3>2. PICK m \in S : \A y \in S : m <= y
        BY <2>2, <3>1, Least
      <3>3. m \in Nat /\ 1 <= m /\ m <= Len(c.pmksa) /\ x(m) > t
        BY <1>1, <3>2
      <3>4. \A i \in 1..(m - 1) : i \in 1..Len(c.pmksa) /\ i \notin S
        BY <1>1, <3>2, <3>3
      <3>5. \A i \in 1..(m - 1) : x(i) <= t
        BY <1>2, <3>4
      <3>6. m - 1 \in 0..Len(c.pmksa) /\ (m - 1) + 1 = m
        BY <1>1, <3>3
      <3>7. Is(m - 1)
        BY <3>3, <3>5, <3>6
      <3>8. QED
        BY <3>6, <3>7
    <2>3. QED
      BY <2>1, <2>2
  <1>4. Before(c, t) = CHOOSE n \in 0..Len(c.pmksa) : Is(n)
    BY Zenon DEF Before, x
  <1> HIDE DEF Is
  <1>5. Before(c, t) \in 0..Len(c.pmksa) /\ Is(Before(c, t))
    BY <1>3, <1>4, Zenon
  <1>6. QED
    BY <1>5, Zenon DEF Is, x

\* The cache with the new entry e in both structures.
Added(c, a, e) ==
  [c EXCEPT !.entry[a] = e, !.pmksa_count = @ + 1,
            !.pmksa = Inserted(@, a, Before(c, e.expiration)),
            !.chain[PMKID_HASH(e.pmkid)] = <<a>> \o @]

\* pmksa_cache_link_entry() as an insertion, with or without a new timeout.
LEMMA LinkIs ==
  ASSUME NEW c, NEW a, NEW e
  PROVE  pmksa_cache_link_entry(c, a, e) =
           IF Before(c, e.expiration) = 0
           THEN pmksa_cache_set_expiration(Added(c, a, e)) ELSE Added(c, a, e)
  BY Zenon DEF pmksa_cache_link_entry, Added, Inserted

\* An element in front of a list.
LEMMA InFront ==
  ASSUME NEW T, NEW seq \in Seq(T), NEW a \in T
  PROVE  /\ <<a>> \o seq \in Seq(T)
         /\ Range(<<a>> \o seq) = Range(seq) \cup {a}
         /\ Distinct(seq) /\ a \notin Range(seq) => Distinct(<<a>> \o seq)
  <1>1. SubSeq(seq, 1, 0) = <<>>
    OBVIOUS
  <1>2. <<>> \o <<a>> = <<a>>
    OBVIOUS
  <1>3. SubSeq(seq, 0 + 1, Len(seq)) = seq
    <2>1. 0 + 1 = 1
      OBVIOUS
    <2>2. SubSeq(seq, 1, Len(seq)) = seq
      BY SubSeqFull
    <2>3. QED
      BY <2>1, <2>2
  <1>4. Inserted(seq, a, 0) = <<a>> \o seq
    BY <1>1, <1>2, <1>3 DEF Inserted
  <1>5. 0 \in 0..Len(seq)
    OBVIOUS
  <1>6. /\ Range(Inserted(seq, a, 0)) = Range(seq) \cup {a}
        /\ Distinct(seq) /\ a \notin Range(seq) => Distinct(Inserted(seq, a, 0))
    BY <1>5, InsertedSet
  <1>7. Inserted(seq, a, 0) \in Seq(T)
    BY <1>5, InsertedPlaces
  <1>8. QED
    BY <1>4, <1>6, <1>7

\* A new entry keeps a cache good.
LEMMA AddedGood ==
  ASSUME NEW c, Good(c), NEW a \in Entry, a \notin Live(c), NEW e \in PmksaEntry
  PROVE  /\ Good(Added(c, a, e))
         /\ Live(Added(c, a, e)) = Live(c) \cup {a}
         /\ Added(c, a, e).entry = [c.entry EXCEPT ![a] = e]
         /\ Added(c, a, e).timeout = c.timeout
         /\ Added(c, a, e).sm = c.sm
  <1> DEFINE d == Added(c, a, e)
             n == Before(c, e.expiration)
             g == PMKID_HASH(e.pmkid)
  <1>0. c \in CacheType /\ e.expiration \in Nat /\ g \in Hashes
    <2>1. e.expiration \in Nat
      BY CacheAssumption DEF PmksaEntry
    <2>2. e.pmkid.pmk \in Pmk
      BY DEF PmksaEntry, Pmkids
    <2>3. QED
      BY <2>1, <2>2 DEF Good, Hashes, PMKID_HASH
  <1>1. /\ c.pmksa \in Seq(Entry) /\ c.chain \in [Hashes -> Seq(Entry)]
        /\ c.pmksa_count \in Nat /\ c.timeout \in 0..(MaxNow + 1) \cup {NULL}
        /\ c.entry \in [Entry -> PmksaEntry \cup {NULL}]
        /\ c.sm \in [Spa -> Entry \cup {NULL}]
    BY <1>0 DEF CacheType
  <1> HIDE DEF g
  <1>2. /\ d.pmksa = Inserted(c.pmksa, a, n)
        /\ d.chain = [c.chain EXCEPT ![g] = <<a>> \o @]
        /\ d.pmksa_count = c.pmksa_count + 1 /\ d.timeout = c.timeout
        /\ d.entry = [c.entry EXCEPT ![a] = e] /\ d.sm = c.sm
        /\ d = [pmksa |-> d.pmksa, chain |-> d.chain, pmksa_count |-> d.pmksa_count,
                timeout |-> d.timeout, entry |-> d.entry, sm |-> d.sm]
    <2>1. c = [pmksa |-> c.pmksa, chain |-> c.chain, pmksa_count |-> c.pmksa_count,
               timeout |-> c.timeout, entry |-> c.entry, sm |-> c.sm]
      BY <1>0 DEF CacheType
    <2>2. d = [c EXCEPT !.entry = [c.entry EXCEPT ![a] = e], !.pmksa_count = c.pmksa_count + 1,
                        !.pmksa = Inserted(c.pmksa, a, n),
                        !.chain = [c.chain EXCEPT ![g] = <<a>> \o @]]
      BY DEF Added, g
    <2> HIDE DEF d, n
    <2>3. QED
      BY <2>1, <2>2
  <1>3. n \in 0..Len(c.pmksa)
    BY <1>0, BeforeIs
  <1> HIDE DEF d, n
  <1>4. Live(d) = Live(c) \cup {a}
    <2>1. e # NULL
      BY CacheAssumption
    <2>2. \A x \in Entry : d.entry[x] # NULL <=> c.entry[x] # NULL \/ x = a
      BY <1>1, <1>2, <2>1
    <2>3. QED
      BY <2>2 DEF Live
  <1>5. \A x \in Live(c) : d.entry[x] = c.entry[x]
    BY <1>1, <1>2 DEF Live
  <1>6. d.entry[a] = e
    BY <1>1, <1>2
  <1>7. Range(c.pmksa) = Live(c) /\ Distinct(c.pmksa)
    BY DEF Good, Listed
  <1>8. d.pmksa \in Seq(Entry) /\ IsInserted(d.pmksa, c.pmksa, a, n)
    BY <1>1, <1>2, <1>3, InsertedPlaces
  <1>9. Listed(d)
    <2>1. /\ Range(d.pmksa) = Range(c.pmksa) \cup {a}
          /\ Distinct(c.pmksa) /\ a \notin Range(c.pmksa) => Distinct(d.pmksa)
      BY <1>1, <1>2, <1>3, InsertedSet
    <2>2. QED
      BY <1>4, <1>7, <2>1 DEF Listed
  <1>10. /\ Counted(d) /\ d.pmksa_count \in Nat
    <2>1. IsFiniteSet(Live(c)) /\ c.pmksa_count = Cardinality(Live(c))
      BY DEF Good, Counted
    <2>2. /\ IsFiniteSet(Live(c) \cup {a})
          /\ Cardinality(Live(c) \cup {a}) = Cardinality(Live(c)) + 1
      BY <2>1, FS_AddElement
    <2>3. QED
      BY <1>1, <1>2, <1>4, <2>1, <2>2 DEF Counted
  <1>11. ASSUME NEW h \in Hashes
         PROVE  /\ d.chain[h] \in Seq(Entry) /\ Distinct(d.chain[h])
                /\ Range(d.chain[h]) = Here(d, h)
    <2>1. /\ c.chain[h] \in Seq(Entry) /\ Distinct(c.chain[h])
          /\ Range(c.chain[h]) = Here(c, h)
      BY <1>1 DEF Good, Chained
    <2>2. a \notin Here(c, h)
      BY DEF Here
    <2>3. \A x : x \in Here(d, h) <=> x \in Here(c, h) \/ (x = a /\ h = g)
      BY <1>4, <1>5, <1>6, Zenon DEF Here, g
    <2>4. CASE h = g
      <3>1. d.chain[h] = <<a>> \o c.chain[h]
        BY <1>1, <1>2, <2>4
      <3>2. /\ d.chain[h] \in Seq(Entry) /\ Distinct(d.chain[h])
            /\ Range(d.chain[h]) = Range(c.chain[h]) \cup {a}
        BY <2>1, <2>2, <3>1, InFront
      <3>3. QED
        BY <2>1, <2>3, <2>4, <3>2
    <2>5. CASE h # g
      <3>1. d.chain[h] = c.chain[h]
        BY <1>1, <1>2, <2>5
      <3>2. Here(d, h) = Here(c, h)
        BY <2>3, <2>5
      <3>3. QED
        BY <2>1, <3>1, <3>2
    <2>6. QED
      BY <2>4, <2>5
  <1>12. d \in CacheType
    <2>1. d.chain \in [Hashes -> Seq(Entry)]
      <3>1. DOMAIN d.chain = Hashes /\ d.chain = [h \in Hashes |-> d.chain[h]]
        BY <1>1, <1>2
      <3>2. QED
        BY <1>11, <3>1
    <2>2. d.entry \in [Entry -> PmksaEntry \cup {NULL}]
      BY <1>1, <1>2
    <2>3. QED
      BY <1>1, <1>2, <1>8, <1>10, <2>1, <2>2 DEF CacheType
  <1>13. Pointed(d)
    BY <1>2, <1>4, <1>5 DEF Good, Pointed
  <1>14. Ordered(d)
    <2> DEFINE x(k) == c.entry[c.pmksa[k]].expiration
               y(i) == d.entry[d.pmksa[i]].expiration
               At(i) == \/ i = n + 1 /\ y(i) = e.expiration
                        \/ \E k \in 1..Len(c.pmksa) :
                             /\ y(i) = x(k)
                             /\ (k <= n /\ i = k) \/ (k > n /\ i = k + 1)
    <2>1. /\ Len(c.pmksa) \in Nat /\ Len(d.pmksa) = Len(c.pmksa) + 1
          /\ DOMAIN c.pmksa = 1..Len(c.pmksa)
      BY <1>1, <1>8 DEF IsInserted
    <2>2. /\ \A k \in 1..n : x(k) <= e.expiration
          /\ n < Len(c.pmksa) => x(n + 1) > e.expiration
      BY <1>0, BeforeIs DEF n
    <2>3. \A k, m \in 1..Len(c.pmksa) : k <= m => x(k) <= x(m)
      BY DEF Good, Ordered
    <2>4. \A k \in 1..Len(c.pmksa) : /\ c.pmksa[k] \in Live(c)
                                     /\ d.entry[c.pmksa[k]] = c.entry[c.pmksa[k]]
      BY <1>5, <1>7, <2>1, Zenon DEF Range
    <2>5. \A k \in 1..Len(c.pmksa) : x(k) \in Nat
      <3>1. \A b \in Live(c) : b \in Entry /\ c.entry[b] \in PmksaEntry
        BY <1>0, LiveEntry DEF Live
      <3>2. QED
        BY <2>4, <3>1, CacheAssumption DEF PmksaEntry
    <2>6. ASSUME NEW i \in 1..(Len(c.pmksa) + 1) PROVE At(i)
      <3>1. \/ i = n + 1 /\ d.pmksa[i] = a
            \/ \E k \in 1..Len(c.pmksa) : /\ d.pmksa[i] = c.pmksa[k]
                                          /\ (k <= n /\ i = k) \/ (k > n /\ i = k + 1)
        <4>1. ComesFrom(Inserted(c.pmksa, a, n), c.pmksa, a, n, i)
          BY <1>1, <1>3, InsertedFrom
        <4>2. QED
          BY <1>2, <4>1 DEF ComesFrom
      <3>2. QED
        BY <1>6, <2>4, <3>1, Zenon
    <2>7. SUFFICES ASSUME NEW i \in 1..(Len(c.pmksa) + 1), NEW j \in 1..(Len(c.pmksa) + 1),
                          i <= j
                   PROVE  y(i) <= y(j)
      BY <2>1 DEF Ordered
    <2>8. At(i) /\ At(j)
      BY <2>6
    <2> HIDE DEF x, y
    <2>9. CASE i = n + 1 /\ y(i) = e.expiration /\ j = n + 1 /\ y(j) = e.expiration
      BY <1>0, <2>9
    <2>10. ASSUME i = n + 1, y(i) = e.expiration,
                  NEW m \in 1..Len(c.pmksa), y(j) = x(m),
                  (m <= n /\ j = m) \/ (m > n /\ j = m + 1)
           PROVE  y(i) <= y(j)
      <3>1. n \in Nat /\ n + 1 <= m /\ n + 1 \in 1..Len(c.pmksa) /\ n < Len(c.pmksa)
        BY <1>3, <2>1, <2>7, <2>10
      <3>2. x(n + 1) > e.expiration /\ x(n + 1) <= x(m)
        BY <2>2, <2>3, <3>1
      <3>3. x(n + 1) \in Nat /\ x(m) \in Nat
        BY <2>5, <3>1
      <3>4. QED
        BY <1>0, <2>10, <3>2, <3>3
    <2>11. ASSUME NEW k \in 1..Len(c.pmksa), y(i) = x(k),
                  (k <= n /\ i = k) \/ (k > n /\ i = k + 1),
                  j = n + 1, y(j) = e.expiration
           PROVE  y(i) <= y(j)
      <3>1. k \in 1..n
        BY <1>3, <2>1, <2>7, <2>11
      <3>2. QED
        BY <2>2, <2>11, <3>1
    <2>12. ASSUME NEW k \in 1..Len(c.pmksa), y(i) = x(k),
                  (k <= n /\ i = k) \/ (k > n /\ i = k + 1),
                  NEW m \in 1..Len(c.pmksa), y(j) = x(m),
                  (m <= n /\ j = m) \/ (m > n /\ j = m + 1)
           PROVE  y(i) <= y(j)
      <3>1. k <= m
        BY <1>3, <2>1, <2>7, <2>12
      <3>2. QED
        BY <2>3, <2>12, <3>1
    <2>13. QED
      BY <2>8, <2>9, <2>10, <2>11, <2>12, Zenon
  <1>15. QED
    BY <1>2, <1>4, <1>9, <1>10, <1>11, <1>12, <1>13, <1>14 DEF Good, Chained, d

\* pmksa_cache_link_entry() keeps a cache good and its timeout in time.
LEMMA LinkGood ==
  ASSUME NEW c, Good(c), NEW a \in Entry, a \notin Live(c), NEW e \in PmksaEntry,
         now \in 0..MaxNow, Timely(c, now)
  PROVE  LET d == pmksa_cache_link_entry(c, a, e)
         IN /\ Good(d) /\ Timely(d, now)
            /\ Live(d) = Live(c) \cup {a}
            /\ d.entry[a] = e /\ \A x \in Live(c) : d.entry[x] = c.entry[x]
            /\ d.sm = c.sm
  <1> DEFINE l == Added(c, a, e)
             d == pmksa_cache_link_entry(c, a, e)
  <1>1. /\ Good(l) /\ Live(l) = Live(c) \cup {a} /\ l.entry = [c.entry EXCEPT ![a] = e]
        /\ l.timeout = c.timeout /\ l.sm = c.sm
    BY AddedGood
  <1>2. d = IF Before(c, e.expiration) = 0 THEN pmksa_cache_set_expiration(l) ELSE l
    BY LinkIs
  <1> HIDE DEF l, d
  <1>3. c.entry \in [Entry -> PmksaEntry \cup {NULL}]
    BY DEF Good, CacheType
  <1>4. l.entry[a] = e /\ \A x \in Live(c) : l.entry[x] = c.entry[x]
    BY <1>1, <1>3 DEF Live
  <1>5. CASE Before(c, e.expiration) = 0
    <2>1. d = pmksa_cache_set_expiration(l)
      BY <1>2, <1>5
    <2>2. Good(d) /\ SameEntries(d, l, Live(l)) /\ Timely(d, now) /\ d.sm = l.sm
      BY <1>1, <2>1, SetExpirationGood
    <2>3. QED
      BY <1>1, <1>4, <2>2 DEF SameEntries, d
  <1>6. CASE Before(c, e.expiration) # 0
    <2>1. d = l
      BY <1>2, <1>6
    <2>2. e.expiration \in Nat /\ c \in CacheType /\ Range(c.pmksa) = Live(c)
          /\ c.pmksa \in Seq(Entry)
      BY CacheAssumption DEF PmksaEntry, Good, Listed, CacheType
    <2> DEFINE n == Before(c, e.expiration)
    <2>3. /\ n \in 0..Len(c.pmksa)
          /\ \A i \in 1..n : c.entry[c.pmksa[i]].expiration <= e.expiration
      BY <2>2, BeforeIs
    <2>4. 1 \in 1..n /\ 1 \in DOMAIN c.pmksa
      BY <1>6, <2>2, <2>3
    <2>5. c.pmksa[1] \in Live(c) /\ c.entry[c.pmksa[1]].expiration <= e.expiration
      BY <2>2, <2>3, <2>4 DEF Range
    <2>6. c.pmksa[1] \in Entry /\ c.entry[c.pmksa[1]] \in PmksaEntry
      BY <2>2, <2>5, LiveEntry DEF Live
    <2>7. c.entry[c.pmksa[1]].expiration \in Nat
      BY <2>6, CacheAssumption DEF PmksaEntry
    <2>8. /\ c.timeout # NULL
          /\ c.timeout <= c.entry[c.pmksa[1]].expiration + 1 \/ c.timeout <= now + 1
      BY <2>5 DEF Timely
    <2>9. c.timeout \in Nat
      BY <2>2, <2>8, CacheAssumption DEF CacheType
    <2>10. c.timeout <= e.expiration + 1 \/ c.timeout <= now + 1
      BY <2>2, <2>5, <2>7, <2>8, <2>9
    <2>11. Timely(l, now)
      BY <1>1, <1>4, <2>8, <2>10 DEF Timely
    <2>12. QED
      BY <1>1, <1>4, <2>1, <2>11 DEF d
  <1>7. QED
    BY <1>5, <1>6

\* Freeing never makes a timeout late.
LEMMA FreeTimely ==
  ASSUME NEW c, Good(c), NEW A, A \subseteq Live(c), NEW t, Timely(c, t)
  PROVE  Timely(pmksa_cache_free_entry(c, A), t)
  <1>1. /\ SameEntries(pmksa_cache_free_entry(c, A), c, Live(c) \ A)
        /\ pmksa_cache_free_entry(c, A).timeout = c.timeout
    BY FreeGood
  <1>2. QED
    BY <1>1 DEF SameEntries, Timely

-----------------------------------------------------------------------------
(***************************************************************************)
(* Looking entries up, and adding one.                                     *)
(***************************************************************************)
\* The element of seq at the first of the positions found.
AtFirst(seq, found) ==
  IF found = {} THEN NULL ELSE seq[CHOOSE i \in found : \A j \in found : i <= j]

\* A search finds an element at one of its positions if there is one.
LEMMA AtFirstIs ==
  ASSUME NEW seq \in Seq(Entry), NEW found, found \subseteq DOMAIN seq
  PROVE  IF found = {} THEN AtFirst(seq, found) = NULL
         ELSE AtFirst(seq, found) \in Entry /\ \E i \in found : AtFirst(seq, found) = seq[i]
  <1>1. CASE found = {}
    BY <1>1 DEF AtFirst
  <1>2. CASE found # {}
    <2>1. found \subseteq Nat
      OBVIOUS
    <2>2. \E i \in found : \A j \in found : i <= j
      BY <1>2, <2>1, Least
    <2> DEFINE i == CHOOSE i \in found : \A j \in found : i <= j
    <2>3. i \in found
      BY <2>2
    <2>4. AtFirst(seq, found) = seq[i]
      BY <1>2 DEF AtFirst
    <2> HIDE DEF i
    <2>5. seq[i] \in Entry
      BY <2>3
    <2>6. QED
      BY <1>2, <2>3, <2>4, <2>5
  <1>3. QED
    BY <1>1, <1>2

\* pmksa_cache_auth_get() without a PMKID finds an entry of the supplicant if
\* there is one.
LEMMA GetAnyIs ==
  ASSUME NEW c, Good(c), NEW s
  PROVE  /\ GetAny(c, s) = NULL => \A a \in Live(c) : c.entry[a].spa # s
         /\ GetAny(c, s) # NULL => GetAny(c, s) \in Live(c) /\ c.entry[GetAny(c, s)].spa = s
  <1> DEFINE found == {i \in DOMAIN c.pmksa : c.entry[c.pmksa[i]].spa = s /\ TRUE}
  <1>1. c.pmksa \in Seq(Entry) /\ Range(c.pmksa) = Live(c)
    BY DEF Good, CacheType, Listed
  <1>2. GetAny(c, s) = AtFirst(c.pmksa, found)
    BY Zenon DEF GetAny, First, AtFirst
  <1>3. CASE found = {}
    <2>1. GetAny(c, s) = NULL
      BY <1>1, <1>2, <1>3, AtFirstIs
    <2>2. \A a \in Live(c) : \E i \in DOMAIN c.pmksa : a = c.pmksa[i]
      BY <1>1, Zenon DEF Range
    <2>3. QED
      BY <1>3, <2>1, <2>2, Zenon
  <1>4. CASE found # {}
    <2>1. /\ GetAny(c, s) \in Entry
          /\ \E i \in found : GetAny(c, s) = c.pmksa[i]
      BY <1>1, <1>2, <1>4, AtFirstIs
    <2>2. GetAny(c, s) # NULL
      BY <2>1, CacheAssumption
    <2>3. QED
      BY <1>1, <2>1, <2>2, Zenon DEF Range
  <1>5. QED
    BY <1>3, <1>4

\* pmksa_cache_auth_get() with a PMKID finds only an entry of the supplicant.
LEMMA GetIs ==
  ASSUME NEW c, Good(c), NEW s, NEW p \in Pmkids, pmksa_cache_auth_get(c, s, p) # NULL
  PROVE  /\ pmksa_cache_auth_get(c, s, p) \in Live(c)
         /\ c.entry[pmksa_cache_auth_get(c, s, p)].spa = s
  <1> DEFINE h == PMKID_HASH(p)
             seq == c.chain[h]
             found == {i \in DOMAIN seq : c.entry[seq[i]].spa = s /\ c.entry[seq[i]].pmkid = p}
             g == pmksa_cache_auth_get(c, s, p)
  <1>1. h \in Hashes
    BY DEF Pmkids, Hashes, PMKID_HASH
  <1>2. g = AtFirst(seq, found)
    BY Zenon DEF pmksa_cache_auth_get, First, AtFirst
  <1> HIDE DEF h
  <1>3. seq \in Seq(Entry) /\ Range(seq) = Here(c, h)
    BY <1>1 DEF Good, CacheType, Chained
  <1> HIDE DEF seq, g
  <1>4. found # {}
    BY <1>2, <1>3, AtFirstIs DEF g
  <1>5. \E i \in found : g = seq[i]
    BY <1>2, <1>3, <1>4, AtFirstIs
  <1>6. \A i \in DOMAIN seq : seq[i] \in Live(c)
    BY <1>3, Zenon DEF Range, Here
  <1>7. QED
    BY <1>5, <1>6 DEF g

\* pmksa_cache_get_okc() finds only an entry of the supplicant.
LEMMA GetOkcIs ==
  ASSUME NEW c, Good(c), NEW s, NEW b, NEW p, pmksa_cache_get_okc(c, b, s, p) # NULL
  PROVE  /\ pmksa_cache_get_okc(c, b, s, p) \in Live(c)
         /\ c.entry[pmksa_cache_get_okc(c, b, s, p)].spa = s
  <1> DEFINE Is(e) == IF e.akmp = "SAE" THEN e.pmkid = p ELSE Pmkid(e.akmp, e.pmk, b) = p
             found == {i \in DOMAIN c.pmksa : c.entry[c.pmksa[i]].spa = s
                                              /\ Is(c.entry[c.pmksa[i]])}
             g == pmksa_cache_get_okc(c, b, s, p)
  <1>1. c.pmksa \in Seq(Entry) /\ Range(c.pmksa) = Live(c)
    BY DEF Good, CacheType, Listed
  <1>2. g = AtFirst(c.pmksa, found)
    BY Zenon DEF pmksa_cache_get_okc, First, AtFirst
  <1> HIDE DEF Is, g
  <1>3. found # {}
    BY <1>1, <1>2, AtFirstIs DEF g
  <1>4. \E i \in found : g = c.pmksa[i]
    BY <1>1, <1>2, <1>3, AtFirstIs
  <1>5. \A i \in DOMAIN c.pmksa : c.pmksa[i] \in Live(c)
    BY <1>1, Zenon DEF Range
  <1>6. QED
    BY <1>4, <1>5 DEF g

\* A cache has one entry of a supplicant.
One(c) == \A a, b \in Live(c) : c.entry[a].spa = c.entry[b].spa => a = b

\* d has entries of c and possibly a.
NothingElse(d, c, a) ==
  /\ Live(d) \subseteq Live(c) \cup {a}
  /\ \A x \in Live(d) : x # a => d.entry[x] = c.entry[x]

\* pmksa_cache_auth_add_entry() keeps a cache good, to one entry of a
\* supplicant and within the limit.
LEMMA AddGood ==
  ASSUME NEW c, Good(c), Timely(c, now), now \in 0..MaxNow,
         NEW a \in Entry, a \notin Live(c), NEW e \in PmksaEntry
  PROVE  LET d == pmksa_cache_auth_add_entry(c, a, e)
         IN /\ Good(d) /\ Timely(d, now)
            /\ NothingElse(d, c, a) /\ d.entry[a] = e
            /\ One(c) => One(d)
            /\ c.pmksa_count <= pmksa_cache_max_entries =>
                 d.pmksa_count <= pmksa_cache_max_entries
  <1> DEFINE old == GetAny(c, e.spa)
             f == IF old = NULL THEN c ELSE pmksa_cache_free_entry(c, {old})
             full == f.pmksa_count >= pmksa_cache_max_entries /\ f.pmksa # <<>>
             r == IF full THEN pmksa_cache_free_entry(f, {Head(f.pmksa)}) ELSE f
             d == pmksa_cache_link_entry(r, a, e)
  <1>1. d = pmksa_cache_auth_add_entry(c, a, e)
    BY Zenon DEF pmksa_cache_auth_add_entry
  <1>2. /\ old = NULL => \A x \in Live(c) : c.entry[x].spa # e.spa
        /\ old # NULL => old \in Live(c) /\ c.entry[old].spa = e.spa
    BY GetAnyIs
  <1> HIDE DEF old
  <1>3. /\ Good(f) /\ Timely(f, now)
        /\ SameEntries(f, c, IF old = NULL THEN Live(c) ELSE Live(c) \ {old})
    <2>1. CASE old = NULL
      BY <2>1 DEF SameEntries
    <2>2. CASE old # NULL
      <3>1. {old} \subseteq Live(c) /\ f = pmksa_cache_free_entry(c, {old})
        BY <1>2, <2>2
      <3> HIDE DEF f
      <3>2. QED
        BY <2>2, <3>1, FreeGood, FreeTimely
    <2>3. QED
      BY <2>1, <2>2
  <1> HIDE DEF f
  <1>4. Live(f) \subseteq Live(c) /\ \A x \in Live(f) : f.entry[x] = c.entry[x]
    BY <1>3 DEF SameEntries
  <1>5. One(c) => \A x \in Live(f) : f.entry[x].spa # e.spa
    BY <1>2, <1>3 DEF SameEntries, One
  <1>6. /\ Good(r) /\ Timely(r, now)
        /\ SameEntries(r, f, IF full THEN Live(f) \ {Head(f.pmksa)} ELSE Live(f))
    <2>1. CASE ~full
      BY <1>3, <2>1 DEF SameEntries
    <2>2. CASE full
      <3>1. {Head(f.pmksa)} \subseteq Live(f) /\ r = pmksa_cache_free_entry(f, {Head(f.pmksa)})
        BY <1>3, <2>2, HeadFirst
      <3> HIDE DEF r, full
      <3>2. QED
        BY <1>3, <2>2, <3>1, FreeGood, FreeTimely
    <2>3. QED
      BY <2>1, <2>2
  <1>7. full => Head(f.pmksa) \in Live(f)
    BY <1>3, HeadFirst
  <1>8. ~full => f.pmksa_count < pmksa_cache_max_entries \/ Live(f) = {}
    <2>1. f.pmksa_count \in Nat /\ pmksa_cache_max_entries \in Nat
      BY <1>3, CacheAssumption DEF Good, CacheType
    <2>2. f.pmksa = <<>> => Live(f) = {}
      BY <1>3, HeadFirst
    <2>3. QED
      BY <2>1, <2>2
  <1> HIDE DEF full, r
  <1>9. Live(r) \subseteq Live(f) /\ \A x \in Live(r) : r.entry[x] = f.entry[x]
    BY <1>6 DEF SameEntries
  <1>10. a \notin Live(r)
    BY <1>4, <1>9
  <1>11. /\ Good(d) /\ Timely(d, now) /\ Live(d) = Live(r) \cup {a}
         /\ d.entry[a] = e /\ \A x \in Live(r) : d.entry[x] = r.entry[x]
    BY <1>6, <1>10, LinkGood
  <1> HIDE DEF d
  <1>12. NothingElse(d, c, a)
    BY <1>4, <1>9, <1>11 DEF NothingElse
  <1>13. ASSUME One(c) PROVE One(d)
    <2>1. \A x \in Live(r) : d.entry[x].spa # e.spa /\ x \in Live(c)
                             /\ d.entry[x] = c.entry[x]
      BY <1>4, <1>5, <1>9, <1>11, <1>13
    <2>2. QED
      BY <1>11, <1>13, <2>1 DEF One
  <1>14. ASSUME c.pmksa_count <= pmksa_cache_max_entries
         PROVE  d.pmksa_count <= pmksa_cache_max_entries
    <2>1. /\ IsFiniteSet(Live(c)) /\ c.pmksa_count = Cardinality(Live(c))
          /\ IsFiniteSet(Live(f)) /\ f.pmksa_count = Cardinality(Live(f))
          /\ IsFiniteSet(Live(r)) /\ r.pmksa_count = Cardinality(Live(r))
          /\ d.pmksa_count = Cardinality(Live(d))
      BY <1>3, <1>6, <1>11 DEF Good, Counted
    <2>2. /\ c.pmksa_count \in Nat /\ f.pmksa_count \in Nat /\ r.pmksa_count \in Nat
          /\ pmksa_cache_max_entries \in Nat \ {0}
      BY <1>3, <1>6, CacheAssumption DEF Good, CacheType
    <2>3. f.pmksa_count <= c.pmksa_count
      BY <1>4, <2>1, FS_Subset
    <2>4. d.pmksa_count = r.pmksa_count + 1
      <3>1. Cardinality(Live(r) \cup {a}) = Cardinality(Live(r)) + 1
        BY <1>10, <2>1, FS_AddElement
      <3>2. QED
        BY <1>11, <2>1, <3>1
    <2>5. r.pmksa_count + 1 <= pmksa_cache_max_entries
      <3>1. CASE full
        <4>1. Cardinality(Live(f) \ {Head(f.pmksa)}) = Cardinality(Live(f)) - 1
          BY <1>7, <2>1, <3>1, FS_RemoveElement
        <4>2. Live(r) = Live(f) \ {Head(f.pmksa)}
          BY <1>6, <3>1 DEF SameEntries
        <4>3. r.pmksa_count = f.pmksa_count - 1
          BY <2>1, <4>1, <4>2
        <4>4. QED
          BY <1>14, <2>2, <2>3, <4>3
      <3>2. CASE ~full
        <4>1. Live(r) = Live(f)
          BY <1>6, <3>2 DEF SameEntries
        <4>2. r.pmksa_count = f.pmksa_count
          BY <2>1, <4>1
        <4>3. Live(f) = {} => f.pmksa_count = 0
          BY <2>1, FS_EmptySet
        <4>4. QED
          BY <1>8, <2>2, <3>2, <4>2, <4>3
      <3>3. QED
        BY <3>1, <3>2
    <2>6. QED
      BY <2>4, <2>5
  <1>15. QED
    BY <1>1, <1>11, <1>12, <1>13, <1>14

-----------------------------------------------------------------------------
(***************************************************************************)
(* The caches of all BSSs.                                                 *)
(***************************************************************************)
\* What every cache is: its structures in step, its timeout in time and,
\* without okc, one entry of a supplicant and the limit.
Fine(c) ==
  /\ Good(c) /\ Timely(c, now)
  /\ ~conf.okc => One(c) /\ c.pmksa_count <= pmksa_cache_max_entries

\* Without okc, a station whose PMKSA was removed has no entry.
Gone(b, c, R) ==
  ~conf.okc => \A s \in Spa : <<b, s>> \in R => \A a \in Live(c) : c.entry[a].spa # s

\* The inductive invariant.
CachesInv ==
  /\ conf \in Configs /\ now \in 0..MaxNow /\ events \in 0..conf.events
  /\ removed \subseteq Bss \X Spa
  /\ pmksa = [b \in Bss |-> pmksa[b]]
  /\ \A b \in Bss : Fine(pmksa[b]) /\ Gone(b, pmksa[b], removed)

\* A cache whose stations point at their own entries stays one as long as the
\* stations keep their addresses.
LEMMA GoodStays ==
  ASSUME conf' = conf
  PROVE  \A c : Good(c) => Good(c)'
  BY DEF Good, Pointed, Addresses

\* The installation's BSSs and supplicants are of the model's.
LEMMA ConfTypes ==
  ASSUME conf \in Configs
  PROVE  /\ conf.okc \in BOOLEAN /\ conf.events \in Nat
         /\ \A b \in conf.bss : b \in Bss
         /\ \A s \in conf.spa : s \in Spa
  BY CacheAssumption

\* Fewer entries are as fine as more.
LEMMA FewerFine ==
  ASSUME NEW c, Fine(c), NEW d, Good(d), Timely(d, now), NEW L, L \subseteq Live(c),
         SameEntries(d, c, L)
  PROVE  /\ Fine(d)
         /\ \A b, R : Gone(b, c, R) => Gone(b, d, R)
  <1>1. Live(d) = L /\ \A a \in L : d.entry[a] = c.entry[a]
    BY DEF SameEntries
  <1>2. One(c) => One(d)
    BY <1>1 DEF One
  <1>3. c.pmksa_count <= pmksa_cache_max_entries => d.pmksa_count <= pmksa_cache_max_entries
    <2>1. /\ IsFiniteSet(Live(c)) /\ c.pmksa_count = Cardinality(Live(c))
          /\ d.pmksa_count = Cardinality(Live(d))
      BY DEF Fine, Good, Counted
    <2>2. d.pmksa_count <= c.pmksa_count
      BY <1>1, <2>1, FS_Subset
    <2>3. c.pmksa_count \in Nat /\ d.pmksa_count \in Nat /\ pmksa_cache_max_entries \in Nat
      BY CacheAssumption DEF Fine, Good, CacheType
    <2>4. QED
      BY <2>2, <2>3
  <1>4. Fine(d)
    BY <1>2, <1>3 DEF Fine
  <1>5. \A b, R : Gone(b, c, R) => Gone(b, d, R)
    BY <1>1 DEF Gone
  <1>6. QED
    BY <1>4, <1>5

\* pmksa_cache_free_entry() keeps a cache fine.
LEMMA FreeFine ==
  ASSUME NEW c, Fine(c), NEW A, A \subseteq Live(c)
  PROVE  /\ Fine(pmksa_cache_free_entry(c, A))
         /\ SameEntries(pmksa_cache_free_entry(c, A), c, Live(c) \ A)
         /\ \A b, R : Gone(b, c, R) => Gone(b, pmksa_cache_free_entry(c, A), R)
  <1> DEFINE d == pmksa_cache_free_entry(c, A)
  <1>1. Good(d) /\ Timely(d, now) /\ SameEntries(d, c, Live(c) \ A)
    BY FreeGood, FreeTimely DEF Fine
  <1> HIDE DEF d
  <1>2. Live(c) \ A \subseteq Live(c)
    OBVIOUS
  <1>3. Fine(d) /\ \A b, R : Gone(b, c, R) => Gone(b, d, R)
    BY <1>1, <1>2, FewerFine
  <1>4. QED
    BY <1>1, <1>3 DEF d

\* A step that puts a fine cache into the place of one of them.
LEMMA Replaced ==
  ASSUME CachesInv, NEW b \in Bss, NEW d, Fine(d), Gone(b, d, removed'),
         pmksa' = [pmksa EXCEPT ![b] = d], UNCHANGED <<conf, now>>,
         events' \in 0..conf.events, removed' \subseteq Bss \X Spa,
         \A x \in Bss, s \in Spa : x # b /\ <<x, s>> \in removed' => <<x, s>> \in removed
  PROVE  CachesInv'
  <1>1. conf' = conf /\ now' = now /\ pmksa'[b] = d /\ pmksa' = [x \in Bss |-> pmksa'[x]]
        /\ \A x \in Bss : x # b => pmksa'[x] = pmksa[x]
    BY DEF CachesInv
  <1>2. conf' \in Configs /\ now' \in 0..MaxNow /\ events' \in 0..(conf'.events)
    BY <1>1 DEF CachesInv
  <1>3. ASSUME NEW x \in Bss PROVE Fine(pmksa[x])' /\ Gone(x, pmksa[x], removed)'
    <2>1. CASE x = b
      BY <1>1, <2>1, GoodStays DEF Fine, Gone
    <2>2. CASE x # b
      <3>1. Fine(pmksa[x]) /\ Gone(x, pmksa[x], removed)
        BY DEF CachesInv
      <3>2. pmksa'[x] = pmksa[x]
        BY <1>1, <2>2
      <3>3. Fine(pmksa[x])'
        BY <1>1, <3>1, <3>2, GoodStays DEF Fine
      <3>4. Gone(x, pmksa[x], removed)'
        BY <1>1, <2>2, <3>1, <3>2 DEF Gone
      <3>5. QED
        BY <3>3, <3>4
    <2>3. QED
      BY <2>1, <2>2
  <1>4. QED
    BY <1>1, <1>2, <1>3 DEF CachesInv

\* The same, for the calls that are counted.
LEMMA ChangedKeeps ==
  ASSUME CachesInv, NEW b \in Bss, NEW d, Changed(b, d), Fine(d), Gone(b, d, removed'),
         removed' \subseteq Bss \X Spa,
         \A x \in Bss, s \in Spa : x # b /\ <<x, s>> \in removed' => <<x, s>> \in removed
  PROVE  CachesInv'
  <1>1. pmksa' = [pmksa EXCEPT ![b] = d] /\ UNCHANGED <<conf, now>>
        /\ events < conf.events /\ events' = events + 1
    BY DEF Changed
  <1>2. conf.events \in Nat /\ events \in 0..conf.events
    BY ConfTypes DEF CachesInv
  <1>3. events' \in 0..conf.events
    BY <1>1, <1>2
  <1>4. QED
    BY <1>1, <1>3, Replaced

\* An empty cache is fine.
LEMMA NewCacheFine ==
  ASSUME now \in 0..MaxNow
  PROVE  Fine(NewCache) /\ Live(NewCache) = {}
  <1> DEFINE c == NewCache
  <1>1. /\ c.pmksa = <<>> /\ c.chain = [h \in Hashes |-> <<>>] /\ c.pmksa_count = 0
        /\ c.timeout = NULL /\ c.entry = [a \in Entry |-> NULL] /\ c.sm = [s \in Spa |-> NULL]
        /\ c \in CacheType
    BY DEF NewCache, CacheType
  <1> HIDE DEF c
  <1>2. Live(c) = {}
    BY <1>1 DEF Live
  <1>3. Range(<<>>) = {} /\ Distinct(<<>>)
    BY DEF Range, Distinct
  <1>4. Listed(c) /\ Ordered(c)
    <2>1. Len(c.pmksa) = 0
      BY <1>1
    <2>2. QED
      BY <1>1, <1>2, <1>3, <2>1 DEF Listed, Ordered
  <1>5. Counted(c)
    BY <1>1, <1>2, FS_EmptySet DEF Counted
  <1>6. Chained(c)
    BY <1>1, <1>2, <1>3 DEF Chained, Here
  <1>7. Pointed(c)
    BY <1>1 DEF Pointed
  <1>8. Timely(c, now) /\ One(c)
    BY <1>2 DEF Timely, One
  <1>9. c.pmksa_count <= pmksa_cache_max_entries
    BY <1>1, CacheAssumption
  <1>10. QED
    BY <1>1, <1>2, <1>4, <1>5, <1>6, <1>7, <1>8, <1>9 DEF Fine, Good, c

\* The initial state.
LEMMA InitInv == Init => CachesInv
  <1> SUFFICES ASSUME Init PROVE CachesInv
    OBVIOUS
  <1>1. conf \in Configs /\ now = 0 /\ removed = {} /\ events = 0
        /\ pmksa = [b \in Bss |-> NewCache]
    BY DEF Init
  <1>2. now \in 0..MaxNow /\ events \in 0..conf.events
    BY <1>1, ConfTypes, CacheAssumption
  <1>3. Fine(NewCache) /\ Live(NewCache) = {}
    BY <1>2, NewCacheFine
  <1>4. ASSUME NEW b \in Bss PROVE Fine(pmksa[b]) /\ Gone(b, pmksa[b], removed)
    BY <1>1, <1>3 DEF Gone
  <1>5. QED
    BY <1>1, <1>2, <1>4 DEF CachesInv

\* A station points elsewhere: the entries are untouched.
LEMMA PointFine ==
  ASSUME NEW c, Fine(c), NEW s \in Spa, NEW p \in Entry \cup {NULL},
         p # NULL => p \in Live(c) /\ c.entry[p].spa \in Addresses(s)
  PROVE  /\ Fine([c EXCEPT !.sm[s] = p])
         /\ \A b, R : Gone(b, c, R) => Gone(b, [c EXCEPT !.sm[s] = p], R)
  <1> DEFINE d == [c EXCEPT !.sm[s] = p]
  <1>1. Good(d) /\ SameEntries(d, c, Live(c)) /\ d.timeout = c.timeout
    BY PointGood DEF Fine
  <1> HIDE DEF d
  <1>2. Timely(d, now)
    BY <1>1 DEF Fine, Timely, SameEntries
  <1>3. Fine(d) /\ \A b, R : Gone(b, c, R) => Gone(b, d, R)
    BY <1>1, <1>2, FewerFine
  <1>4. QED
    BY <1>3 DEF d

\* pmksa_cache_auth_add().
LEMMA AddKeeps ==
  ASSUME CachesInv, NEW b \in Bss, NEW s \in Spa, NEW akmp \in Akmp, NEW t \in Lifetimes,
         pmksa_cache_auth_add(b, s, akmp, t)
  PROVE  CachesInv'
  <1> DEFINE c == pmksa[b]
             a == Allocate(c)
             e == NewEntry(b, s, akmp, t)
             d == pmksa_cache_auth_add_entry(c, a, e)
  <1>1. /\ now + t < MaxNow /\ Live(c) # Entry /\ Changed(b, d) /\ Unused # {}
        /\ removed' = removed \ {<<b, s>>}
    BY DEF pmksa_cache_auth_add
  <1>2. Fine(c) /\ Gone(b, c, removed) /\ now \in 0..MaxNow /\ removed \subseteq Bss \X Spa
    BY DEF CachesInv
  <1>3. a \in Entry /\ a \notin Live(c)
    <2>1. Entry \ Live(c) # {}
      BY <1>1 DEF Live
    <2>2. a \in Entry \ Live(c)
      BY <2>1, Zenon DEF Allocate
    <2>3. QED
      BY <2>2
  <1>4. e \in PmksaEntry /\ e.spa = s
    <2>1. NewPmk \in Pmk
      BY <1>1 DEF NewPmk, Unused
    <2>2. Pmkid(akmp, NewPmk, b) \in Pmkids
      BY <2>1 DEF Pmkid, Pmkids
    <2>3. now + t \in 0..MaxNow
      BY <1>1, <1>2, CacheAssumption
    <2>4. QED
      BY <2>1, <2>2, <2>3 DEF NewEntry, PmksaEntry
  <1> HIDE DEF c, a, e
  <1>5. /\ Good(d) /\ Timely(d, now) /\ NothingElse(d, c, a) /\ d.entry[a] = e
        /\ One(c) => One(d)
        /\ c.pmksa_count <= pmksa_cache_max_entries => d.pmksa_count <= pmksa_cache_max_entries
    BY <1>2, <1>3, <1>4, AddGood DEF Fine
  <1> HIDE DEF d
  <1>6. Fine(d)
    BY <1>2, <1>5 DEF Fine
  <1>7. Gone(b, d, removed')
    <2>1. SUFFICES ASSUME ~conf.okc, NEW z \in Spa, <<b, z>> \in removed', NEW x \in Live(d)
                   PROVE  d.entry[x].spa # z
      BY DEF Gone
    <2>2. <<b, z>> \in removed /\ z # s
      BY <1>1, <2>1
    <2>3. CASE x = a
      BY <1>4, <1>5, <2>2, <2>3
    <2>4. CASE x # a
      BY <1>2, <1>5, <2>1, <2>2, <2>4 DEF Gone, NothingElse
    <2>5. QED
      BY <2>3, <2>4
  <1>8. /\ removed' \subseteq Bss \X Spa
        /\ \A x \in Bss, z \in Spa : x # b /\ <<x, z>> \in removed' => <<x, z>> \in removed
    BY <1>1, <1>2
  <1>9. QED
    BY <1>1, <1>6, <1>7, <1>8, ChangedKeeps

\* A station knows PMKIDs only.
LEMMA KnownTypes ==
  ASSUME CachesInv, NEW b \in Bss, NEW s
  PROVE  KnownPmkids(b, s) \subseteq Pmkids
  <1>1. ASSUME NEW x \in Bss, NEW a \in Live(pmksa[x]) PROVE pmksa[x].entry[a].pmk \in Pmk
    <2>1. pmksa[x] \in CacheType
      BY DEF CachesInv, Fine, Good
    <2>2. a \in Entry /\ pmksa[x].entry[a] \in PmksaEntry
      BY <2>1, LiveEntry DEF Live
    <2>3. QED
      BY <2>2 DEF PmksaEntry
  <1>2. \A akmp, k : k \in Pmk => Pmkid(akmp, k, b) \in Pmkids
    BY DEF Pmkid, Pmkids
  <1> DEFINE K == UNION {{pmksa[x].entry[a].pmk :
                       a \in {a \in Live(pmksa[x]) :
                               pmksa[x].entry[a].spa \in Addresses(s)}} : x \in Bss}
  <1>3. \A k \in K : k \in Pmk
    BY <1>1
  <1>4. KnownPmkids(b, s) = {Pmkid(akmp, k, b) : akmp \in Akmp, k \in K}
    BY DEF KnownPmkids
  <1> HIDE DEF K
  <1>5. QED
    BY <1>2, <1>3, <1>4

\* A PMKID is found in the cache.
LEMMA UsesCachedKeeps ==
  ASSUME CachesInv, NEW b \in Bss, NEW s \in Spa, NEW p \in KnownPmkids(b, s),
         UsesCached(b, s, p)
  PROVE  CachesInv'
  <1> DEFINE c == pmksa[b]
             g == Cached(b, s, p)
             d == [c EXCEPT !.sm[s] = g]
  <1>1. g # NULL /\ Changed(b, d) /\ removed' = removed
    BY DEF UsesCached
  <1>2. Fine(c) /\ Gone(b, c, removed) /\ removed \subseteq Bss \X Spa
    BY DEF CachesInv
  <1>3. p \in Pmkids
    BY KnownTypes
  <1>4. g \in Live(c) /\ c.entry[g].spa \in Addresses(s)
    <2>1. PICK z \in Addresses(s) : g = pmksa_cache_auth_get(c, z, p)
      BY DEF Cached, Addresses
    <2>2. QED
      BY <1>1, <1>2, <1>3, <2>1, GetIs DEF Fine
  <1> HIDE DEF c
  <1>5. g \in Entry \cup {NULL}
    BY <1>4 DEF Live
  <1> HIDE DEF g
  <1>6. Fine(d) /\ Gone(b, d, removed)
    BY <1>2, <1>4, <1>5, PointFine
  <1> HIDE DEF d
  <1>7. QED
    BY <1>1, <1>2, <1>6, ChangedKeeps

\* pmksa_cache_add_okc().
LEMMA OkcKeeps ==
  ASSUME CachesInv, NEW b \in Bss, NEW s \in Spa, NEW p \in KnownPmkids(b, s),
         NEW from \in Bss, pmksa_cache_add_okc(b, s, p, from)
  PROVE  CachesInv'
  <1> DEFINE c == pmksa[b]
             old == pmksa_cache_get_okc(pmksa[from], b, s, p)
             a == Allocate(c)
             e == [pmksa[from].entry[old] EXCEPT !.pmkid = p]
             l == pmksa_cache_link_entry(c, a, e)
             d == [l EXCEPT !.sm[s] = a]
  <1>1. /\ conf.okc /\ old # NULL /\ Live(c) # Entry /\ Changed(b, d)
        /\ removed' = removed
    BY DEF pmksa_cache_add_okc
  <1>2. /\ Fine(c) /\ Fine(pmksa[from]) /\ now \in 0..MaxNow
        /\ removed \subseteq Bss \X Spa
    BY DEF CachesInv
  <1>3. p \in Pmkids
    BY KnownTypes
  <1>4. a \in Entry /\ a \notin Live(c)
    <2>1. Entry \ Live(c) # {}
      BY <1>1 DEF Live
    <2>2. a \in Entry \ Live(c)
      BY <2>1, Zenon DEF Allocate
    <2>3. QED
      BY <2>2
  <1>5. e \in PmksaEntry /\ e.spa = s
    <2>1. old \in Live(pmksa[from]) /\ pmksa[from].entry[old].spa = s
      BY <1>1, <1>2, GetOkcIs DEF Fine
    <2>2. pmksa[from].entry[old] \in PmksaEntry
      BY <1>2, <2>1, LiveEntry DEF Fine, Good, Live
    <2> HIDE DEF old
    <2>3. QED
      BY <1>3, <2>1, <2>2 DEF PmksaEntry
  <1> HIDE DEF c, a, e
  <1>6. /\ Good(l) /\ Timely(l, now) /\ Live(l) = Live(c) \cup {a} /\ l.entry[a] = e
    BY <1>2, <1>4, <1>5, LinkGood DEF Fine
  <1> HIDE DEF l
  <1>7. Fine(l)
    BY <1>1, <1>6 DEF Fine
  <1>8. a \in Live(l) /\ l.entry[a].spa \in Addresses(s) /\ a \in Entry \cup {NULL}
    BY <1>4, <1>5, <1>6 DEF Addresses
  <1>9. Fine(d)
    BY <1>7, <1>8, PointFine
  <1>10. Gone(b, d, removed)
    BY <1>1 DEF Gone
  <1> HIDE DEF d
  <1>11. QED
    BY <1>1, <1>2, <1>9, <1>10, ChangedKeeps

\* No PMKSA is used.
LEMMA UsesNoneKeeps ==
  ASSUME CachesInv, NEW b \in Bss, NEW s \in Spa, UsesNone(b, s)
  PROVE  CachesInv'
  <1> DEFINE c == pmksa[b]
             d == [c EXCEPT !.sm[s] = NULL]
  <1>1. Changed(b, d) /\ removed' = removed
    BY DEF UsesNone
  <1>2. Fine(c) /\ Gone(b, c, removed) /\ removed \subseteq Bss \X Spa
    BY DEF CachesInv
  <1> HIDE DEF c
  <1>3. Fine(d) /\ Gone(b, d, removed)
    BY <1>2, PointFine
  <1> HIDE DEF d
  <1>4. QED
    BY <1>1, <1>2, <1>3, ChangedKeeps

\* wpa_auth_pmksa_remove().
LEMMA RemoveKeeps ==
  ASSUME CachesInv, NEW b \in Bss, NEW s \in Spa, wpa_auth_pmksa_remove(b, s)
  PROVE  CachesInv'
  <1> DEFINE c == pmksa[b]
             old == GetAny(c, s)
             d == pmksa_cache_free_entry(c, {old} \ {NULL})
  <1>1. Changed(b, d) /\ removed' = removed \cup {<<b, s>>}
    BY DEF wpa_auth_pmksa_remove
  <1>2. Fine(c) /\ Gone(b, c, removed) /\ removed \subseteq Bss \X Spa
    BY DEF CachesInv
  <1> HIDE DEF c
  <1>3. /\ old # NULL => old \in Live(c) /\ c.entry[old].spa = s
        /\ old = NULL => \A a \in Live(c) : c.entry[a].spa # s
    BY <1>2, GetAnyIs DEF Fine
  <1> HIDE DEF old
  <1>4. Fine(d) /\ SameEntries(d, c, Live(c) \ ({old} \ {NULL})) /\ Gone(b, d, removed)
    <2>1. {old} \ {NULL} \subseteq Live(c)
      BY <1>3
    <2>2. QED
      BY <1>2, <2>1, FreeFine
  <1> HIDE DEF d
  <1>5. Gone(b, d, removed')
    <2>1. SUFFICES ASSUME ~conf.okc, NEW z \in Spa, <<b, z>> \in removed', NEW x \in Live(d)
                   PROVE  d.entry[x].spa # z
      BY DEF Gone
    <2>2. CASE <<b, z>> \in removed
      BY <1>4, <2>1, <2>2 DEF Gone
    <2>3. CASE z = s
      <3>1. x \in Live(c) /\ (old # NULL => x # old) /\ d.entry[x] = c.entry[x]
        BY <1>4 DEF SameEntries
      <3>2. One(c)
        BY <1>2, <2>1 DEF Fine
      <3>3. QED
        BY <1>3, <2>3, <3>1, <3>2 DEF One
    <2>4. QED
      BY <1>1, <2>1, <2>2, <2>3
  <1>6. /\ removed' \subseteq Bss \X Spa
        /\ \A x \in Bss, z \in Spa : x # b /\ <<x, z>> \in removed' => <<x, z>> \in removed
    BY <1>1, <1>2
  <1>7. QED
    BY <1>1, <1>4, <1>5, <1>6, ChangedKeeps

\* pmksa_cache_auth_radius_das_disconnect().
LEMMA DisconnectKeeps ==
  ASSUME CachesInv, NEW b \in Bss, NEW A \in SUBSET Live(pmksa[b]),
         pmksa_cache_auth_radius_das_disconnect(b, A)
  PROVE  CachesInv'
  <1> DEFINE c == pmksa[b]
             d == pmksa_cache_free_entry(c, A)
  <1>1. Changed(b, d) /\ removed' = removed
    BY DEF pmksa_cache_auth_radius_das_disconnect
  <1>2. Fine(c) /\ Gone(b, c, removed) /\ removed \subseteq Bss \X Spa /\ A \subseteq Live(c)
    BY DEF CachesInv
  <1> HIDE DEF c
  <1>3. Fine(d) /\ Gone(b, d, removed)
    BY <1>2, FreeFine
  <1> HIDE DEF d
  <1>4. QED
    BY <1>1, <1>2, <1>3, ChangedKeeps

\* pmksa_cache_auth_flush().
LEMMA FlushKeeps ==
  ASSUME CachesInv, NEW b \in Bss, pmksa_cache_auth_flush(b)
  PROVE  CachesInv'
  <1> DEFINE c == pmksa[b]
             d == pmksa_cache_free_entry(c, Range(c.pmksa))
  <1>1. Changed(b, d) /\ removed' = removed \cup {b} \X Spa
    BY DEF pmksa_cache_auth_flush
  <1>2. Fine(c) /\ removed \subseteq Bss \X Spa
    BY DEF CachesInv
  <1> HIDE DEF c
  <1>3. Range(c.pmksa) = Live(c)
    BY <1>2 DEF Fine, Good, Listed
  <1>4. Fine(d) /\ SameEntries(d, c, Live(c) \ Range(c.pmksa))
    <2>1. Range(c.pmksa) \subseteq Live(c)
      BY <1>3
    <2>2. QED
      BY <1>2, <2>1, FreeFine
  <1> HIDE DEF d
  <1>5. Gone(b, d, removed')
    BY <1>3, <1>4 DEF Gone, SameEntries
  <1>6. /\ removed' \subseteq Bss \X Spa
        /\ \A x \in Bss, z \in Spa : x # b /\ <<x, z>> \in removed' => <<x, z>> \in removed
    BY <1>1, <1>2
  <1>7. QED
    BY <1>1, <1>4, <1>5, <1>6, ChangedKeeps

\* pmksa_cache_auth_deinit().
LEMMA DeinitKeeps ==
  ASSUME CachesInv, NEW b \in Bss, pmksa_cache_auth_deinit(b)
  PROVE  CachesInv'
  <1>1. Changed(b, NewCache) /\ removed' = removed \cup {b} \X Spa
    BY DEF pmksa_cache_auth_deinit
  <1>2. now \in 0..MaxNow /\ removed \subseteq Bss \X Spa
    BY DEF CachesInv
  <1>3. Fine(NewCache) /\ Live(NewCache) = {}
    BY <1>2, NewCacheFine
  <1>4. Gone(b, NewCache, removed')
    BY <1>3 DEF Gone
  <1>5. /\ removed' \subseteq Bss \X Spa
        /\ \A x \in Bss, z \in Spa : x # b /\ <<x, z>> \in removed' => <<x, z>> \in removed
    BY <1>1, <1>2
  <1>6. QED
    BY <1>1, <1>3, <1>4, <1>5, ChangedKeeps

\* pmksa_cache_expire().
LEMMA ExpireKeeps ==
  ASSUME CachesInv, NEW b \in Bss, pmksa_cache_expire(b)
  PROVE  CachesInv'
  <1> DEFINE p == pmksa[b]
             c == [p EXCEPT !.timeout = NULL]
             f == pmksa_cache_free_entry(c, Expired(c))
             d == pmksa_cache_set_expiration(f)
  <1>1. /\ pmksa' = [pmksa EXCEPT ![b] = d]
        /\ UNCHANGED <<conf, now, removed, events>>
    BY DEF pmksa_cache_expire
  <1>2. /\ Fine(p) /\ Gone(b, p, removed) /\ now \in 0..MaxNow
        /\ removed \subseteq Bss \X Spa /\ events \in 0..conf.events
    BY DEF CachesInv
  <1> HIDE DEF p
  <1>3. Good(c) /\ SameEntries(c, p, Live(p))
    BY <1>2, TimeoutGood DEF Fine
  <1> HIDE DEF c
  <1>4. Expired(c) \subseteq Live(c)
    <2>1. now \in Nat
      BY <1>2, CacheAssumption
    <2>2. Before(c, now) \in 0..Len(c.pmksa)
      BY <1>3, <2>1, BeforeIs
    <2>3. c.pmksa \in Seq(Entry) /\ Range(c.pmksa) = Live(c)
      BY <1>3 DEF Good, CacheType, Listed
    <2>4. \A i \in 1..Before(c, now) : i \in DOMAIN c.pmksa
      BY <2>2, <2>3
    <2>5. QED
      BY <2>3, <2>4, Zenon DEF Expired, Range
  <1>5. Good(f) /\ SameEntries(f, c, Live(c) \ Expired(c))
    BY <1>3, <1>4, FreeGood
  <1> HIDE DEF f
  <1>6. Good(d) /\ SameEntries(d, f, Live(f)) /\ Timely(d, now)
    BY <1>2, <1>5, SetExpirationGood
  <1> HIDE DEF d
  <1>7. Live(f) \subseteq Live(p) /\ SameEntries(d, p, Live(f))
    BY <1>3, <1>5, <1>6 DEF SameEntries
  <1>8. Fine(d) /\ Gone(b, d, removed)
    BY <1>2, <1>6, <1>7, FewerFine
  <1>9. QED
    BY <1>1, <1>2, <1>8, Replaced

\* Time passes.
LEMMA TickKeeps == CachesInv /\ Tick => CachesInv'
  <1> SUFFICES ASSUME CachesInv, Tick PROVE CachesInv'
    OBVIOUS
  <1>1. /\ now \in 0..MaxNow /\ now < MaxNow /\ now' = now + 1 /\ MaxNow \in Nat
        /\ conf' = conf /\ pmksa' = pmksa /\ removed' = removed /\ events' = events
    BY CacheAssumption DEF Tick, CachesInv
  <1>2. ASSUME NEW b \in Bss PROVE Fine(pmksa[b])' /\ Gone(b, pmksa[b], removed)'
    <2>1. Fine(pmksa[b]) /\ Gone(b, pmksa[b], removed)
      BY DEF CachesInv
    <2>2. PICK c : c = pmksa[b]
      OBVIOUS
    <2>3. pmksa[b]' = c
      BY <1>1, <2>2
    <2>4. Timely(c, now + 1)
      <3>1. SUFFICES ASSUME NEW a \in Live(c)
                     PROVE  /\ c.timeout # NULL
                            /\ c.timeout <= c.entry[a].expiration + 1
                               \/ c.timeout <= (now + 1) + 1
        BY DEF Timely
      <3>2. /\ c.timeout # NULL
            /\ c.timeout <= c.entry[a].expiration + 1 \/ c.timeout <= now + 1
        BY <2>1, <2>2 DEF Fine, Timely
      <3>3. c.timeout \in Nat
        BY <2>1, <2>2, <3>2, <1>1 DEF Fine, Good, CacheType
      <3>4. QED
        BY <1>1, <3>2, <3>3
    <2>5. QED
      BY <1>1, <2>1, <2>2, <2>3, <2>4, GoodStays DEF Fine, Gone
  <1>3. QED
    BY <1>1, <1>2 DEF CachesInv

\* Every step keeps the invariant.
LEMMA NextInv == CachesInv /\ [Next]_vars => CachesInv'
  <1> SUFFICES ASSUME CachesInv, [Next]_vars PROVE CachesInv'
    OBVIOUS
  <1>1. (\A b \in conf.bss : b \in Bss) /\ (\A s \in conf.spa : s \in Spa)
    BY ConfTypes DEF CachesInv
  <1>2. ASSUME NEW b \in conf.bss, NEW s \in conf.spa, NEW akmp \in Akmp, NEW t \in Lifetimes,
               pmksa_cache_auth_add(b, s, akmp, t)
        PROVE  CachesInv'
    BY <1>1, <1>2, AddKeeps
  <1>3. ASSUME NEW b \in conf.bss, NEW s \in conf.spa, NEW p \in KnownPmkids(b, s),
               UsesCached(b, s, p)
        PROVE  CachesInv'
    BY <1>1, <1>3, UsesCachedKeeps
  <1>4. ASSUME NEW b \in conf.bss, NEW s \in conf.spa, NEW p \in KnownPmkids(b, s),
               NEW from \in conf.bss, pmksa_cache_add_okc(b, s, p, from)
        PROVE  CachesInv'
    BY <1>1, <1>4, OkcKeeps
  <1>5. ASSUME NEW b \in conf.bss, NEW s \in conf.spa, UsesNone(b, s)
        PROVE  CachesInv'
    BY <1>1, <1>5, UsesNoneKeeps
  <1>6. ASSUME NEW b \in conf.bss, NEW s \in conf.spa, wpa_auth_pmksa_remove(b, s)
        PROVE  CachesInv'
    BY <1>1, <1>6, RemoveKeeps
  <1>7. ASSUME NEW b \in conf.bss, NEW A \in SUBSET Live(pmksa[b]),
               pmksa_cache_auth_radius_das_disconnect(b, A)
        PROVE  CachesInv'
    BY <1>1, <1>7, DisconnectKeeps
  <1>8. ASSUME NEW b \in conf.bss, pmksa_cache_auth_flush(b) PROVE CachesInv'
    BY <1>1, <1>8, FlushKeeps
  <1>9. ASSUME NEW b \in conf.bss, pmksa_cache_auth_deinit(b) PROVE CachesInv'
    BY <1>1, <1>9, DeinitKeeps
  <1>10. ASSUME NEW b \in conf.bss, pmksa_cache_expire(b) PROVE CachesInv'
    BY <1>1, <1>10, ExpireKeeps
  <1>11. CASE Tick
    BY <1>11, TickKeeps
  <1>12. CASE UNCHANGED vars
    BY <1>12, GoodStays DEF vars, CachesInv, Fine, Gone
  <1>13. QED
    BY <1>2, <1>3, <1>4, <1>5, <1>6, <1>7, <1>8, <1>9, <1>10, <1>11, <1>12, Zenon DEF Next

\* The structures of every cache, its count, its timeout and the pointers of
\* its stations stay in step, whatever calls pmksa_cache_auth.c gets.
THEOREM CachesInvariance == Spec => []CachesInv
  <1>1. Init => CachesInv
    BY InitInv
  <1>2. CachesInv /\ [Next]_vars => CachesInv'
    BY NextInv
  <1>3. QED
    BY <1>1, <1>2, PTL DEF Spec

\* A list without repetitions is as long as the set of its elements is large.
LEMMA LengthCounts ==
  ASSUME NEW seq \in Seq(Entry), Distinct(seq)
  PROVE  Len(seq) = Cardinality(Range(seq))
  <1>1. Len(seq) \in Nat /\ seq \in [1..Len(seq) -> Range(seq)]
    BY DEF Range
  <1>2. \A x \in Range(seq) : \E i \in 1..Len(seq) : seq[i] = x
    BY DEF Range
  <1>3. seq \in Bijection(1..Len(seq), Range(seq))
    BY <1>1, <1>2 DEF Bijection, Injection, IsInjective, Surjection, Distinct
  <1>4. ExistsBijection(1..Len(seq), Range(seq))
    BY <1>3 DEF ExistsBijection
  <1>5. QED
    BY <1>1, <1>4, FS_CountingElements

\* The variables keep their types, and no entry outlives the clock's bound.
THEOREM CacheTypes == Spec => []TypeOK
  <1>1. CachesInv => TypeOK
    <2> SUFFICES ASSUME CachesInv, NEW b \in Bss
                 PROVE  /\ pmksa[b].pmksa_count \in Nat
                        /\ pmksa[b].timeout \in 0..(MaxNow + 1) \cup {NULL}
                        /\ Range(pmksa[b].pmksa) \subseteq Entry
                        /\ \A a \in Live(pmksa[b]) : pmksa[b].entry[a].expiration \in 0..MaxNow
      BY DEF CachesInv, TypeOK
    <2>1. Good(pmksa[b]) /\ pmksa[b] \in CacheType /\ Range(pmksa[b].pmksa) = Live(pmksa[b])
      BY DEF CachesInv, Fine, Good, Listed
    <2>2. \A a \in Live(pmksa[b]) : a \in Entry /\ pmksa[b].entry[a] \in PmksaEntry
      BY <2>1, LiveEntry DEF Live
    <2>3. \A a \in Live(pmksa[b]) : pmksa[b].entry[a].expiration \in 0..MaxNow
      BY <2>2 DEF PmksaEntry
    <2>4. pmksa[b].pmksa_count \in Nat /\ pmksa[b].timeout \in 0..(MaxNow + 1) \cup {NULL}
      BY <2>1 DEF CacheType
    <2>5. QED
      BY <2>1, <2>2, <2>3, <2>4
  <1>2. QED
    BY <1>1, CachesInvariance, PTL

\* The list, the hash chains and the count describe the same entries, in
\* whatever order pmksa_cache_auth.c adds, copies, replaces and frees them.
THEOREM LinkedAlways == Spec => []Linked
  <1>1. CachesInv => Linked
    <2>1. SUFFICES ASSUME CachesInv, NEW b \in Bss, NEW c, c = pmksa[b]
                   PROVE  /\ Range(c.pmksa) = Live(c)
                          /\ Len(c.pmksa) = c.pmksa_count
                          /\ c.pmksa_count = Cardinality(Live(c))
                          /\ \A h \in Hashes : /\ Range(c.chain[h]) = Here(c, h)
                                               /\ Len(c.chain[h]) = Cardinality(Here(c, h))
      BY DEF Linked, Here
    <2>2. Good(c) /\ c \in CacheType
      BY <2>1 DEF CachesInv, Fine, Good
    <2>3. /\ c.pmksa \in Seq(Entry) /\ Distinct(c.pmksa) /\ Range(c.pmksa) = Live(c)
          /\ c.pmksa_count = Cardinality(Live(c))
      BY <2>2 DEF Good, CacheType, Listed, Counted
    <2>4. Len(c.pmksa) = Cardinality(Live(c))
      BY <2>3, LengthCounts
    <2>5. ASSUME NEW h \in Hashes
          PROVE  Range(c.chain[h]) = Here(c, h) /\ Len(c.chain[h]) = Cardinality(Here(c, h))
      <3>1. c.chain[h] \in Seq(Entry) /\ Distinct(c.chain[h]) /\ Range(c.chain[h]) = Here(c, h)
        BY <2>2 DEF Good, CacheType, Chained
      <3>2. QED
        BY <3>1, LengthCounts
    <2>6. QED
      BY <2>3, <2>4, <2>5
  <1>2. QED
    BY <1>1, CachesInvariance, PTL

\* sm->pmksa is never left pointing at memory that pmksa_cache_free_entry()
\* has freed, or at an entry that is neither the station's own nor that of its
\* P2P device.
THEOREM NeverDangling == Spec => []NoDangling
  <1>1. CachesInv => NoDangling
    BY DEF CachesInv, Fine, Good, Pointed, NoDangling
  <1>2. QED
    BY <1>1, CachesInvariance, PTL

\* The timeout of a cache is set for no later than its first entry needs,
\* although freeing entries never sets it.
THEOREM TimeoutsSet == Spec => []TimeoutSet
  <1>1. CachesInv => TimeoutSet
    BY DEF CachesInv, Fine, Timely, TimeoutSet
  <1>2. QED
    BY <1>1, CachesInvariance, PTL

\* Without okc, adding an entry replaces the one its supplicant had.
THEOREM OneEach == Spec => []OnePerSupplicant
  <1>1. CachesInv => OnePerSupplicant
    BY DEF CachesInv, Fine, One, OnePerSupplicant
  <1>2. QED
    BY <1>1, CachesInvariance, PTL

\* Without okc, a cache stays within pmksa_cache_max_entries.
THEOREM WithinLimit == Spec => []Bounded
  <1>1. CachesInv => Bounded
    BY DEF CachesInv, Fine, Bounded
  <1>2. QED
    BY <1>1, CachesInvariance, PTL

\* Without okc, a station whose PMKSA was removed to force a full
\* authentication uses none before it has authenticated again, unless it is a
\* P2P client whose device has one under another address.
THEOREM AuthenticatesFully == Spec => []FullAuthentication
  <1>1. CachesInv => FullAuthentication
    <2>1. SUFFICES ASSUME CachesInv, ~conf.okc, NEW b \in Bss, NEW s \in Spa,
                          <<b, s>> \in removed, pmksa[b].sm[s] # NULL
                   PROVE  /\ pmksa[b].entry[pmksa[b].sm[s]].spa # s
                          /\ pmksa[b].entry[pmksa[b].sm[s]].spa = conf.p2p_dev_addr[s]
      BY DEF FullAuthentication
    <2>2. \A a \in Live(pmksa[b]) : pmksa[b].entry[a].spa # s
      BY <2>1 DEF CachesInv, Gone
    <2>3. /\ pmksa[b].sm[s] \in Live(pmksa[b])
          /\ pmksa[b].entry[pmksa[b].sm[s]].spa \in Addresses(s)
      BY <2>1 DEF CachesInv, Fine, Good, Pointed
    <2>4. QED
      BY <2>2, <2>3 DEF Addresses
  <1>2. QED
    BY <1>1, CachesInvariance, PTL
=============================================================================
