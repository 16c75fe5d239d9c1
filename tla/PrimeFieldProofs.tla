-------------------------- MODULE PrimeFieldProofs --------------------------
(***************************************************************************)
(* Lemmas about numbers and about arithmetic modulo a prime, for           *)
(* WeaverProofs and PointEncodingProofs.                                   *)
(***************************************************************************)
EXTENDS PrimeField, WellFoundedInduction, NaturalsInduction, TLAPS

(***************************************************************************)
(* Numbers.  Induction is the least-number principle: a set of numbers     *)
(* that a claim fails for would have a least one.                          *)
(***************************************************************************)
\* A set of numbers that is not empty has a least one.
LEMMA Least ==
  ASSUME NEW S \in SUBSET Nat, NEW n0 \in S
  PROVE  \E n \in S : \A k \in S : n <= k
  <1>1. PICK n \in S : \A k \in S : ~(<<k, n>> \in OpToRel(<, Nat))
    BY WFMin, NatLessThanWellFounded
  <1>2. \A k \in S : k < n => <<k, n>> \in OpToRel(<, Nat)
    BY DEF OpToRel
  <1>3. \A k \in S : ~(k < n)
    BY <1>1, <1>2, Zenon
  <1>4. QED
    BY <1>3

\* Induction over the numbers, for a set in place of a claim.
LEMMA Induction ==
  ASSUME NEW S, 0 \in S, \A n \in Nat : n \in S => n + 1 \in S
  PROVE  \A n \in Nat : n \in S
  <1>1. SUFFICES ASSUME NEW k \in Nat, k \notin S PROVE FALSE
    OBVIOUS
  <1> DEFINE Bad == {n \in Nat : n \notin S}
  <1>2. PICK n \in Bad : \A j \in Bad : n <= j
    BY <1>1, Least
  <1>3. n \in Nat /\ n \notin S /\ n # 0
    BY <1>2
  <1>4. n - 1 \in Nat /\ n - 1 \notin Bad
    BY <1>2, <1>3
  <1>5. QED
    BY <1>3, <1>4

-----------------------------------------------------------------------------
(***************************************************************************)
(* Arithmetic modulo the prime.                                            *)
(***************************************************************************)
\* Two numbers stand for the same element of the field.
Same(u, v) == BN_mod(u) = BN_mod(v)

\* BN_mod() is the remainder.
LEMMA ModIs ==
  ASSUME NEW u \in Int
  PROVE  /\ BN_mod(u) \in Field /\ BN_mod(u) \in Int /\ u \div Prime \in Int
         /\ u = (u \div Prime) * Prime + BN_mod(u)
  BY PrimeAssumption DEF BN_mod, Field

\* A remainder is known by its range.
LEMMA OneRemainder ==
  ASSUME NEW q \in Int, NEW k \in Int, NEW r \in Field, NEW s \in Field,
         q * Prime + r = k * Prime + s
  PROVE  r = s
  <1>1. Prime \in Nat /\ Prime > 1 /\ r \in Int /\ s \in Int
        /\ 0 <= r /\ r < Prime /\ 0 <= s /\ s < Prime
    BY PrimeAssumption DEF Field
  <1>2. (q - k) * Prime = s - r
    BY <1>1
  <1>3. CASE q - k >= 1
    <2>1. (q - k) * Prime >= Prime
      BY <1>1, <1>3
    <2>2. QED
      BY <1>1, <1>2, <2>1
  <1>4. CASE q - k <= -1
    <2>1. (q - k) * Prime <= -Prime
      BY <1>1, <1>4
    <2>2. QED
      BY <1>1, <1>2, <2>1
  <1>5. CASE q = k
    BY <1>1, <1>5
  <1>6. QED
    BY <1>3, <1>4, <1>5

\* The same element: the difference is a multiple of the prime.
LEMMA SameIff ==
  ASSUME NEW u \in Int, NEW v \in Int
  PROVE  Same(u, v) <=> \E q \in Int : u = v + q * Prime
  <1>0. Prime \in Int
    BY PrimeAssumption
  <1>1. /\ u \div Prime \in Int /\ u = (u \div Prime) * Prime + BN_mod(u)
        /\ v \div Prime \in Int /\ v = (v \div Prime) * Prime + BN_mod(v)
        /\ BN_mod(u) \in Field /\ BN_mod(v) \in Field
        /\ BN_mod(u) \in Int /\ BN_mod(v) \in Int
    BY ModIs
  <1>2. ASSUME Same(u, v) PROVE \E q \in Int : u = v + q * Prime
    <2> DEFINE q == (u \div Prime) - (v \div Prime)
    <2>1. q \in Int /\ BN_mod(u) = BN_mod(v)
      BY <1>1, <1>2 DEF Same
    <2>2. u = v + q * Prime
      <3> DEFINE d == u \div Prime
                 e == v \div Prime
      <3>1. d \in Int /\ e \in Int /\ u = d * Prime + BN_mod(u) /\ v = e * Prime + BN_mod(u)
        BY <1>1, <2>1
      <3> HIDE DEF d, e
      <3>2. u = v + (d - e) * Prime
        BY <1>0, <1>1, <3>1
      <3>3. QED
        BY <3>2 DEF d, e
    <2>3. QED
      BY <2>1, <2>2
  <1>3. ASSUME NEW q \in Int, u = v + q * Prime PROVE Same(u, v)
    <2> DEFINE d == u \div Prime
               e == v \div Prime
               r == BN_mod(u)
               s == BN_mod(v)
    <2>1. d \in Int /\ e \in Int /\ u = d * Prime + r /\ v = e * Prime + s
          /\ r \in Field /\ s \in Field /\ r \in Int /\ s \in Int
      BY <1>1
    <2> HIDE DEF d, e, r, s
    <2>2. d * Prime + r = (e + q) * Prime + s /\ e + q \in Int
      BY <1>0, <1>3, <2>1
    <2>3. r = s
      BY <2>1, <2>2, OneRemainder
    <2>4. QED
      BY <2>3 DEF Same, r, s
  <1>4. QED
    BY <1>2, <1>3

\* Taking the remainder gives the same element.
LEMMA ModSame ==
  ASSUME NEW u \in Int
  PROVE  Same(BN_mod(u), u) /\ BN_mod(u) \in Int
  <1>0. Prime \in Int
    BY PrimeAssumption
  <1>1. /\ u \div Prime \in Int /\ u = (u \div Prime) * Prime + BN_mod(u)
        /\ BN_mod(u) \in Int
    BY ModIs
  <1>2. BN_mod(u) = u + (-(u \div Prime)) * Prime /\ -(u \div Prime) \in Int
    <2> DEFINE d == u \div Prime
               r == BN_mod(u)
    <2>1. d \in Int /\ u = d * Prime + r /\ r \in Int
      BY <1>1
    <2> HIDE DEF d, r
    <2>2. r = u + (-d) * Prime /\ -d \in Int
      BY <1>0, <2>1
    <2>3. QED
      BY <2>2 DEF d, r
  <1>3. QED
    BY <1>1, <1>2, SameIff

\* The elements of the field are their own remainders.
LEMMA FieldMod ==
  ASSUME NEW r \in Field
  PROVE  BN_mod(r) = r /\ r \in Int
  <1>1. r \in Int /\ Prime \in Int /\ r = 0 * Prime + r /\ 0 \in Int
    BY PrimeAssumption DEF Field
  <1>2. /\ r \div Prime \in Int /\ r = (r \div Prime) * Prime + BN_mod(r)
        /\ BN_mod(r) \in Field
    BY <1>1, ModIs
  <1>3. QED
    BY <1>1, <1>2, OneRemainder

\* Sums and products of the same elements are the same.
LEMMA SameStep ==
  ASSUME NEW f \in Int, NEW F \in Int, NEW u \in Int, NEW U \in Int,
         NEW w \in Int, NEW W \in Int,
         Same(f, F), Same(u, U), Same(w, W)
  PROVE  Same(u + w * f, U + W * F)
  <1>0. Prime \in Int
    BY PrimeAssumption
  <1>1. PICK q1 \in Int : f = F + q1 * Prime
    BY SameIff
  <1>2. PICK q2 \in Int : u = U + q2 * Prime
    BY SameIff
  <1>3. PICK q3 \in Int : w = W + q3 * Prime
    BY SameIff
  <1> DEFINE q == q2 + W * q1 + q3 * F + q3 * q1 * Prime
  <1>4. q \in Int /\ u + w * f = (U + W * F) + q * Prime
    BY <1>0, <1>1, <1>2, <1>3
  <1>5. u + w * f \in Int /\ U + W * F \in Int
    OBVIOUS
  <1> HIDE DEF q
  <1>6. QED
    BY <1>4, <1>5, SameIff

\* Products alone.
LEMMA SameTimes ==
  ASSUME NEW f \in Int, NEW F \in Int, NEW w \in Int, NEW W \in Int,
         Same(f, F), Same(w, W)
  PROVE  Same(w * f, W * F)
  <1>1. 0 \in Int /\ Same(0, 0)
    BY DEF Same
  <1>2. Same(0 + w * f, 0 + W * F)
    BY <1>1, SameStep
  <1>3. 0 + w * f = w * f /\ 0 + W * F = W * F
    OBVIOUS
  <1>4. QED
    BY <1>2, <1>3

\* BN_mod_inverse() finds an inverse of every number that the prime does not
\* divide: the least number that n and the prime combine to is 1.
LEMMA InverseExists ==
  ASSUME NEW n \in Int, BN_mod(n) # 0
  PROVE  \E r \in Field : BN_mod(n * r) = 1
  <1>0. Prime \in Nat /\ Prime > 1 /\ Prime \in Int
    BY PrimeAssumption
  <1> DEFINE Is(d, s, t) == d = n * s + Prime * t
             S == {d \in Nat : d >= 1 /\ \E s, t \in Int : Is(d, s, t)}
  <1>1. Prime \in S
    <2>1. Is(Prime, 0, 1)
      BY <1>0
    <2> HIDE DEF Is
    <2>2. QED
      BY <1>0, <2>1
  <1>2. PICK d \in S : \A k \in S : d <= k
    BY <1>1, Least
  <1>3. PICK s \in Int, t \in Int : Is(d, s, t)
    <2> HIDE DEF Is
    <2>1. QED
      BY <1>2
  <1>4. d \in Nat /\ d >= 1 /\ d \in Int /\ d <= Prime
    <2> HIDE DEF Is
    <2>1. d \in Nat /\ d >= 1
      BY <1>2
    <2> HIDE DEF S
    <2>2. QED
      BY <1>1, <1>2, <2>1
  <1>5. ASSUME NEW z \in Int, NEW e \in Int, NEW g \in Int, z = n * e + Prime * g
        PROVE  z % d = 0
    <2> DEFINE q == z \div d
               r == z % d
    <2>1. q \in Int /\ r \in Int /\ r >= 0 /\ r < d /\ z = d * q + r
      BY <1>4
    <2> HIDE DEF q, r
    <2>2. e - s * q \in Int /\ g - t * q \in Int
          /\ r = n * (e - s * q) + Prime * (g - t * q)
      BY <1>0, <1>3, <1>5, <2>1
    <2>3. r >= 1 => r \in S
      <3>1. Is(r, e - s * q, g - t * q)
        BY <2>2
      <3> HIDE DEF Is
      <3>2. QED
        BY <2>1, <2>2, <3>1
    <2> HIDE DEF S
    <2>4. r = 0
      BY <1>2, <1>4, <2>1, <2>3
    <2>5. QED
      BY <2>4 DEF r
  <1>6. Prime % d = 0
    <2>1. Prime = n * 0 + Prime * 1 /\ 0 \in Int /\ 1 \in Int
      BY <1>0
    <2>2. QED
      BY <1>0, <1>5, <2>1
  <1>7. n % d = 0
    <2>1. n = n * 1 + Prime * 0 /\ 0 \in Int /\ 1 \in Int
      BY <1>0
    <2>2. QED
      BY <1>5, <2>1
  <1>8. d # Prime
    BY <1>7 DEF BN_mod
  <1>9. d = 1
    <2>1. d \in 2..(Prime - 1) => FALSE
      BY <1>6, PrimeAssumption
    <2>2. QED
      BY <1>0, <1>4, <1>8, <2>1
  <1> DEFINE r == BN_mod(s)
  <1>10. r \in Field /\ r \in Int /\ Same(r, s)
    BY ModIs, ModSame
  <1>11. Same(n * r, n * s)
    <2>1. Same(n, n)
      BY DEF Same
    <2> HIDE DEF r
    <2>2. QED
      BY <1>10, <2>1, SameTimes
  <1>12. Same(n * s, 1)
    <2>1. n * s = 1 + (-t) * Prime /\ -t \in Int /\ n * s \in Int
      BY <1>0, <1>3, <1>9
    <2>2. QED
      BY <2>1, SameIff
  <1>13. BN_mod(1) = 1
    <2>1. 1 \in Field
      BY <1>0 DEF Field
    <2>2. QED
      BY <2>1, FieldMod
  <1>14. QED
    BY <1>10, <1>11, <1>12, <1>13 DEF Same

\* A product of elements other than 0 is not 0.
LEMMA NoZeroDivisors ==
  ASSUME NEW u \in Int, NEW v \in Int, ~Same(u, 0), ~Same(v, 0)
  PROVE  ~Same(u * v, 0)
  <1>0. 0 \in Field /\ BN_mod(0) = 0
    <2>1. 0 \in Field
      BY PrimeAssumption DEF Field
    <2>2. QED
      BY <2>1, FieldMod
  <1>1. BN_mod(u) # 0
    BY <1>0 DEF Same
  <1>2. PICK r \in Field : BN_mod(u * r) = 1
    BY <1>1, InverseExists
  <1>3. r \in Int
    BY <1>2, FieldMod
  <1>4. BN_mod(1) = 1
    <2>1. 1 \in Field
      BY PrimeAssumption DEF Field
    <2>2. QED
      BY <2>1, FieldMod
  <1>5. Same(u * r, 1) /\ u * r \in Int
    BY <1>2, <1>3, <1>4 DEF Same
  <1>6. Same(v * (u * r), v * 1)
    <2>1. Same(v, v)
      BY DEF Same
    <2>2. QED
      BY <1>5, <2>1, SameTimes
  <1>7. ASSUME Same(u * v, 0) PROVE FALSE
    <2>1. u * v \in Int /\ Same(r, r)
      BY DEF Same
    <2>2. Same(r * (u * v), r * 0)
      BY <1>3, <1>7, <2>1, SameTimes
    <2>3. r * (u * v) = v * (u * r) /\ r * 0 = 0 /\ v * 1 = v
      BY <1>3
    <2>4. Same(v, 0)
      BY <1>6, <2>2, <2>3 DEF Same
    <2>5. QED
      BY <2>4
  <1>8. QED
    BY <1>7

\* 0 and 1 are their own remainders, and differ.
LEMMA ZeroOne ==
  BN_mod(0) = 0 /\ BN_mod(1) = 1 /\ 0 \in Field /\ 1 \in Field /\ ~Same(1, 0)
  <1>1. 0 \in Field /\ 1 \in Field
    BY PrimeAssumption DEF Field
  <1>2. BN_mod(0) = 0 /\ BN_mod(1) = 1
    BY <1>1, FieldMod
  <1>3. QED
    BY <1>1, <1>2 DEF Same

\* Elements of the field that stand for the same element are equal.
LEMMA FieldSame ==
  ASSUME NEW r \in Field, NEW s \in Field, Same(r, s)
  PROVE  r = s
  BY FieldMod DEF Same

\* The difference of u and v is a multiple of one that is 0 in the field, or a
\* sum of such multiples.
Multiple(u, v, k, l, r) ==
  /\ u \in Int /\ v \in Int /\ k \in Int /\ l \in Int /\ r \in Int
  /\ Same(l, r) /\ u - v = k * (l - r)
Multiples2(u, v, k1, l1, r1, k2, l2, r2) ==
  /\ u \in Int /\ v \in Int
  /\ k1 \in Int /\ l1 \in Int /\ r1 \in Int /\ k2 \in Int /\ l2 \in Int /\ r2 \in Int
  /\ Same(l1, r1) /\ Same(l2, r2)
  /\ u - v = k1 * (l1 - r1) + k2 * (l2 - r2)
Multiples3(u, v, k1, l1, r1, k2, l2, r2, k3, l3, r3) ==
  /\ u \in Int /\ v \in Int
  /\ k1 \in Int /\ l1 \in Int /\ r1 \in Int /\ k2 \in Int /\ l2 \in Int /\ r2 \in Int
  /\ k3 \in Int /\ l3 \in Int /\ r3 \in Int
  /\ Same(l1, r1) /\ Same(l2, r2) /\ Same(l3, r3)
  /\ u - v = k1 * (l1 - r1) + k2 * (l2 - r2) + k3 * (l3 - r3)

\* Then u and v stand for the same element.
LEMMA ByOne ==
  ASSUME NEW u, NEW v, NEW k, NEW l, NEW r, Multiple(u, v, k, l, r)
  PROVE  Same(u, v)
  <1>0. /\ u \in Int /\ v \in Int /\ k \in Int /\ l \in Int /\ r \in Int
        /\ Same(l, r) /\ u - v = k * (l - r)
    BY DEF Multiple
  <1>1. PICK q \in Int : l = r + q * Prime
    BY <1>0, SameIff
  <1>2. Prime \in Int /\ k * q \in Int
    BY <1>0, PrimeAssumption
  <1>3. l - r = q * Prime
    BY <1>0, <1>1, <1>2
  <1>4. k * (q * Prime) = (k * q) * Prime
    BY <1>0, <1>2
  <1>5. u = v + (k * q) * Prime
    BY <1>0, <1>2, <1>3, <1>4
  <1>6. QED
    BY <1>0, <1>2, <1>5, SameIff

\* The same for two multiples.
LEMMA ByTwo ==
  ASSUME NEW u, NEW v, NEW k1, NEW l1, NEW r1, NEW k2, NEW l2, NEW r2,
         Multiples2(u, v, k1, l1, r1, k2, l2, r2)
  PROVE  Same(u, v)
  <1> USE DEF Multiples2
  <1> DEFINE d == k2 * (l2 - r2)
             e == k1 * (l1 - r1)
  <1>1. d \in Int /\ e \in Int /\ u - v = e + d /\ v + d \in Int
    OBVIOUS
  <1>2. Same(u, v + d)
    <2>1. u - (v + d) = k1 * (l1 - r1)
      BY <1>1
    <2> HIDE DEF d
    <2>2. Multiple(u, v + d, k1, l1, r1)
      BY <1>1, <2>1 DEF Multiple
    <2>3. QED
      BY <2>2, ByOne
  <1>3. Same(v + d, v)
    <2>1. (v + d) - v = k2 * (l2 - r2)
      BY <1>1
    <2> HIDE DEF d
    <2>2. Multiple(v + d, v, k2, l2, r2)
      BY <1>1, <2>1 DEF Multiple
    <2>3. QED
      BY <2>2, ByOne
  <1>4. QED
    BY <1>2, <1>3 DEF Same

\* And for three.
LEMMA ByThree ==
  ASSUME NEW u, NEW v, NEW k1, NEW l1, NEW r1, NEW k2, NEW l2, NEW r2,
         NEW k3, NEW l3, NEW r3,
         Multiples3(u, v, k1, l1, r1, k2, l2, r2, k3, l3, r3)
  PROVE  Same(u, v)
  <1> USE DEF Multiples3
  <1> DEFINE d == k3 * (l3 - r3)
             e == k1 * (l1 - r1) + k2 * (l2 - r2)
  <1>1. d \in Int /\ e \in Int /\ u - v = e + d /\ v + d \in Int
    OBVIOUS
  <1>2. Same(u, v + d)
    <2>1. u - (v + d) = k1 * (l1 - r1) + k2 * (l2 - r2)
      BY <1>1
    <2> HIDE DEF d
    <2>2. Multiples2(u, v + d, k1, l1, r1, k2, l2, r2)
      BY <1>1, <2>1 DEF Multiples2
    <2>3. QED
      BY <2>2, ByTwo
  <1>3. Same(v + d, v)
    <2>1. (v + d) - v = k3 * (l3 - r3)
      BY <1>1
    <2> HIDE DEF d
    <2>2. Multiple(v + d, v, k3, l3, r3)
      BY <1>1, <2>1 DEF Multiple
    <2>3. QED
      BY <2>2, ByOne
  <1>4. QED
    BY <1>2, <1>3 DEF Same

\* A factor that is not 0 can be cancelled.
LEMMA Cancel ==
  ASSUME NEW k \in Int, NEW u \in Int, NEW v \in Int, ~Same(k, 0), Same(k * u, k * v)
  PROVE  Same(u, v)
  <1>1. u - v \in Int /\ k * u \in Int /\ k * v \in Int /\ k * (u - v) \in Int
    OBVIOUS
  <1>2. Same(k * (u - v), 0)
    <2>1. k * (u - v) - 0 = 1 * (k * u - k * v)
      OBVIOUS
    <2>2. Multiple(k * (u - v), 0, 1, k * u, k * v)
      BY <1>1, <2>1 DEF Multiple
    <2>3. QED
      BY <2>2, ByOne
  <1>3. Same(u - v, 0)
    BY <1>1, <1>2, NoZeroDivisors
  <1>4. Multiple(u, v, 1, u - v, 0)
    BY <1>1, <1>3 DEF Multiple
  <1>5. QED
    BY <1>4, ByOne

\* BN_mod_inverse() gives the inverse.
LEMMA InverseOf ==
  ASSUME NEW n \in Int, ~Same(n, 0)
  PROVE  /\ BN_mod_inverse(n) \in Field /\ BN_mod_inverse(n) \in Int
         /\ Same(n * BN_mod_inverse(n), 1)
  <1>1. \E r \in Field : BN_mod(n * r) = 1
    BY InverseExists, ZeroOne DEF Same
  <1>2. BN_mod_inverse(n) \in Field /\ BN_mod(n * BN_mod_inverse(n)) = 1
    BY <1>1, Zenon DEF BN_mod_inverse
  <1>3. QED
    BY <1>2, FieldMod, ZeroOne DEF Same
=============================================================================
