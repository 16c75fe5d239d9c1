------------------------ MODULE PointEncodingProofs ------------------------
(***************************************************************************)
(* Proofs about PointEncoding, for any prime that is 3 mod 4 and any curve *)
(* that the assumptions allow.                                             *)
(***************************************************************************)
EXTENDS PointEncoding, PrimeFieldProofs, FiniteSetTheorems

(***************************************************************************)
(* Squares.  Of an element and its negation one is a square, as the prime  *)
(* is 3 mod 4.                                                             *)
(***************************************************************************)
\* No number that is 3 mod 4 divides a square and 1: it would have a smaller
\* cofactor that does.
LEMMA MinusOne ==
  ASSUME NEW n0 \in Nat, n0 % 4 = 3, NEW b0 \in Int, NEW q0 \in Int
  PROVE  b0 * b0 + 1 # n0 * q0
  <1>0. SUFFICES ASSUME b0 * b0 + 1 = n0 * q0 PROVE FALSE
    OBVIOUS
  <1> DEFINE Is(n, b, q) == b * b + 1 = n * q
             S == {n \in Nat : n % 4 = 3 /\ \E b, q \in Int : Is(n, b, q)}
  <1>1. n0 \in S
    <2>1. Is(n0, b0, q0)
      BY <1>0
    <2> HIDE DEF Is
    <2>2. QED
      BY <2>1
  <1>2. PICK n \in S : \A k \in S : n <= k
    BY <1>1, Least
  <1>3. PICK b \in Int, q \in Int : Is(n, b, q)
    <2> HIDE DEF Is
    <2>1. QED
      BY <1>2
  <1>4. n \in Nat /\ n % 4 = 3
    <2> HIDE DEF Is
    <2>1. QED
      BY <1>2
  <1> HIDE DEF S
  <1>5. PICK e \in Nat, k \in Int : Is(n, e, k) /\ e % 2 = 0 /\ e < n
    <2> DEFINE r == b % n
               d == b \div n
    <2>1. r \in Nat /\ d \in Int /\ r < n /\ b = n * d + r
      BY <1>4
    <2> HIDE DEF r, d
    <2> DEFINE k1 == q - n * (d * d) - 2 * (d * r)
               k2 == n - 2 * r + k1
    <2>2. k1 \in Int /\ k2 \in Int
      BY <1>4, <2>1
    <2>3. Is(n, r, k1)
      <3>1. (n * d + r) * (n * d + r) + 1 = n * q
        BY <1>3, <2>1
      <3>2. (n * d + r) * (n * d + r) = n * (n * (d * d)) + n * (2 * (d * r)) + r * r
        BY <1>4, <2>1
      <3>3. n * k1 = n * q - n * (n * (d * d)) - n * (2 * (d * r))
        BY <1>4, <2>1
      <3>4. /\ n * q \in Int /\ n * (n * (d * d)) \in Int
            /\ n * (2 * (d * r)) \in Int /\ r * r \in Int
        BY <1>4, <2>1
      <3> HIDE DEF k1
      <3>5. QED
        BY <2>2, <3>1, <3>2, <3>3, <3>4
    <2>4. CASE r % 2 = 0
      <3> HIDE DEF Is, k1
      <3>1. QED
        BY <2>1, <2>2, <2>3, <2>4
    <2>5. CASE r % 2 # 0
      <3>1. n - r \in Nat /\ (n - r) % 2 = 0 /\ n - r < n
        BY <1>4, <2>1, <2>5
      <3>2. Is(n, n - r, k2)
        <4>1. (n - r) * (n - r) = n * n - n * (2 * r) + r * r
          BY <1>4, <2>1
        <4>2. n * k2 = n * n - n * (2 * r) + n * k1
          <5> HIDE DEF k1
          <5>1. QED
            BY <1>4, <2>1, <2>2
        <4> HIDE DEF k1, k2
        <4>3. QED
          BY <1>4, <2>1, <2>2, <2>3, <4>1, <4>2
      <3> HIDE DEF Is, k2
      <3>3. QED
        BY <2>2, <3>1, <3>2
    <2>6. QED
      BY <2>4, <2>5
  <1>6. n >= 3 /\ e * e \in Nat /\ n * k = e * e + 1
    BY <1>4, <1>5
  <1>7. k >= 1
    <2>1. ASSUME k <= 0 PROVE FALSE
      <3>1. -k \in Nat /\ k = -(-k)
        BY <2>1
      <3>2. n * (-k) >= 0
        BY <1>4, <3>1
      <3>3. n * k = -(n * (-k))
        BY <1>4
      <3>4. QED
        BY <1>4, <1>6, <3>1, <3>2, <3>3
    <2>2. QED
      BY <2>1
  <1>8. k < n
    <2>1. ASSUME k >= n PROVE FALSE
      <3>1. n * k >= n * n
        BY <1>4, <2>1
      <3>2. e * e <= (n - 1) * (n - 1)
        BY <1>4, <1>5
      <3>3. (n - 1) * (n - 1) = n * n - 2 * n + 1
        BY <1>4
      <3>4. QED
        BY <1>4, <1>6, <3>1, <3>2, <3>3
    <2>2. QED
      BY <1>4, <2>1
  <1>9. k % 4 = 3
    <2> DEFINE h == e \div 2
               j == n \div 4
               w == h * h - j * k
    <2>1. h \in Int /\ j \in Int /\ e = 2 * h /\ n = 4 * j + 3
      BY <1>4, <1>5
    <2> HIDE DEF h, j
    <2>2. e * e = 4 * (h * h) /\ n * k = 4 * (j * k) + 3 * k
      BY <2>1
    <2>3. w \in Int /\ h * h \in Int /\ j * k \in Int
      BY <2>1
    <2>4. 3 * k = 4 * w + 1
      BY <1>6, <2>2, <2>3
    <2> HIDE DEF w
    <2>5. QED
      BY <2>3, <2>4
  <1>10. Is(k, e, n)
    BY <1>4, <1>6
  <1>11. k \in S
    <2> HIDE DEF Is
    <2>1. k \in Nat /\ e \in Int /\ n \in Int
      BY <1>4, <1>7
    <2>2. QED
      BY <1>9, <1>10, <2>1 DEF S
  <1>12. QED
    BY <1>2, <1>4, <1>8, <1>11

\* Neg() is the negation.
LEMMA NegIs ==
  ASSUME NEW n \in Field
  PROVE  /\ Neg(n) \in Field /\ Neg(n) \in Int /\ Same(Neg(n), -n)
         /\ Neg(Neg(n)) = n /\ (Neg(n) = 0 <=> n = 0)
  <1>1. n \in Int /\ Prime \in Int /\ -n \in Int /\ 0 <= n /\ n < Prime
    BY PrimeAssumption DEF Field
  <1>2. CASE n = 0
    <2>1. -n = 0
      <3>1. n <= 0
        BY <1>2
      <3>2. QED
        BY <1>1, <3>1
    <2>2. Neg(n) = 0 /\ Neg(0) = 0
      BY <1>2 DEF Neg
    <2>3. QED
      BY <1>1, <1>2, <2>1, <2>2 DEF Same
  <1>3. CASE n # 0
    <2>1. Neg(n) = Prime - n /\ Prime - n # 0 /\ Prime - n \in Field /\ Prime - n \in Int
      BY <1>1, <1>3 DEF Neg, Field
    <2>2. Neg(Neg(n)) = n
      BY <1>1, <2>1 DEF Neg
    <2>3. \E q \in Int : Prime - n = -n + q * Prime
      <3>1. Prime - n = -n + 1 * Prime /\ 1 \in Int
        BY <1>1
      <3>2. QED
        BY <3>1, Zenon
    <2>4. Same(Prime - n, -n)
      BY <1>1, <2>1, <2>3, SameIff
    <2>5. QED
      BY <1>3, <2>1, <2>2, <2>4
  <1>4. QED
    BY <1>2, <1>3

\* n stands for a square.
Sq(n) == BN_mod(n) \in Squares

\* It is that of some number.
LEMMA SqIff ==
  ASSUME NEW n \in Int
  PROVE  Sq(n) <=> \E r \in Int : Same(r * r, n)
  <1>1. ASSUME Sq(n) PROVE \E r \in Int : Same(r * r, n)
    <2>1. PICK r \in Field : BN_mod(n) = BN_mod(r * r)
      BY <1>1 DEF Sq, Squares
    <2>2. r \in Int
      BY FieldMod
    <2>3. QED
      BY <2>1, <2>2 DEF Same
  <1>2. ASSUME NEW r \in Int, Same(r * r, n) PROVE Sq(n)
    <2> DEFINE s == BN_mod(r)
    <2>1. s \in Field /\ s \in Int /\ Same(s, r)
      BY ModIs, ModSame
    <2> HIDE DEF s
    <2>2. Same(s * s, r * r)
      BY <2>1, SameTimes
    <2>3. BN_mod(n) = BN_mod(s * s)
      BY <1>2, <2>2 DEF Same
    <2>4. QED
      BY <2>1, <2>3 DEF Sq, Squares
  <1>3. QED
    BY <1>1, <1>2

\* Numbers for the same element are squares together.
LEMMA SqSame ==
  ASSUME NEW u, NEW v, Same(u, v)
  PROVE  Sq(u) <=> Sq(v)
  BY DEF Sq, Same

\* Not both of n and -n are.
LEMMA NotBoth ==
  ASSUME NEW n \in Int, ~Same(n, 0), Sq(n), Sq(-n)
  PROVE  FALSE
  <1>1. PICK r \in Int : Same(r * r, n)
    BY SqIff
  <1>2. PICK t \in Int : Same(t * t, -n)
    <2>1. -n \in Int
      OBVIOUS
    <2>2. QED
      BY <2>1, SqIff
  <1>3. ~Same(r, 0)
    <2>1. ASSUME Same(r, 0) PROVE FALSE
      <3>1. Same(r * r, 0 * 0) /\ 0 * 0 = 0
        BY <2>1, SameTimes
      <3>2. QED
        BY <1>1, <3>1 DEF Same
    <2>2. QED
      BY <2>1
  <1> DEFINE i == BN_mod_inverse(r)
  <1>4. i \in Int /\ Same(r * i, 1)
    BY <1>3, InverseOf
  <1> HIDE DEF i
  <1>5. Multiples3((t * i) * (t * i), -1,
                   i * i, t * t, -n, i * i, r * r, n, -(r * i + 1), r * i, 1)
    <2>1. (t * i) * (t * i) - (-1)
            = (i * i) * (t * t - (-n)) + (i * i) * (r * r - n) + (-(r * i + 1)) * (r * i - 1)
      BY <1>4
    <2>2. QED
      BY <1>1, <1>2, <1>4, <2>1 DEF Multiples3
  <1>6. Same((t * i) * (t * i), -1)
    BY <1>5, ByThree
  <1> DEFINE b == t * i
  <1>7. b \in Int /\ b * b \in Int /\ Prime \in Nat /\ Prime \in Int
    BY <1>4, PrimeAssumption
  <1> HIDE DEF b
  <1>8. PICK q \in Int : b * b = -1 + q * Prime
    <2>1. Same(b * b, -1)
      BY <1>6 DEF b
    <2>2. QED
      BY <1>7, <2>1, SameIff
  <1>9. b * b + 1 = Prime * q
    BY <1>7, <1>8
  <1>10. QED
    BY <1>7, <1>9, MinusOne, RootAssumption

\* A number has no other roots than r and -r.
LEMMA TwoRoots ==
  ASSUME NEW r \in Int, NEW s \in Int, Same(r * r, s * s)
  PROVE  Same(r, s) \/ Same(r, -s)
  <1>1. r - s \in Int /\ r + s \in Int /\ -s \in Int /\ (r - s) * (r + s) \in Int
    OBVIOUS
  <1>2. Multiple((r - s) * (r + s), 0, 1, r * r, s * s)
    <2>1. (r - s) * (r + s) - 0 = 1 * (r * r - s * s)
      OBVIOUS
    <2>2. QED
      BY <2>1 DEF Multiple
  <1>3. Same(r - s, 0) \/ Same(r + s, 0)
    BY <1>1, <1>2, ByOne, NoZeroDivisors
  <1>4. CASE Same(r - s, 0)
    <2>1. Multiple(r, s, 1, r - s, 0)
      BY <1>4 DEF Multiple
    <2>2. QED
      BY <2>1, ByOne
  <1>5. CASE Same(r + s, 0)
    <2>1. Multiple(r, -s, 1, r + s, 0)
      BY <1>5 DEF Multiple
    <2>2. QED
      BY <2>1, ByOne
  <1>6. QED
    BY <1>3, <1>4, <1>5

\* One of n and -n is a square: squares and negated squares are, with each
\* root taken once, as many as the elements other than 0.
LEMMA OneOf ==
  ASSUME NEW n \in Int
  PROVE  Sq(n) \/ Sq(-n)
  <1> DEFINE D == 1..(Prime - 1)
             h == [r \in D |-> IF 2 * r < Prime THEN BN_mod(r * r) ELSE BN_mod(-(r * r))]
  <1>0. Prime \in Nat /\ Prime > 1 /\ Prime % 4 = 3
    BY PrimeAssumption, RootAssumption
  <1>1. ASSUME NEW r \in D
        PROVE  r \in Field /\ r \in Int /\ ~Same(r, 0) /\ ~Same(r * r, 0) /\ r * r \in Int
    <2>1. r \in Field /\ r \in Int /\ r # 0 /\ r * r \in Int
      BY <1>0 DEF Field
    <2>2. ~Same(r, 0)
      BY <2>1, FieldSame, ZeroOne
    <2>3. QED
      BY <2>1, <2>2, NoZeroDivisors
  <1>2. ASSUME NEW r \in D
        PROVE  /\ h[r] \in D
               /\ 2 * r < Prime => h[r] = BN_mod(r * r)
               /\ ~(2 * r < Prime) => h[r] = BN_mod(-(r * r))
    <2>1. ASSUME NEW z \in Int, ~Same(z, 0) PROVE BN_mod(z) \in D
      <3>1. BN_mod(z) \in Field /\ BN_mod(z) # 0
        BY <2>1, ModIs, ZeroOne DEF Same
      <3>2. QED
        BY <1>0, <3>1 DEF Field
    <2> DEFINE z == r * r
    <2>2. z \in Int /\ -z \in Int /\ ~Same(z, 0)
      BY <1>1
    <2>3. h[r] = IF 2 * r < Prime THEN BN_mod(z) ELSE BN_mod(-z)
      OBVIOUS
    <2> HIDE DEF z, h, D
    <2>4. ~Same(-z, 0)
      <3>1. ASSUME Same(-z, 0) PROVE FALSE
        <4>1. Multiple(z, 0, -1, -z, 0)
          BY <2>2, <3>1 DEF Multiple
        <4>2. QED
          BY <2>2, <4>1, ByOne
      <3>2. QED
        BY <3>1
    <2>5. BN_mod(z) \in D /\ BN_mod(-z) \in D
      BY <2>1, <2>2, <2>4
    <2>6. QED
      BY <2>3, <2>5 DEF z
  <1>3. h \in [D -> D]
    BY <1>2
  <1> HIDE DEF h
  <1>4. ASSUME NEW r \in D, NEW s \in D, Same(r * r, s * s),
               2 * r < Prime <=> 2 * s < Prime
        PROVE  r = s
    <2>1. r \in Int /\ s \in Int /\ r \in Field /\ s \in Field
      BY <1>1
    <2>2. CASE Same(r, s)
      BY <2>1, <2>2, FieldSame
    <2>3. CASE Same(r, -s)
      <3>1. r + s \in Int /\ r + s - Prime \in Int /\ -s \in Int
        BY <1>0, <2>1
      <3>2. Same(r + s, 0)
        <4>1. Multiple(r + s, 0, 1, r, -s)
          BY <2>1, <2>3 DEF Multiple
        <4>2. QED
          BY <4>1, ByOne
      <3>3. CASE 2 * r < Prime
        <4>1. r + s \in Field /\ r + s # 0
          BY <1>0, <1>4, <2>1, <3>3 DEF Field
        <4>2. QED
          BY <3>2, <4>1, FieldSame, ZeroOne
      <3>4. CASE ~(2 * r < Prime)
        <4>1. r + s - Prime \in Field /\ r + s - Prime # 0
          BY <1>0, <1>4, <2>1, <3>4 DEF Field
        <4>2. Same(r + s - Prime, r + s)
          <5>1. r + s - Prime = (r + s) + (-1) * Prime
            BY <1>0, <2>1
          <5>2. QED
            BY <3>1, <5>1, SameIff
        <4>3. Same(r + s - Prime, 0)
          BY <3>2, <4>2 DEF Same
        <4>4. QED
          BY <4>1, <4>3, FieldSame, ZeroOne
      <3>5. QED
        BY <3>3, <3>4
    <2>4. QED
      BY <1>4, <2>1, <2>2, <2>3, TwoRoots
  <1>5. ASSUME NEW r \in D, NEW s \in D, Same(r * r, -(s * s)) PROVE FALSE
    <2> DEFINE z == s * s
    <2>1. z \in Int /\ ~Same(z, 0) /\ s \in Int /\ r \in Int /\ -z \in Int
      BY <1>1
    <2>2. Same(r * r, -z) /\ Same(s * s, z)
      BY <1>5 DEF Same
    <2> HIDE DEF z
    <2>3. Sq(z) /\ Sq(-z)
      BY <2>1, <2>2, SqIff
    <2>4. QED
      BY <2>1, <2>3, NotBoth
  <1>6. ASSUME NEW r \in D, NEW s \in D, Same(-(r * r), -(s * s)) PROVE Same(r * r, s * s)
    <2>1. r * r \in Int /\ s * s \in Int
      BY <1>1
    <2>2. Multiple(r * r, s * s, -1, -(r * r), -(s * s))
      <3> DEFINE z == r * r
                 w == s * s
      <3>1. z \in Int /\ w \in Int /\ Same(-z, -w)
        BY <1>6, <2>1
      <3> HIDE DEF z, w
      <3>2. Multiple(z, w, -1, -z, -w)
        BY <3>1 DEF Multiple
      <3>3. QED
        BY <3>2 DEF z, w
    <2>3. QED
      BY <2>2, ByOne
  <1>7. ASSUME NEW r \in D, NEW s \in D, h[r] = h[s] PROVE r = s
    <2>1. CASE 2 * r < Prime /\ 2 * s < Prime
      <3>1. Same(r * r, s * s)
        BY <1>2, <1>7, <2>1 DEF Same
      <3>2. QED
        BY <1>4, <2>1, <3>1
    <2>2. CASE 2 * r < Prime /\ ~(2 * s < Prime)
      <3>1. Same(r * r, -(s * s))
        BY <1>2, <1>7, <2>2 DEF Same
      <3>2. QED
        BY <1>5, <3>1
    <2>3. CASE ~(2 * r < Prime) /\ 2 * s < Prime
      <3>1. Same(s * s, -(r * r))
        BY <1>2, <1>7, <2>3 DEF Same
      <3>2. QED
        BY <1>5, <3>1
    <2>4. CASE ~(2 * r < Prime) /\ ~(2 * s < Prime)
      <3>1. Same(-(r * r), -(s * s))
        BY <1>2, <1>7, <2>4 DEF Same
      <3>2. QED
        BY <1>4, <1>6, <2>4, <3>1
    <2>5. QED
      BY <2>1, <2>2, <2>3, <2>4
  <1>8. h \in Surjection(D, D)
    <2>1. IsFiniteSet(D)
      BY <1>0, FS_Interval
    <2> HIDE DEF D
    <2>2. h \in Injection(D, D)
      BY <1>3, <1>7, Zenon DEF Injection, IsInjective
    <2>3. QED
      BY <2>1, <2>2, FS_Injection, Zenon
  <1>9. CASE Same(n, 0)
    <2>1. Same(0 * 0, n) /\ 0 \in Int
      BY <1>9 DEF Same
    <2>2. \E r \in Int : Same(r * r, n)
      BY <2>1, Zenon
    <2>3. QED
      BY <2>2, SqIff
  <1>10. CASE ~Same(n, 0)
    <2> DEFINE d == BN_mod(n)
    <2>1. d \in Field /\ d # 0 /\ d \in Int /\ Same(d, n)
      BY <1>10, ModIs, ModSame, ZeroOne DEF Same
    <2>2. d \in D
      BY <1>0, <2>1 DEF Field
    <2> HIDE DEF d
    <2>3. PICK r \in D : h[r] = d
      <3> HIDE DEF D
      <3>1. QED
        BY <1>8, <2>2, Zenon DEF Surjection
    <2> DEFINE z == r * r
    <2>4. z \in Int /\ r \in Int /\ -z \in Int /\ (d = BN_mod(z) \/ d = BN_mod(-z))
      BY <1>1, <1>2, <2>3
    <2>5. Same(r * r, z)
      BY DEF Same
    <2> HIDE DEF z
    <2>6. Sq(z)
      BY <2>4, <2>5, SqIff
    <2>7. CASE d = BN_mod(z)
      <3>1. Same(z, n)
        BY <2>4, <2>7, <2>1, ModSame DEF Same
      <3>2. QED
        BY <2>6, <3>1, SqSame
    <2>8. CASE d = BN_mod(-z)
      <3>1. Same(-z, n)
        BY <2>4, <2>8, <2>1, ModSame DEF Same
      <3>2. Multiple(z, -n, -1, -z, n)
        BY <2>4, <3>1 DEF Multiple
      <3>3. Same(z, -n)
        BY <3>2, ByOne
      <3>4. QED
        BY <2>6, <3>3, SqSame
    <2>9. QED
      BY <2>4, <2>7, <2>8
  <1>11. QED
    BY <1>9, <1>10

-----------------------------------------------------------------------------
(***************************************************************************)
(* Roots.                                                                  *)
(***************************************************************************)
\* Squares are the elements of the field that stand for squares.
LEMMA SquaresAre ==
  \A r : r \in Squares <=> r \in Field /\ Sq(r)
  <1>1. ASSUME NEW r \in Squares PROVE r \in Field
    <2>1. PICK s \in Field : r = BN_mod(s * s)
      BY DEF Squares
    <2>2. s * s \in Int
      BY FieldMod
    <2>3. QED
      BY <2>1, <2>2, ModIs
  <1>2. ASSUME NEW r \in Field PROVE BN_mod(r) = r
    BY FieldMod
  <1>3. QED
    BY <1>1, <1>2 DEF Sq

\* BN_mod_sqrt() finds a root if there is one, and one that is a square.
LEMMA SqrtIs ==
  ASSUME NEW n \in Int
  PROVE  /\ Sq(n) => /\ Sqrt(n) \in Field /\ Sqrt(n) \in Int /\ Sqrt(n) # NULL
                     /\ Sq(Sqrt(n)) /\ Same(Sqrt(n) * Sqrt(n), n)
         /\ ~Sq(n) => Sqrt(n) = NULL
  <1>1. ~Sq(n) => Sqrt(n) = NULL
    BY DEF Sqrt, Sq
  <1>2. ASSUME Sq(n) PROVE \E r \in Squares : BN_mod(r * r) = BN_mod(n)
    <2>1. PICK s \in Int : Same(s * s, n)
      BY <1>2, SqIff
    <2>2. ASSUME NEW z \in Int, Same(z * z, n), Sq(z)
          PROVE  \E r \in Squares : BN_mod(r * r) = BN_mod(n)
      <3> DEFINE r == BN_mod(z)
      <3>1. r \in Field /\ r \in Int /\ Same(r, z)
        BY ModIs, ModSame
      <3> HIDE DEF r
      <3>2. Same(r * r, z * z)
        BY <3>1, SameTimes
      <3>3. r \in Squares
        BY <2>2, <3>1, SquaresAre, SqSame
      <3>4. QED
        BY <2>2, <3>2, <3>3 DEF Same
    <2>3. -s \in Int /\ (-s) * (-s) = s * s
      OBVIOUS
    <2>4. QED
      BY <2>1, <2>2, <2>3, OneOf
  <1>3. ASSUME Sq(n) PROVE Sqrt(n) \in Squares /\ BN_mod(Sqrt(n) * Sqrt(n)) = BN_mod(n)
    <2>1. Sqrt(n) = CHOOSE r \in Squares : BN_mod(r * r) = BN_mod(n)
      BY <1>3 DEF Sqrt, Sq
    <2>2. QED
      BY <1>2, <1>3, <2>1, Zenon
  <1>4. ASSUME Sq(n)
        PROVE  /\ Sqrt(n) \in Field /\ Sqrt(n) \in Int /\ Sqrt(n) # NULL
               /\ Sq(Sqrt(n)) /\ Same(Sqrt(n) * Sqrt(n), n)
    <2>1. Sqrt(n) \in Field /\ Sq(Sqrt(n))
      BY <1>3, <1>4, SquaresAre
    <2>2. Sqrt(n) \in Int
      BY <2>1, FieldMod
    <2>3. Sqrt(n) # NULL
      BY <2>1, NullAssumption
    <2>4. QED
      BY <1>3, <1>4, <2>1, <2>2, <2>3 DEF Same
  <1>5. QED
    BY <1>1, <1>4

\* There is no other such root.
LEMMA SqrtOnly ==
  ASSUME NEW n \in Int, NEW r \in Field, Sq(r), Same(r * r, n)
  PROVE  Sqrt(n) = r /\ Sq(n)
  <1> DEFINE s == Sqrt(n)
  <1>1. r \in Int
    BY FieldMod
  <1>2. Sq(n)
    BY <1>1, SqIff
  <1>3. s \in Field /\ s \in Int /\ Sq(s) /\ Same(s * s, n)
    BY <1>2, SqrtIs
  <1> HIDE DEF s
  <1>4. Same(r * r, s * s)
    BY <1>3 DEF Same
  <1>5. CASE Same(r, s)
    BY <1>3, <1>5, <1>2, FieldSame DEF s
  <1>6. CASE Same(r, -s)
    <2>1. -s \in Int /\ Sq(-s)
      BY <1>3, <1>6, SqSame
    <2>2. Same(s, 0)
      BY <1>3, <2>1, NotBoth
    <2>3. Multiples2(r, s, 1, r, -s, -2, s, 0)
      BY <1>1, <1>3, <1>6, <2>1, <2>2 DEF Multiples2
    <2>4. Same(r, s)
      BY <2>3, ByTwo
    <2>5. QED
      BY <1>5, <2>4
  <1>7. QED
    BY <1>1, <1>3, <1>4, <1>5, <1>6, TwoRoots

-----------------------------------------------------------------------------
(***************************************************************************)
(* The curve, and the points of field elements.                            *)
(***************************************************************************)
Cubic(z) == z * z * z + A * z + B

\* The coefficients are elements other than 0.
LEMMA CurveIs ==
  /\ A \in Int /\ B \in Int /\ A \in Field /\ B \in Field
  /\ ~Same(A, 0) /\ ~Same(B, 0)
  <1>1. A \in Int /\ B \in Int /\ A \in Field /\ B \in Field /\ A # 0 /\ B # 0
    BY CurveAssumption, PrimeAssumption DEF Field
  <1>2. QED
    BY <1>1, FieldSame, ZeroOne

\* g() is the cubic.
LEMMA GIs ==
  ASSUME NEW z \in Int
  PROVE  g(z) \in Field /\ g(z) \in Int /\ Cubic(z) \in Int /\ Same(g(z), Cubic(z))
  <1> DEFINE u == BN_mod(z * z)
             v == BN_mod(u * z)
             w == v + A * z + B
  <1>0. A \in Int /\ B \in Int
    BY CurveIs
  <1>1. z * z \in Int /\ Cubic(z) \in Int
    BY <1>0 DEF Cubic
  <1>2. u \in Int /\ Same(u, z * z)
    BY <1>1, ModSame
  <1> HIDE DEF u
  <1>3. u * z \in Int
    BY <1>2
  <1>4. v \in Int /\ Same(v, u * z)
    BY <1>3, ModSame
  <1> HIDE DEF v
  <1>5. w \in Int
    BY <1>0, <1>4
  <1>6. g(z) = BN_mod(w)
    BY DEF g, u, v
  <1>7. Multiples2(w, Cubic(z), 1, v, u * z, z, u, z * z)
    <2>1. w - (z * z * z + A * z + B) = 1 * (v - u * z) + z * (u - z * z)
      BY <1>0, <1>2, <1>4
    <2>2. QED
      BY <1>1, <1>2, <1>3, <1>4, <1>5, <2>1 DEF Multiples2, Cubic
  <1> HIDE DEF w
  <1>8. Same(w, Cubic(z))
    BY <1>7, ByTwo
  <1>9. QED
    BY <1>1, <1>5, <1>6, <1>8, ModIs, ModSame DEF Same

\* What it means to be on the curve.
LEMMA OnCurve ==
  ASSUME NEW z \in Field, NEW w \in Field
  PROVE  <<z, w>> \in Curve <=> Same(w * w, Cubic(z))
  <1>1. z \in Int /\ w \in Int /\ w * w \in Int
    BY FieldMod
  <1>2. g(z) \in Field /\ Same(g(z), Cubic(z))
    BY <1>1, GIs
  <1>3. <<z, w>> \in Curve <=> BN_mod(w * w) = g(z)
    BY DEF Curve
  <1>4. BN_mod(g(z)) = g(z)
    BY <1>2, FieldMod
  <1>5. QED
    BY <1>2, <1>3, <1>4 DEF Same

\* The points of the curve, none of which has y = 0.
LEMMA PointIs ==
  ASSUME NEW P \in Curve
  PROVE  /\ P = <<P[1], P[2]>> /\ P[1] \in Field /\ P[2] \in Field
         /\ P[1] \in Int /\ P[2] \in Int
         /\ Same(P[2] * P[2], Cubic(P[1])) /\ ~Same(P[2], 0)
         /\ P # Infinity /\ P # NULL
  <1>1. P = <<P[1], P[2]>> /\ P[1] \in Field /\ P[2] \in Field /\ BN_mod(P[2] * P[2]) = g(P[1])
    BY DEF Curve
  <1>2. P[1] \in Int /\ P[2] \in Int
    BY <1>1, FieldMod
  <1>3. Same(P[2] * P[2], Cubic(P[1]))
    <2>1. <<P[1], P[2]>> \in Curve
      BY <1>1
    <2>2. QED
      BY <1>1, <2>1, OnCurve
  <1>4. ASSUME Same(P[2], 0) PROVE FALSE
    <2>1. Same(P[2] * P[2], 0 * 0) /\ 0 * 0 = 0
      BY <1>2, <1>4, SameTimes
    <2>2. BN_mod(P[2] * P[2]) = 0
      BY <2>1, ZeroOne DEF Same
    <2>3. QED
      BY <1>1, <2>2, OrderAssumption
  <1>5. P # Infinity
    BY <1>1, PrimeAssumption DEF Infinity, Field
  <1>6. P # NULL
    <2>1. P[1] \in 0..Prime /\ P[2] \in 0..Prime
      BY <1>1, PrimeAssumption DEF Field
    <2>2. P \in (0..Prime) \X (0..Prime)
      BY <1>1, <2>1
    <2>3. QED
      BY <2>2, NullAssumption
  <1>7. QED
    BY <1>1, <1>2, <1>3, <1>4, <1>5, <1>6

\* The squares of elements that are not exceptional.
LEMMA NotExceptional ==
  ASSUME NEW u \in Field
  PROVE  u \notin Exceptional
           <=> ~Same(BN_mod(u * u) * BN_mod(u * u) - BN_mod(u * u), 0)
  <1> DEFINE s == BN_mod(u * u)
  <1>1. u \in Int /\ Prime \in Int /\ Prime > 1
    BY FieldMod, PrimeAssumption
  <1>2. u * u \in Int
    BY <1>1
  <1>3. s \in Int /\ Same(s, u * u)
    BY <1>2, ModSame
  <1> HIDE DEF s
  <1>4. s - 1 \in Int /\ s * (s - 1) = s * s - s
    BY <1>3
  <1>5. ASSUME Same(s * s - s, 0) PROVE u \in Exceptional
    <2>1. Same(s, 0) \/ Same(s - 1, 0)
      BY <1>3, <1>4, <1>5, NoZeroDivisors
    <2>2. CASE Same(s, 0)
      <3>1. Same(u * u, 0)
        BY <1>3, <2>2 DEF Same
      <3>2. Same(u, 0)
        BY <1>1, <3>1, NoZeroDivisors
      <3>3. QED
        BY <3>2, FieldSame, ZeroOne DEF Exceptional
    <2>3. CASE Same(s - 1, 0)
      <3>1. Multiples2(u * u, 1 * 1, -1, s, u * u, 1, s - 1, 0)
        BY <1>2, <1>3, <1>4, <2>3 DEF Multiples2
      <3>2. Same(u * u, 1 * 1)
        BY <3>1, ByTwo
      <3>3. Same(u, 1) \/ Same(u, -1)
        BY <1>1, <3>2, TwoRoots
      <3>4. Prime - 1 \in Field
        BY <1>1, PrimeAssumption DEF Field
      <3>5. Same(Prime - 1, -1)
        <4>1. \E q \in Int : Prime - 1 = -1 + q * Prime
          <5>1. Prime - 1 = -1 + 1 * Prime /\ 1 \in Int
            BY <1>1
          <5>2. QED
            BY <5>1, Zenon
        <4>2. Prime - 1 \in Int /\ -1 \in Int
          BY <1>1
        <4>3. QED
          BY <4>1, <4>2, SameIff
      <3>6. CASE Same(u, 1)
        BY <3>6, FieldSame, ZeroOne DEF Exceptional
      <3>7. CASE Same(u, -1)
        <4>1. Same(u, Prime - 1)
          BY <3>5, <3>7 DEF Same
        <4>2. QED
          BY <3>4, <4>1, FieldSame DEF Exceptional
      <3>8. QED
        BY <3>3, <3>6, <3>7
    <2>4. QED
      BY <2>1, <2>2, <2>3
  <1>6. ASSUME u \in Exceptional PROVE Same(s * s - s, 0)
    <2>1. u * u \in Int /\ (u * u - 1) = (u - 1) * (u + 1)
      BY <1>1
    <2>2. \E k \in Int : (u * u) * (u * u) - u * u = 0 + k * Prime
      <3>1. CASE u = 0
        <4>1. (u * u) * (u * u) - u * u = 0 + 0 * Prime /\ 0 \in Int
          BY <1>1, <3>1
        <4>2. QED
          BY <4>1, Zenon
      <3>2. CASE u = 1
        <4>1. (u * u) * (u * u) - u * u = 0 + 0 * Prime /\ 0 \in Int
          BY <1>1, <3>2
        <4>2. QED
          BY <4>1, Zenon
      <3>3. CASE u = Prime - 1
        <4>1. u + 1 = Prime
          BY <1>1, <3>3
        <4>2. (u * u) * (u * u) - u * u = 0 + ((u * u) * (u - 1)) * (u + 1)
          BY <1>1
        <4>3. (u * u) * (u - 1) \in Int
          BY <1>1
        <4>4. QED
          BY <4>1, <4>2, <4>3, Zenon
      <3>4. QED
        BY <1>6, <3>1, <3>2, <3>3 DEF Exceptional
    <2> DEFINE z == u * u
    <2>3. z * z - z \in Int /\ z \in Int /\ \E k \in Int : z * z - z = 0 + k * Prime
      BY <2>1, <2>2
    <2>4. Same(s, z)
      BY <1>3
    <2> HIDE DEF z
    <2>5. Same(z * z - z, 0)
      BY <2>3, SameIff
    <2>6. Multiples2(s * s - s, 0, s + z - 1, s, z, 1, z * z - z, 0)
      BY <1>3, <2>3, <2>4, <2>5 DEF Multiples2
    <2>7. QED
      BY <2>6, ByTwo
  <1>7. QED
    BY <1>5, <1>6 DEF s

\* The square of a field element, and what X_0() divides by.
Sigma(u) == BN_mod(u * u)
Divisor(u) == Sigma(u) * Sigma(u) - Sigma(u)

\* The two values of x that f() tries.
LEMMA FirstIs ==
  ASSUME NEW u \in Field, u \notin Exceptional
  PROVE  /\ u \in Int /\ Sigma(u) \in Int /\ Divisor(u) \in Int
         /\ Same(Sigma(u), u * u) /\ ~Same(Divisor(u), 0)
         /\ X_0(u) \in Field /\ X_0(u) \in Int /\ X_1(u) \in Field /\ X_1(u) \in Int
         /\ Same(A * X_0(u) * Divisor(u), -(B * (Divisor(u) + 1)))
         /\ Same(X_1(u), -(Sigma(u) * X_0(u)))
  <1> DEFINE s  == Sigma(u)
             w  == Divisor(u)
             z  == X_0(u)
             ia == BN_mod_inverse(A)
             iw == BN_mod_inverse(w)
             b  == BN_mod(B * ia)
  <1>1. u \in Int /\ A \in Int /\ B \in Int /\ ~Same(A, 0)
    BY FieldMod, CurveIs
  <1>2. u * u \in Int
    BY <1>1
  <1>3. s \in Int /\ Same(s, u * u)
    BY <1>2, ModSame DEF Sigma
  <1>4. w = s * s - s /\ w \in Int
    BY <1>3 DEF Divisor
  <1>5. ~Same(w, 0)
    BY NotExceptional DEF Divisor, Sigma
  <1>6. ia \in Int /\ Same(A * ia, 1)
    BY <1>1, InverseOf
  <1>7. iw \in Int /\ Same(w * iw, 1)
    BY <1>4, <1>5, InverseOf
  <1>8. X_0(u) = BN_mod(-b * (1 + iw))
    BY DEF X_0, Divisor, Sigma
  <1> HIDE DEF ia, iw
  <1>9. B * ia \in Int
    BY <1>1, <1>6
  <1>10. b \in Int /\ Same(b, B * ia)
    BY <1>9, ModSame
  <1> HIDE DEF b
  <1>11. -b * (1 + iw) \in Int
    BY <1>7, <1>10
  <1>12. z \in Field /\ z \in Int /\ Same(z, -b * (1 + iw))
    BY <1>8, <1>11, ModIs, ModSame
  <1>13. X_1(u) = BN_mod(-s * z)
    BY DEF X_1, Sigma
  <1> HIDE DEF s, w, z
  <1>14. -s * z \in Int /\ -s * z = -(s * z)
    BY <1>3, <1>12
  <1>15. X_1(u) \in Field /\ X_1(u) \in Int /\ Same(X_1(u), -(s * z))
    BY <1>13, <1>14, ModIs, ModSame
  <1>16. Same(A * z * w, -(B * (w + 1)))
    <2> DEFINE m == -B * (1 + iw) * w
    <2>1. Same(A * z * w, A * (-b * (1 + iw)) * w)
      <3>1. A * z * w - A * (-b * (1 + iw)) * w = (A * w) * (z - (-b * (1 + iw)))
        BY <1>1, <1>4, <1>7, <1>10, <1>12
      <3>2. /\ A * z * w \in Int /\ A * (-b * (1 + iw)) * w \in Int
            /\ A * w \in Int
        BY <1>1, <1>4, <1>7, <1>10, <1>12
      <3>3. Multiple(A * z * w, A * (-b * (1 + iw)) * w, A * w, z, -b * (1 + iw))
        BY <1>11, <1>12, <3>1, <3>2 DEF Multiple
      <3>4. QED
        BY <3>3, ByOne
    <2>2. Same(A * (-b * (1 + iw)) * w, m)
      <3>1. A * (-b * (1 + iw)) * w - m
              = (-(A * (1 + iw) * w)) * (b - B * ia) + (-(B * (1 + iw) * w)) * (A * ia - 1)
        BY <1>1, <1>4, <1>6, <1>7, <1>10
      <3>2. /\ A * (-b * (1 + iw)) * w \in Int /\ m \in Int
            /\ -(A * (1 + iw) * w) \in Int /\ -(B * (1 + iw) * w) \in Int
            /\ A * ia \in Int /\ 1 \in Int
        BY <1>1, <1>4, <1>6, <1>7, <1>10
      <3>3. Multiples2(A * (-b * (1 + iw)) * w, m,
                       -(A * (1 + iw) * w), b, B * ia, -(B * (1 + iw) * w), A * ia, 1)
        BY <1>6, <1>9, <1>10, <3>1, <3>2 DEF Multiples2
      <3>4. QED
        BY <3>3, ByTwo
    <2>3. Same(m, -(B * (w + 1)))
      <3>1. m - (-(B * (w + 1))) = (-B) * (w * iw - 1)
        BY <1>1, <1>4, <1>7
      <3>2. m \in Int /\ -(B * (w + 1)) \in Int /\ -B \in Int /\ w * iw \in Int /\ 1 \in Int
        BY <1>1, <1>4, <1>7
      <3> HIDE DEF m
      <3>3. Multiple(m, -(B * (w + 1)), -B, w * iw, 1)
        BY <1>7, <3>1, <3>2 DEF Multiple
      <3>4. QED
        BY <3>3, ByOne
    <2>4. QED
      BY <2>1, <2>2, <2>3 DEF Same
  <1>17. QED
    BY <1>1, <1>3, <1>4, <1>5, <1>12, <1>15, <1>16 DEF s, w, z

\* The curve's cubic at the second is that at the first times -s^3.
LEMMA CubicRelation ==
  ASSUME NEW z \in Int, NEW y \in Int, NEW s \in Int, NEW w \in Int, w = s * s - s,
         Same(A * z * w, -(B * (w + 1))), Same(y, -(s * z))
  PROVE  Same(Cubic(y), -(s * s * s) * Cubic(z))
  <1> DEFINE q == -(s * z)
             k == y * y + y * q + q * q + A
  <1>1. A \in Int /\ B \in Int
    BY CurveIs
  <1>2. q \in Int /\ k \in Int
    BY <1>1
  <1>3. Cubic(y) - Cubic(q) = k * (y - q)
    <2> HIDE DEF q
    <2>1. QED
      BY <1>1, <1>2 DEF Cubic
  <1>4. Cubic(q) - (-(s * s * s) * Cubic(z)) = (s + 1) * (A * z * w - (-(B * (w + 1))))
    <2>1. Cubic(q) - (-(s * s * s) * Cubic(z))
            = (s * s * s - s) * (A * z) + (s * s * s + 1) * B
      BY <1>1 DEF Cubic
    <2>2. (s + 1) * (A * z * w - (-(B * (w + 1))))
            = ((s + 1) * w) * (A * z) + ((s + 1) * (w + 1)) * B
      BY <1>1
    <2>3. (s + 1) * w = s * s * s - s /\ (s + 1) * (w + 1) = s * s * s + 1
      OBVIOUS
    <2>4. QED
      BY <2>1, <2>2, <2>3
  <1>5. /\ Cubic(y) \in Int /\ Cubic(q) \in Int /\ -(s * s * s) * Cubic(z) \in Int
        /\ A * z * w \in Int /\ -(B * (w + 1)) \in Int /\ s + 1 \in Int
    BY <1>1, <1>2 DEF Cubic
  <1>6. Same(y, q)
    OBVIOUS
  <1> HIDE DEF q, k
  <1>7. Multiple(Cubic(y), Cubic(q), k, y, q)
    BY <1>2, <1>3, <1>5, <1>6 DEF Multiple
  <1>8. Multiple(Cubic(q), -(s * s * s) * Cubic(z), s + 1, A * z * w, -(B * (w + 1)))
    BY <1>4, <1>5 DEF Multiple
  <1>9. QED
    BY <1>7, <1>8, ByOne DEF Same

\* One of the two values of x is on the curve, and not both are.
LEMMA OneBranch ==
  ASSUME NEW u \in Int, NEW s \in Int, NEW c \in Int, NEW d \in Int,
         Same(s, u * u), Same(d, -(s * s * s) * c)
  PROVE  /\ ~Sq(c) => Sq(d)
         /\ Sq(c) /\ Sq(d) => Same(d, 0)
  <1> DEFINE e == -(s * s * s) * c
  <1>1. u * u \in Int /\ e \in Int /\ -c \in Int /\ -e \in Int /\ -d \in Int
    OBVIOUS
  <1>2. ASSUME NEW r \in Int, NEW k \in Int, Same(r * r, k)
        PROVE  Same((u * s * r) * (u * s * r), (s * s * s) * k)
    <2>1. (u * s * r) * (u * s * r) - (s * s * s) * k
            = (s * s * u * u) * (r * r - k) + (-(s * s * k)) * (s - u * u)
      OBVIOUS
    <2>2. /\ (u * s * r) * (u * s * r) \in Int /\ (s * s * s) * k \in Int
          /\ s * s * u * u \in Int /\ r * r \in Int /\ -(s * s * k) \in Int
      OBVIOUS
    <2>3. Multiples2((u * s * r) * (u * s * r), (s * s * s) * k,
                     s * s * u * u, r * r, k, -(s * s * k), s, u * u)
      BY <1>1, <1>2, <2>1, <2>2 DEF Multiples2
    <2>4. QED
      BY <2>3, ByTwo
  <1>3. ASSUME NEW k \in Int, Sq(k) PROVE Sq((s * s * s) * k)
    <2>1. PICK r \in Int : Same(r * r, k)
      BY <1>3, SqIff
    <2>2. Same((u * s * r) * (u * s * r), (s * s * s) * k)
      BY <1>2, <2>1
    <2>3. u * s * r \in Int /\ (s * s * s) * k \in Int
      BY <2>1
    <2>4. QED
      BY <2>2, <2>3, SqIff
  <1>4. ASSUME ~Sq(c) PROVE Sq(d)
    <2>1. Sq((s * s * s) * (-c))
      BY <1>1, <1>3, <1>4, OneOf
    <2>2. (s * s * s) * (-c) = e
      OBVIOUS
    <2>3. QED
      BY <2>1, <2>2, SqSame
  <1>5. ASSUME Sq(c), Sq(d) PROVE Same(d, 0)
    <2>1. Sq((s * s * s) * c)
      BY <1>3, <1>5
    <2>2. (s * s * s) * c = -e
      OBVIOUS
    <2>3. Same(-d, -e)
      <3>1. Same(d, e)
        OBVIOUS
      <3> HIDE DEF e
      <3>2. Multiple(-d, -e, -1, d, e)
        BY <1>1, <3>1 DEF Multiple
      <3>3. QED
        BY <3>2, ByOne
    <2>4. Sq(-d)
      BY <2>1, <2>2, <2>3, SqSame
    <2>5. QED
      BY <1>1, <1>5, <2>4, NotBoth
  <1>6. QED
    BY <1>4, <1>5

\* The curve has no point with y = 0, and its cubic no root.
LEMMA NoRoot ==
  ASSUME NEW z \in Field
  PROVE  z \in Int /\ Cubic(z) \in Int /\ ~Same(Cubic(z), 0)
  <1>1. z \in Int
    BY FieldMod
  <1>2. g(z) \in Field /\ g(z) \in Int /\ Cubic(z) \in Int /\ Same(g(z), Cubic(z))
    BY <1>1, GIs
  <1>3. g(z) # 0
    BY OrderAssumption
  <1>4. ~Same(g(z), 0)
    BY <1>2, <1>3, FieldSame, ZeroOne
  <1>5. QED
    BY <1>1, <1>2, <1>4 DEF Same

\* A root of g() gives two points.
LEMMA RootPoints ==
  ASSUME NEW z \in Field, Sq(Cubic(z))
  PROVE  /\ Sqrt(g(z)) # NULL /\ Sqrt(g(z)) \in Field /\ Sq(Sqrt(g(z)))
         /\ <<z, Sqrt(g(z))>> \in Curve /\ <<z, Neg(Sqrt(g(z)))>> \in Curve
  <1> DEFINE r == Sqrt(g(z))
             t == Neg(r)
  <1>1. z \in Int
    BY FieldMod
  <1>2. g(z) \in Int /\ Same(g(z), Cubic(z)) /\ Cubic(z) \in Int
    BY <1>1, GIs
  <1>3. r # NULL /\ r \in Field /\ r \in Int /\ Sq(r) /\ Same(r * r, g(z))
    BY <1>2, SqSame, SqrtIs
  <1> HIDE DEF r
  <1>4. t \in Field /\ t \in Int /\ Same(t, -r) /\ -r \in Int
    BY <1>3, NegIs
  <1> HIDE DEF t
  <1>5. Same(t * t, (-r) * (-r)) /\ (-r) * (-r) = r * r
    BY <1>3, <1>4, SameTimes
  <1>6. Same(r * r, Cubic(z)) /\ Same(t * t, Cubic(z))
    BY <1>2, <1>3, <1>5 DEF Same
  <1>7. <<z, r>> \in Curve /\ <<z, t>> \in Curve
    BY <1>3, <1>4, <1>6, OnCurve
  <1>8. QED
    BY <1>3, <1>7 DEF r, t

\* f() gives a point of the curve for every element that is not exceptional.
LEMMA FIs ==
  ASSUME NEW u \in Field
  PROVE  /\ u \in Exceptional => f(u) = Infinity
         /\ u \notin Exceptional /\ Sq(Cubic(X_0(u))) => f(u) = <<X_0(u), Sqrt(g(X_0(u)))>>
         /\ u \notin Exceptional /\ ~Sq(Cubic(X_0(u))) =>
              /\ f(u) = <<X_1(u), Neg(Sqrt(g(X_1(u))))>>
              /\ Sq(Cubic(X_1(u)))
         /\ u \notin Exceptional => f(u) \in Curve
         /\ f(u) # NULL
  <1>1. ASSUME u \in Exceptional PROVE f(u) = Infinity
    BY <1>1 DEF f
  <1>2. Infinity # NULL
    <2>1. Prime \in 0..Prime
      BY PrimeAssumption
    <2>2. Infinity \in (0..Prime) \X (0..Prime)
      BY <2>1 DEF Infinity
    <2>3. QED
      BY <2>2, NullAssumption
  <1>3. ASSUME u \notin Exceptional
        PROVE  /\ X_0(u) \in Field /\ X_1(u) \in Field
               /\ ~Sq(Cubic(X_0(u))) => Sq(Cubic(X_1(u)))
    <2> DEFINE s == Sigma(u)
               w == Divisor(u)
               z == X_0(u)
               y == X_1(u)
               c == Cubic(z)
               d == Cubic(y)
    <2>1. /\ u \in Int /\ s \in Int /\ w \in Int /\ Same(s, u * u)
          /\ z \in Field /\ z \in Int /\ y \in Field /\ y \in Int
          /\ Same(A * z * w, -(B * (w + 1))) /\ Same(y, -(s * z))
      BY <1>3, FirstIs
    <2>2. w = s * s - s
      BY DEF Divisor
    <2> HIDE DEF s, w, z, y
    <2>3. c \in Int /\ d \in Int
      BY <2>1, GIs
    <2>4. Same(d, -(s * s * s) * c)
      BY <2>1, <2>2, CubicRelation
    <2> HIDE DEF c, d
    <2>5. ~Sq(c) => Sq(d)
      BY <2>1, <2>3, <2>4, OneBranch
    <2>6. QED
      BY <2>1, <2>5 DEF z, y, c, d
  <1>4. ASSUME u \notin Exceptional, Sq(Cubic(X_0(u)))
        PROVE  f(u) = <<X_0(u), Sqrt(g(X_0(u)))>> /\ f(u) \in Curve
    <2>1. Sqrt(g(X_0(u))) # NULL /\ <<X_0(u), Sqrt(g(X_0(u)))>> \in Curve
      BY <1>3, <1>4, RootPoints
    <2>2. QED
      BY <1>4, <2>1 DEF f
  <1>5. ASSUME u \notin Exceptional, ~Sq(Cubic(X_0(u)))
        PROVE  f(u) = <<X_1(u), Neg(Sqrt(g(X_1(u))))>> /\ f(u) \in Curve
    <2>1. Sqrt(g(X_1(u))) # NULL /\ <<X_1(u), Neg(Sqrt(g(X_1(u))))>> \in Curve
      BY <1>3, <1>5, RootPoints
    <2>2. Sqrt(g(X_0(u))) = NULL
      <3>1. X_0(u) \in Field /\ X_0(u) \in Int
        BY <1>3, <1>5, FieldMod
      <3>2. g(X_0(u)) \in Int /\ Same(g(X_0(u)), Cubic(X_0(u)))
        BY <3>1, GIs
      <3>3. QED
        BY <1>5, <3>2, SqSame, SqrtIs
    <2>3. QED
      BY <1>5, <2>1, <2>2 DEF f
  <1>6. ASSUME f(u) \in Curve PROVE f(u) # NULL
    BY <1>6, PointIs
  <1>7. QED
    BY <1>1, <1>2, <1>3, <1>4, <1>5, <1>6

-----------------------------------------------------------------------------
(***************************************************************************)
(* Addition.  The line y = l x + n meets the curve where a cubic is zero   *)
(* whose coefficients are those of (x - x1)(x - x2)(x - x3); what          *)
(* EC_POINT_add() computes is the third zero.                              *)
(***************************************************************************)
Meets(l, n, x1, x2, x3) ==
  /\ l \in Int /\ n \in Int /\ x1 \in Int /\ x2 \in Int /\ x3 \in Int
  /\ Same(l * l, x1 + x2 + x3)
  /\ Same(A - 2 * l * n, x1 * x2 + x1 * x3 + x2 * x3)
  /\ Same(B - n * n, -(x1 * x2 * x3))

\* The cubic with coefficients a2, a1 and a0 is zero at z.
Zero(a2, a1, a0, z) == Same(z * z * z - a2 * z * z + a1 * z + a0, 0)

\* The third zero gives the middle coefficient, if the first two differ.
LEMMA MiddleByChord ==
  ASSUME NEW a2 \in Int, NEW a1 \in Int, NEW a0 \in Int,
         NEW x1 \in Int, NEW x2 \in Int, NEW x3 \in Int,
         Same(a2, x1 + x2 + x3), Zero(a2, a1, a0, x1), Zero(a2, a1, a0, x2), ~Same(x1, x2)
  PROVE  Same(a1, x1 * x2 + x1 * x3 + x2 * x3)
  <1> DEFINE h == x1 * x1 + x1 * x2 + x2 * x2 - a2 * (x1 + x2) + a1
             d == x1 - x2
             e1 == x1 * x1 * x1 - a2 * x1 * x1 + a1 * x1 + a0
             e2 == x2 * x2 * x2 - a2 * x2 * x2 + a1 * x2 + a0
  <1>1. d \in Int /\ ~Same(d, 0)
    <2>1. ASSUME Same(d, 0) PROVE FALSE
      <3>1. Multiple(x1, x2, 1, d, 0)
        BY <2>1 DEF Multiple
      <3>2. QED
        BY <3>1, ByOne
    <2>2. QED
      BY <2>1
  <1>2. h \in Int /\ e1 \in Int /\ e2 \in Int /\ Same(e1, 0) /\ Same(e2, 0)
    BY DEF Zero
  <1>3. d * h = e1 - e2
    OBVIOUS
  <1>4. h = a1 - (x1 * x2 + x1 * x3 + x2 * x3) - (x1 + x2) * (a2 - (x1 + x2 + x3))
    OBVIOUS
  <1> HIDE DEF d, h, e1, e2
  <1>5. Multiples2(d * h, 0, 1, e1, 0, -1, e2, 0)
    BY <1>1, <1>2, <1>3 DEF Multiples2
  <1>6. Same(h, 0)
    BY <1>1, <1>2, <1>5, ByTwo, NoZeroDivisors
  <1>7. Multiples2(a1, x1 * x2 + x1 * x3 + x2 * x3, 1, h, 0, x1 + x2, a2, x1 + x2 + x3)
    <2>1. a1 - (x1 * x2 + x1 * x3 + x2 * x3) = 1 * (h - 0) + (x1 + x2) * (a2 - (x1 + x2 + x3))
      <3> DEFINE m == (x1 + x2) * (a2 - (x1 + x2 + x3))
                 k == x1 * x2 + x1 * x3 + x2 * x3
      <3>1. m \in Int /\ k \in Int /\ h = a1 - k - m
        BY <1>4
      <3> HIDE DEF m, k
      <3>2. a1 - k = 1 * (h - 0) + m
        BY <1>2, <3>1
      <3>3. QED
        BY <3>2 DEF m, k
    <2>2. /\ x1 * x2 + x1 * x3 + x2 * x3 \in Int /\ x1 + x2 \in Int
          /\ x1 + x2 + x3 \in Int /\ 1 \in Int /\ 0 \in Int
      OBVIOUS
    <2>3. QED
      BY <1>2, <1>6, <2>1, <2>2 DEF Multiples2
  <1>8. QED
    BY <1>7, ByTwo

\* The middle coefficient gives the last.
LEMMA LastByZero ==
  ASSUME NEW a2 \in Int, NEW a1 \in Int, NEW a0 \in Int,
         NEW x1 \in Int, NEW x2 \in Int, NEW x3 \in Int,
         Same(a2, x1 + x2 + x3), Zero(a2, a1, a0, x1),
         Same(a1, x1 * x2 + x1 * x3 + x2 * x3)
  PROVE  Same(a0, -(x1 * x2 * x3))
  <1> DEFINE e == x1 * x1 * x1 - a2 * x1 * x1 + a1 * x1 + a0
             k == x1 * x2 + x1 * x3 + x2 * x3
  <1>1. a0 - (-(x1 * x2 * x3))
          = 1 * (e - 0) + (x1 * x1) * (a2 - (x1 + x2 + x3)) + (-x1) * (a1 - k)
    OBVIOUS
  <1>2. /\ e \in Int /\ k \in Int /\ -(x1 * x2 * x3) \in Int /\ x1 * x1 \in Int
        /\ -x1 \in Int /\ x1 + x2 + x3 \in Int /\ 1 \in Int /\ 0 \in Int
    OBVIOUS
  <1>3. Same(e, 0) /\ Same(a1, k)
    BY DEF Zero
  <1> HIDE DEF e, k
  <1>4. Multiples3(a0, -(x1 * x2 * x3),
                   1, e, 0, x1 * x1, a2, x1 + x2 + x3, -x1, a1, k)
    BY <1>1, <1>2, <1>3 DEF Multiples3
  <1>5. QED
    BY <1>4, ByThree

\* A point of the curve that is on the line is a zero.
LEMMA LineZero ==
  ASSUME NEW l \in Int, NEW n \in Int, NEW z \in Int, NEW y \in Int,
         Same(y * y, Cubic(z)), Same(y, l * z + n)
  PROVE  Zero(l * l, A - 2 * l * n, B - n * n, z)
  <1> DEFINE m == l * z + n
             e == z * z * z - (l * l) * z * z + (A - 2 * l * n) * z + (B - n * n)
  <1>1. A \in Int /\ B \in Int
    BY CurveIs
  <1>2. m \in Int /\ e \in Int /\ Cubic(z) \in Int /\ y * y \in Int
    BY <1>1 DEF Cubic
  <1>3. e = Cubic(z) - m * m
    BY <1>1 DEF Cubic
  <1>4. Same(y, m)
    OBVIOUS
  <1> HIDE DEF m, e
  <1>5. e - 0 = (-1) * (y * y - Cubic(z)) + (y + m) * (y - m)
    BY <1>2, <1>3
  <1>6. Multiples2(e, 0, -1, y * y, Cubic(z), y + m, y, m)
    BY <1>2, <1>4, <1>5 DEF Multiples2
  <1>7. Same(e, 0)
    BY <1>6, ByTwo
  <1>8. QED
    BY <1>7 DEF Zero, e

\* And a zero is the x of a point of the curve that is on the line.
LEMMA ZeroLine ==
  ASSUME NEW l, NEW n, NEW x1, NEW x2, NEW x3, Meets(l, n, x1, x2, x3)
  PROVE  l * x3 + n \in Int /\ Same((l * x3 + n) * (l * x3 + n), Cubic(x3))
  <1> DEFINE m == l * x3 + n
             a1 == A - 2 * l * n
             a0 == B - n * n
             k1 == x1 * x2 + x1 * x3 + x2 * x3
             k0 == -(x1 * x2 * x3)
             k2 == x1 + x2 + x3
  <1>1. A \in Int /\ B \in Int
    BY CurveIs
  <1>2. l \in Int /\ n \in Int /\ x1 \in Int /\ x2 \in Int /\ x3 \in Int
    BY DEF Meets
  <1>3. Same(l * l, k2) /\ Same(a1, k1) /\ Same(a0, k0)
    BY DEF Meets
  <1>4. /\ m \in Int /\ a1 \in Int /\ a0 \in Int /\ k1 \in Int /\ k0 \in Int /\ k2 \in Int
        /\ l * l \in Int /\ m * m \in Int /\ Cubic(x3) \in Int /\ x3 * x3 \in Int
        /\ -x3 \in Int /\ -1 \in Int
    BY <1>1, <1>2 DEF Cubic
  <1>5. m * m - Cubic(x3) = (x3 * x3) * (l * l) - x3 * a1 - a0 - x3 * x3 * x3
    BY <1>1, <1>2 DEF Cubic
  <1>6. (x3 * x3) * k2 - x3 * k1 - k0 - x3 * x3 * x3 = 0
    BY <1>2
  <1> HIDE DEF m, a1, a0, k1, k0, k2
  <1>7. m * m - Cubic(x3)
          = (x3 * x3) * (l * l - k2) + (-x3) * (a1 - k1) + (-1) * (a0 - k0)
    BY <1>2, <1>4, <1>5, <1>6
  <1>8. Multiples3(m * m, Cubic(x3), x3 * x3, l * l, k2, -x3, a1, k1, -1, a0, k0)
    BY <1>3, <1>4, <1>7 DEF Multiples3
  <1>9. QED
    BY <1>4, <1>8, ByThree DEF m

\* P and Q are on the line, which meets the curve there and at x3.
Line(P, Q, l, n, x3) ==
  /\ Meets(l, n, P[1], Q[1], x3)
  /\ Same(P[2], l * P[1] + n) /\ Same(Q[2], l * Q[1] + n)

\* 2 has an inverse.
LEMMA TwoIs ==
  2 \in Int /\ ~Same(2, 0)
  <1>1. Prime \in Nat /\ Prime > 1 /\ Prime % 4 = 3
    BY PrimeAssumption, RootAssumption
  <1>2. Prime # 2
    BY <1>1
  <1>3. 2 \in Field
    BY <1>1, <1>2 DEF Field
  <1>4. QED
    BY <1>3, FieldSame, ZeroOne

\* EC_POINT_invert() changes the sign of y.
LEMMA InvertIs ==
  ASSUME NEW Q \in Curve
  PROVE  /\ Invert(Q) \in Curve /\ Invert(Q)[1] = Q[1] /\ Same(Invert(Q)[2], -Q[2])
         /\ Invert(Q) = <<Q[1], Neg(Q[2])>>
         /\ Invert(Invert(Q)) = Q
  <1> DEFINE r == Q[2]
             t == Neg(r)
  <1>1. /\ Q = <<Q[1], r>> /\ Q[1] \in Field /\ r \in Field /\ r \in Int
        /\ Same(r * r, Cubic(Q[1])) /\ Q # Infinity
    BY PointIs
  <1>2. Invert(Q) = <<Q[1], t>>
    BY <1>1 DEF Invert
  <1> HIDE DEF r
  <1>3. t \in Field /\ t \in Int /\ Same(t, -r) /\ -r \in Int /\ Neg(t) = r
    BY <1>1, NegIs
  <1> HIDE DEF t
  <1>4. Same(t * t, (-r) * (-r)) /\ (-r) * (-r) = r * r
    BY <1>1, <1>3, SameTimes
  <1>5. Same(t * t, Cubic(Q[1]))
    BY <1>1, <1>4 DEF Same
  <1>6. <<Q[1], t>> \in Curve
    BY <1>1, <1>3, <1>5, OnCurve
  <1>7. <<Q[1], t>> # Infinity
    BY <1>6, PointIs
  <1>8. Invert(<<Q[1], t>>) = <<Q[1], Neg(t)>>
    BY <1>7 DEF Invert
  <1>9. QED
    BY <1>1, <1>2, <1>3, <1>6, <1>8 DEF r, t

\* Points with the same x are the same or inverse to each other.
LEMMA SameX ==
  ASSUME NEW P \in Curve, NEW Q \in Curve, Same(P[1], Q[1])
  PROVE  P = Q \/ P = Invert(Q)
  <1>1. /\ P = <<P[1], P[2]>> /\ P[1] \in Field /\ P[2] \in Field /\ P[2] \in Int
        /\ Same(P[2] * P[2], Cubic(P[1]))
    BY PointIs
  <1>2. /\ Q = <<Q[1], Q[2]>> /\ Q[1] \in Field /\ Q[2] \in Field /\ Q[2] \in Int
        /\ Same(Q[2] * Q[2], Cubic(Q[1]))
    BY PointIs
  <1>3. P[1] = Q[1]
    BY <1>1, <1>2, FieldSame
  <1>4. Same(P[2] * P[2], Q[2] * Q[2])
    BY <1>1, <1>2, <1>3 DEF Same
  <1>5. Same(P[2], Q[2]) \/ Same(P[2], -Q[2])
    BY <1>1, <1>2, <1>4, TwoRoots
  <1>6. CASE Same(P[2], Q[2])
    <2>1. P[2] = Q[2]
      BY <1>1, <1>2, <1>6, FieldSame
    <2>2. QED
      BY <1>1, <1>2, <1>3, <2>1
  <1>7. CASE Same(P[2], -Q[2])
    <2>1. Neg(Q[2]) \in Field /\ Same(Neg(Q[2]), -Q[2])
      BY <1>2, NegIs
    <2>2. P[2] = Neg(Q[2])
      BY <1>1, <1>7, <2>1, FieldSame DEF Same
    <2>3. Invert(Q) = <<Q[1], Neg(Q[2])>>
      BY InvertIs
    <2>4. QED
      BY <1>1, <1>3, <2>2, <2>3
  <1>8. QED
    BY <1>5, <1>6, <1>7

\* A point is not its own inverse: no y is 0.
LEMMA NotOwnInverse ==
  ASSUME NEW P \in Curve
  PROVE  P # Invert(P) /\ ~Same(2 * P[2], 0)
  <1> DEFINE r == P[2]
  <1>1. r \in Int /\ ~Same(r, 0)
    BY PointIs
  <1>2. ~Same(2 * r, 0)
    BY <1>1, TwoIs, NoZeroDivisors
  <1>3. Invert(P)[2] = r => Same(r, -r)
    BY InvertIs
  <1> HIDE DEF r
  <1>4. ASSUME Same(r, -r) PROVE FALSE
    <2>1. Multiple(2 * r, 0, 1, r, -r)
      BY <1>1, <1>4 DEF Multiple
    <2>2. QED
      BY <1>2, <2>1, ByOne
  <1>5. QED
    BY <1>2, <1>3, <1>4 DEF r

\* Through two points that are not inverse to each other there is a line.
LEMMA LineOf ==
  ASSUME NEW P \in Curve, NEW Q \in Curve, P # Invert(Q)
  PROVE  \E l, n \in Int, x3 \in Field : Line(P, Q, l, n, x3)
  <1> DEFINE x1 == P[1]
             y1 == P[2]
             x2 == Q[1]
             y2 == Q[2]
  <1>1. x1 \in Int /\ y1 \in Int /\ Same(y1 * y1, Cubic(x1)) /\ ~Same(y1, 0)
    BY PointIs
  <1>2. x2 \in Int /\ y2 \in Int /\ Same(y2 * y2, Cubic(x2))
    BY PointIs
  <1>3. A \in Int /\ B \in Int
    BY CurveIs
  <1>4. Same(x1, x2) => P = Q
    BY SameX
  <1>5. ~Same(2 * y1, 0)
    BY NotOwnInverse
  <1>6. P = Q => x1 = x2 /\ y1 = y2
    OBVIOUS
  <1>8. ASSUME NEW l \in Int, NEW n \in Int, NEW z \in Field,
               Meets(l, n, x1, x2, z), Same(y1, l * x1 + n), Same(y2, l * x2 + n)
        PROVE  \E m, k \in Int, x3 \in Field : Line(P, Q, m, k, x3)
    <2>1. Line(P, Q, l, n, z)
      BY <1>8 DEF Line
    <2>2. QED
      BY <2>1, Zenon
  <1> HIDE DEF x1, y1, x2, y2
  <1>9. ASSUME NEW l \in Int
        PROVE  LET n == y1 - l * x1
                   z == BN_mod(l * l - x1 - x2)
               IN /\ n \in Int /\ z \in Int /\ z \in Field
                  /\ Same(y1, l * x1 + n) /\ Same(l * l, x1 + x2 + z)
    <2> DEFINE n == y1 - l * x1
               c == l * l - x1 - x2
               z == BN_mod(c)
    <2>1. n \in Int /\ c \in Int /\ l * x1 + n = y1 /\ l * l \in Int
      BY <1>1, <1>2
    <2>2. z \in Field /\ z \in Int /\ Same(z, c)
      BY <2>1, ModIs, ModSame
    <2>3. Same(l * l, x1 + x2 + z)
      <3> HIDE DEF z
      <3>1. Multiple(l * l, x1 + x2 + z, -1, z, c)
        BY <1>1, <1>2, <2>1, <2>2 DEF Multiple
      <3>2. QED
        BY <3>1, ByOne
    <2>4. Same(y1, l * x1 + n)
      BY <2>1 DEF Same
    <2>5. QED
      BY <2>1, <2>2, <2>3, <2>4
  <1>10. CASE ~Same(x1, x2)
    <2> DEFINE d == x2 - x1
    <2>1. d \in Int /\ ~Same(d, 0)
      <3>1. ASSUME Same(d, 0) PROVE FALSE
        <4>1. Multiple(x1, x2, -1, d, 0)
          BY <1>1, <1>2, <3>1 DEF Multiple
        <4>2. QED
          BY <1>10, <4>1, ByOne
      <3>2. QED
        BY <1>1, <1>2, <3>1
    <2> DEFINE e == BN_mod_inverse(d)
               l == (y2 - y1) * e
               n == y1 - l * x1
               z == BN_mod(l * l - x1 - x2)
    <2> HIDE DEF d
    <2>2. e \in Int /\ Same(d * e, 1)
      BY <2>1, InverseOf
    <2> HIDE DEF e
    <2>3. l \in Int /\ l * d = (y2 - y1) * (d * e)
      BY <1>1, <1>2, <2>1, <2>2
    <2> HIDE DEF l
    <2>4. /\ n \in Int /\ z \in Int /\ z \in Field
          /\ Same(y1, l * x1 + n) /\ Same(l * l, x1 + x2 + z)
      BY <1>9, <2>3
    <2>5. Same(y2, l * x2 + n)
      <3>1. l * x2 + n = y1 + l * d
        BY <1>1, <1>2, <2>3 DEF d
      <3>2. y2 - (l * x2 + n) = (y1 - y2) * (d * e - 1)
        <4> DEFINE t == d * e
                   m == l * d
        <4>1. t \in Int /\ m \in Int /\ m = (y2 - y1) * t /\ l * x2 + n = y1 + m
          BY <2>1, <2>2, <2>3, <3>1
        <4> HIDE DEF t, m, n
        <4>2. y2 - (l * x2 + n) = (y1 - y2) * (t - 1)
          BY <1>1, <1>2, <4>1
        <4>3. QED
          BY <4>2 DEF t
      <3>3. /\ l * x2 + n \in Int /\ y1 - y2 \in Int /\ d * e \in Int /\ 1 \in Int
        BY <1>1, <1>2, <2>1, <2>2, <2>3, <2>4
      <3> HIDE DEF n
      <3>4. Multiple(y2, l * x2 + n, y1 - y2, d * e, 1)
        BY <1>2, <2>2, <3>2, <3>3 DEF Multiple
      <3>5. QED
        BY <3>4, ByOne
    <2> HIDE DEF n, z
    <2> DEFINE a2 == l * l
               a1 == A - 2 * l * n
               a0 == B - n * n
    <2>6. Zero(a2, a1, a0, x1) /\ Zero(a2, a1, a0, x2)
      BY <1>1, <1>2, <2>3, <2>4, <2>5, LineZero
    <2>7. a2 \in Int /\ a1 \in Int /\ a0 \in Int /\ Same(a2, x1 + x2 + z)
      BY <1>3, <2>3, <2>4
    <2> HIDE DEF a2, a1, a0
    <2>8. Same(a1, x1 * x2 + x1 * z + x2 * z)
      BY <1>1, <1>2, <1>10, <2>4, <2>6, <2>7, MiddleByChord
    <2>9. Same(a0, -(x1 * x2 * z))
      BY <1>1, <1>2, <2>4, <2>6, <2>7, <2>8, LastByZero
    <2>10. Meets(l, n, x1, x2, z)
      BY <1>1, <1>2, <2>3, <2>4, <2>8, <2>9 DEF Meets, a1, a0
    <2>11. QED
      BY <1>8, <2>3, <2>4, <2>5, <2>10
  <1>11. CASE Same(x1, x2)
    <2> DEFINE d == 2 * y1
               e == BN_mod_inverse(d)
               h == 3 * x1 * x1 + A
               l == h * e
               n == y1 - l * x1
               z == BN_mod(l * l - x1 - x2)
    <2>0. x1 = x2 /\ y1 = y2
      BY <1>4, <1>6, <1>11
    <2>1. d \in Int /\ h \in Int
      BY <1>1, <1>3
    <2>2. e \in Int /\ Same(d * e, 1)
      BY <1>5, <2>1, InverseOf
    <2> HIDE DEF e, d
    <2>3. l \in Int /\ d * l - h = h * (d * e - 1)
      <3> HIDE DEF h
      <3>1. QED
        BY <2>1, <2>2
    <2>4. Same(d * l, h)
      <3>1. d * l \in Int /\ d * e \in Int /\ 1 \in Int
        BY <2>1, <2>2, <2>3
      <3> HIDE DEF h, l
      <3>2. Multiple(d * l, h, h, d * e, 1)
        BY <2>1, <2>2, <2>3, <3>1 DEF Multiple
      <3>3. QED
        BY <3>2, ByOne
    <2> HIDE DEF l
    <2>5. /\ n \in Int /\ z \in Int /\ z \in Field
          /\ Same(y1, l * x1 + n) /\ Same(l * l, x1 + x2 + z)
      BY <1>9, <2>3
    <2>6. y1 = l * x1 + n
      BY <1>1, <2>3
    <2> HIDE DEF n, z
    <2> DEFINE a2 == l * l
               a1 == A - 2 * l * n
               a0 == B - n * n
    <2>7. Zero(a2, a1, a0, x1)
      BY <1>1, <2>3, <2>5, LineZero
    <2>8. a2 \in Int /\ a1 \in Int /\ a0 \in Int /\ Same(a2, x1 + x1 + z)
      BY <1>3, <2>0, <2>3, <2>5
    <2>9. Same(a1, x1 * x1 + x1 * z + x1 * z)
      <3>1. a1 - (x1 * x1 + x1 * z + x1 * z)
              = (-1) * (d * l - h) + (2 * x1) * (a2 - (x1 + x1 + z))
        <4>1. d * l = 2 * (l * x1 + n) * l
          BY <2>6 DEF d
        <4>2. h - 2 * (l * x1 + n) * l = 3 * x1 * x1 + a1 - 2 * x1 * a2
          BY <1>1, <1>3, <2>3, <2>5
        <4> DEFINE m == 2 * (l * x1 + n) * l
        <4>3. m \in Int /\ d * l = m /\ h - m = 3 * x1 * x1 + a1 - 2 * x1 * a2
          BY <1>1, <2>3, <2>5, <4>1, <4>2
        <4> HIDE DEF m, h, a1, a2
        <4>4. QED
          BY <1>1, <2>1, <2>5, <2>8, <4>3
      <3>2. /\ x1 * x1 + x1 * z + x1 * z \in Int /\ d * l \in Int /\ h \in Int
            /\ 2 * x1 \in Int /\ x1 + x1 + z \in Int
        BY <1>1, <2>1, <2>3, <2>5
      <3> HIDE DEF h, a1, a2
      <3>3. Multiples2(a1, x1 * x1 + x1 * z + x1 * z, -1, d * l, h, 2 * x1, a2, x1 + x1 + z)
        BY <2>4, <2>8, <3>1, <3>2 DEF Multiples2
      <3>4. QED
        BY <3>3, ByTwo
    <2> HIDE DEF a2, a1, a0
    <2>10. Same(a0, -(x1 * x1 * z))
      BY <1>1, <2>5, <2>7, <2>8, <2>9, LastByZero
    <2>11. Meets(l, n, x1, x2, z)
      BY <1>1, <2>0, <2>3, <2>5, <2>8, <2>9, <2>10 DEF Meets, a2, a1, a0
    <2>12. QED
      BY <1>8, <2>0, <2>3, <2>5, <2>11
  <1>12. QED
    BY <1>10, <1>11

\* What Chord() computes from the slope of the line.
LEMMA ChordIs ==
  ASSUME NEW P \in Curve, NEW Q \in Curve, NEW l \in Int, NEW n \in Int, NEW x3 \in Field,
         Line(P, Q, l, n, x3), NEW m \in Int, Same(m, l)
  PROVE  Chord(P, Q, m) = <<x3, BN_mod(-(l * x3 + n))>>
  <1> DEFINE x1 == P[1]
             y1 == P[2]
             x2 == Q[1]
             c == m * m - x1 - x2
             z == BN_mod(c)
             e == m * (x1 - z) - y1
  <1>1. x1 \in Int /\ y1 \in Int /\ x2 \in Int /\ x3 \in Int
    BY PointIs, FieldMod
  <1>2. Same(y1, l * x1 + n) /\ Same(l * l, x1 + x2 + x3)
    BY DEF Line, Meets
  <1>3. Chord(P, Q, m) = <<z, BN_mod(e)>>
    BY DEF Chord
  <1> HIDE DEF x1, y1, x2
  <1>4. c \in Int
    BY <1>1
  <1>5. Same(c, x3)
    <2>1. c - x3 = (m + l) * (m - l) + 1 * (l * l - (x1 + x2 + x3))
      BY <1>1
    <2>2. m + l \in Int /\ l * l \in Int /\ x1 + x2 + x3 \in Int /\ 1 \in Int
      BY <1>1
    <2> HIDE DEF c
    <2>3. Multiples2(c, x3, m + l, m, l, 1, l * l, x1 + x2 + x3)
      BY <1>1, <1>2, <1>4, <2>1, <2>2 DEF Multiples2
    <2>4. QED
      BY <2>3, ByTwo
  <1>6. z = x3
    BY <1>4, <1>5, ModIs, FieldMod DEF Same
  <1> HIDE DEF z, c
  <1>7. Same(e, -(l * x3 + n))
    <2>1. e - (-(l * x3 + n)) = (x1 - x3) * (m - l) + (-1) * (y1 - (l * x1 + n))
      BY <1>1, <1>6
    <2>2. /\ e \in Int /\ -(l * x3 + n) \in Int /\ x1 - x3 \in Int /\ -1 \in Int
          /\ l * x1 + n \in Int
      BY <1>1, <1>6
    <2> HIDE DEF e
    <2>3. Multiples2(e, -(l * x3 + n), x1 - x3, m, l, -1, y1, l * x1 + n)
      BY <1>1, <1>2, <2>1, <2>2 DEF Multiples2
    <2>4. QED
      BY <2>3, ByTwo
  <1>8. QED
    BY <1>3, <1>6, <1>7 DEF Same

\* Two points on a line that meets the curve at x3 add up to the inverse of the
\* point there.
LEMMA AddOnLine ==
  ASSUME NEW P \in Curve, NEW Q \in Curve, NEW l \in Int, NEW n \in Int, NEW x3 \in Field,
         Line(P, Q, l, n, x3)
  PROVE  /\ P # Invert(Q)
         /\ Add(P, Q) = <<x3, BN_mod(-(l * x3 + n))>>
         /\ Add(P, Q) \in Curve
  <1> DEFINE x1 == P[1]
             y1 == P[2]
             x2 == Q[1]
             y2 == Q[2]
  <1>1. x1 \in Int /\ y1 \in Int /\ x2 \in Int /\ y2 \in Int /\ x3 \in Int
    BY PointIs, FieldMod
  <1>2. P # Infinity /\ Q # Infinity
    BY PointIs
  <1>3. A \in Int /\ B \in Int
    BY CurveIs
  <1>4. /\ Same(y1, l * x1 + n) /\ Same(y2, l * x2 + n) /\ Same(l * l, x1 + x2 + x3)
        /\ Same(A - 2 * l * n, x1 * x2 + x1 * x3 + x2 * x3)
    BY DEF Line, Meets
  <1>5. Invert(Q)[1] = x2 /\ Invert(P) # P /\ ~Same(2 * y1, 0)
    BY InvertIs, NotOwnInverse
  <1>6. P = Q => x1 = x2 /\ y1 = y2
    OBVIOUS
  <1>7. Same(x1, x2) => P = Q
    <2>1. ASSUME Same(x1, x2) PROVE P = Q
      <3>1. /\ P = <<x1, y1>> /\ x1 \in Field /\ y1 \in Field
            /\ Q = <<x2, y2>> /\ x2 \in Field /\ y2 \in Field
        BY PointIs
      <3>2. x1 = x2
        BY <2>1, <3>1, FieldSame
      <3>3. Same(y1, y2)
        BY <1>4, <3>2 DEF Same
      <3>4. y1 = y2
        BY <3>1, <3>3, FieldSame
      <3>5. QED
        BY <3>1, <3>2, <3>4
    <2>2. QED
      BY <2>1
  <1>8. ASSUME P = Invert(Q) PROVE FALSE
    <2>1. x1 = x2
      BY <1>5, <1>8
    <2>2. P = Q
      BY <1>7, <2>1 DEF Same
    <2>3. QED
      BY <1>5, <1>8, <2>2
  <1>9. ASSUME P = Q PROVE Add(P, Q) = <<x3, BN_mod(-(l * x3 + n))>>
    <2> DEFINE d == 2 * y1
               e == BN_mod_inverse(d)
               h == 3 * x1 * x1 + A
               m == BN_mod(h * e)
    <2>1. Add(P, Q) = Chord(P, Q, m)
      BY <1>2, <1>8, <1>9 DEF Add
    <2>2. x1 = x2 /\ y1 = y2
      BY <1>6, <1>9
    <2> HIDE DEF x1, y1, x2, y2
    <2>3. d \in Int /\ h \in Int
      BY <1>1, <1>3
    <2>4. e \in Int /\ Same(d * e, 1)
      BY <1>5, <2>3, InverseOf
    <2> HIDE DEF e
    <2>5. h * e \in Int
      BY <2>3, <2>4
    <2>6. m \in Int /\ Same(m, h * e)
      BY <2>5, ModSame
    <2> HIDE DEF m
    <2> DEFINE a2 == l * l
               a1 == A - 2 * l * n
               q  == l * x1 + n
    <2>7. Same(h, d * l)
      <3>1. /\ a2 \in Int /\ a1 \in Int /\ q \in Int /\ Same(a2, x1 + x1 + x3)
            /\ Same(a1, x1 * x1 + x1 * x3 + x1 * x3) /\ Same(y1, q)
        BY <1>1, <1>3, <1>4, <2>2
      <3>2. h - 2 * q * l = 3 * x1 * x1 + a1 - 2 * x1 * a2
        BY <1>1, <1>3
      <3>3. /\ d * l \in Int /\ -2 * l \in Int /\ x1 + x1 + x3 \in Int
            /\ x1 * x1 + x1 * x3 + x1 * x3 \in Int /\ -2 * x1 \in Int /\ 1 \in Int
        BY <1>1, <2>3
      <3> HIDE DEF a2, a1, q, h
      <3>4. h - d * l = (-2 * x1) * (a2 - (x1 + x1 + x3))
                          + 1 * (a1 - (x1 * x1 + x1 * x3 + x1 * x3)) + (-2 * l) * (y1 - q)
        BY <1>1, <2>3, <3>1, <3>2
      <3>5. Multiples3(h, d * l, -2 * x1, a2, x1 + x1 + x3,
                       1, a1, x1 * x1 + x1 * x3 + x1 * x3, -2 * l, y1, q)
        BY <1>1, <2>3, <3>1, <3>3, <3>4 DEF Multiples3
      <3>6. QED
        BY <3>5, ByThree
    <2> HIDE DEF d, h
    <2>8. Same(m, l)
      <3>1. /\ d * l \in Int /\ d * e \in Int /\ 1 \in Int /\ -1 \in Int
            /\ h * e - l = e * (h - d * l) + l * (d * e - 1)
        BY <2>3, <2>4
      <3>2. Multiples2(h * e, l, e, h, d * l, l, d * e, 1)
        BY <2>3, <2>4, <2>5, <2>7, <3>1 DEF Multiples2
      <3>3. QED
        BY <2>6, <3>2, ByTwo DEF Same
    <2>9. QED
      BY <2>1, <2>6, <2>8, ChordIs
  <1>10. ASSUME P # Q PROVE Add(P, Q) = <<x3, BN_mod(-(l * x3 + n))>>
    <2> DEFINE d == x2 - x1
               e == BN_mod_inverse(d)
               h == y2 - y1
               m == BN_mod(h * e)
    <2>1. Add(P, Q) = Chord(P, Q, m)
      BY <1>2, <1>8, <1>10 DEF Add
    <2>2. ~Same(x1, x2)
      BY <1>7, <1>10
    <2> HIDE DEF x1, y1, x2, y2
    <2>3. d \in Int /\ h \in Int
      BY <1>1
    <2>4. ~Same(d, 0)
      <3>1. ASSUME Same(d, 0) PROVE FALSE
        <4>1. Multiple(x1, x2, -1, d, 0)
          BY <1>1, <3>1 DEF Multiple
        <4>2. QED
          BY <2>2, <4>1, ByOne
      <3>2. QED
        BY <3>1
    <2>5. e \in Int /\ Same(d * e, 1)
      BY <2>3, <2>4, InverseOf
    <2> HIDE DEF e
    <2>6. h * e \in Int
      BY <2>3, <2>5
    <2>7. m \in Int /\ Same(m, h * e)
      BY <2>6, ModSame
    <2> HIDE DEF m
    <2>8. Same(h, d * l)
      <3>1. /\ d * l \in Int /\ l * x1 + n \in Int /\ l * x2 + n \in Int
            /\ h - d * l = 1 * (y2 - (l * x2 + n)) + (-1) * (y1 - (l * x1 + n))
        BY <1>1
      <3>2. Multiples2(h, d * l, 1, y2, l * x2 + n, -1, y1, l * x1 + n)
        <4> HIDE DEF d, h
        <4>1. QED
          BY <1>1, <1>4, <2>3, <3>1 DEF Multiples2
      <3>3. QED
        BY <3>2, ByTwo
    <2> HIDE DEF d, h
    <2>9. Same(m, l)
      <3>1. /\ d * l \in Int /\ d * e \in Int /\ 1 \in Int /\ -1 \in Int
            /\ h * e - l = e * (h - d * l) + l * (d * e - 1)
        BY <2>3, <2>5
      <3>2. Multiples2(h * e, l, e, h, d * l, l, d * e, 1)
        BY <2>3, <2>5, <2>6, <2>8, <3>1 DEF Multiples2
      <3>3. QED
        BY <2>7, <3>2, ByTwo DEF Same
    <2>10. QED
      BY <2>1, <2>7, <2>9, ChordIs
  <1>11. <<x3, BN_mod(-(l * x3 + n))>> \in Curve
    <2> DEFINE q == l * x3 + n
               t == -q
               r == BN_mod(t)
    <2>1. q \in Int /\ Same(q * q, Cubic(x3))
      BY ZeroLine DEF Line
    <2> HIDE DEF q
    <2>2. t \in Int /\ t * t = q * q
      BY <2>1
    <2>3. r \in Field /\ r \in Int /\ Same(r, t)
      BY <2>2, ModIs, ModSame
    <2> HIDE DEF r, t
    <2>4. Same(r * r, t * t)
      BY <2>2, <2>3, SameTimes
    <2>5. Same(r * r, Cubic(x3))
      BY <2>1, <2>2, <2>4 DEF Same
    <2>6. <<x3, r>> \in Curve
      BY <2>3, <2>5, OnCurve
    <2>7. QED
      BY <2>6 DEF r, t, q
  <1>12. QED
    BY <1>8, <1>9, <1>10, <1>11

\* The sum of two points is a point.
LEMMA AddCurve ==
  ASSUME NEW P \in Curve \cup {Infinity}, NEW Q \in Curve \cup {Infinity}
  PROVE  Add(P, Q) \in Curve \cup {Infinity}
  <1>1. CASE P = Infinity
    BY <1>1 DEF Add
  <1>2. CASE Q = Infinity
    BY <1>2 DEF Add
  <1>3. CASE P # Infinity /\ Q # Infinity /\ P = Invert(Q)
    BY <1>3 DEF Add
  <1>4. CASE P # Infinity /\ Q # Infinity /\ P # Invert(Q)
    <2>1. P \in Curve /\ Q \in Curve
      BY <1>4
    <2>2. PICK l \in Int, n \in Int, x3 \in Field : Line(P, Q, l, n, x3)
      BY <1>4, <2>1, LineOf
    <2>3. QED
      BY <2>1, <2>2, AddOnLine
  <1>5. QED
    BY <1>1, <1>2, <1>3, <1>4

\* What is left of a point after F is taken away adds up with F to the point.
LEMMA Undo ==
  ASSUME NEW P \in Curve, NEW F \in Curve, Add(P, Invert(F)) # Infinity
  PROVE  Add(P, Invert(F)) \in Curve /\ Add(F, Add(P, Invert(F))) = P
  <1> DEFINE N == Invert(F)
             R == Add(P, N)
  <1>1. /\ N \in Curve /\ N[1] = F[1] /\ Same(N[2], -F[2]) /\ Invert(N) = F
    BY InvertIs
  <1>2. P # Infinity /\ N # Infinity
    BY <1>1, PointIs
  <1>3. P # Invert(N)
    <2>1. ASSUME P = Invert(N) PROVE FALSE
      <3>1. Add(P, N) = Infinity
        BY <1>2, <2>1 DEF Add
      <3>2. QED
        BY <3>1
    <2>2. QED
      BY <2>1
  <1>4. PICK l \in Int, n \in Int, x3 \in Field : Line(P, N, l, n, x3)
    BY <1>1, <1>3, LineOf
  <1>5. R = <<x3, BN_mod(-(l * x3 + n))>> /\ R \in Curve
    BY <1>1, <1>4, AddOnLine
  <1> HIDE DEF R, N
  <1> DEFINE x1 == P[1]
             y1 == P[2]
             x2 == F[1]
             y2 == F[2]
             k == -l
             t == -n
  <1>6. /\ x1 \in Int /\ y1 \in Int /\ x2 \in Int /\ y2 \in Int /\ x3 \in Int
        /\ x1 \in Field /\ y1 \in Field /\ P = <<x1, y1>>
    BY PointIs, FieldMod
  <1>7. N[2] \in Int
    BY <1>1, PointIs
  <1>8. /\ Same(l * l, x1 + x2 + x3)
        /\ Same(A - 2 * l * n, x1 * x2 + x1 * x3 + x2 * x3)
        /\ Same(B - n * n, -(x1 * x2 * x3))
        /\ Same(y1, l * x1 + n) /\ Same(N[2], l * x2 + n)
    BY <1>1, <1>4 DEF Line, Meets
  <1> HIDE DEF x1, y1, x2, y2
  <1>9. /\ k \in Int /\ t \in Int /\ k * k = l * l /\ 2 * k * t = 2 * l * n /\ t * t = n * n
    OBVIOUS
  <1>10. /\ x2 + x3 + x1 = x1 + x2 + x3
         /\ x2 * x3 + x2 * x1 + x3 * x1 = x1 * x2 + x1 * x3 + x2 * x3
         /\ x2 * x3 * x1 = x1 * x2 * x3
    BY <1>6
  <1>11. Meets(k, t, x2, x3, x1)
    BY <1>6, <1>8, <1>9, <1>10 DEF Meets
  <1>12. Same(y2, k * x2 + t)
    <2>1. Same(N[2], -y2)
      BY <1>1 DEF y2
    <2>2. /\ k * x2 + t \in Int /\ -y2 \in Int /\ l * x2 + n \in Int /\ -1 \in Int
          /\ y2 - (k * x2 + t) = 1 * (N[2] - (-y2)) + (-1) * (N[2] - (l * x2 + n))
      BY <1>6, <1>7
    <2> HIDE DEF k, t
    <2>3. Multiples2(y2, k * x2 + t, 1, N[2], -y2, -1, N[2], l * x2 + n)
      BY <1>6, <1>7, <1>8, <2>1, <2>2 DEF Multiples2
    <2>4. QED
      BY <2>3, ByTwo
  <1>13. R[1] = x3 /\ Same(R[2], k * x3 + t)
    <2>1. -(l * x3 + n) = k * x3 + t /\ -(l * x3 + n) \in Int
      BY <1>6
    <2>2. QED
      BY <1>5, <2>1, ModSame
  <1> HIDE DEF k, t
  <1>14. Line(F, R, k, t, x1)
    BY <1>11, <1>12, <1>13 DEF Line, x2, y2
  <1>15. Add(F, R) = <<x1, BN_mod(-(k * x1 + t))>>
    BY <1>5, <1>6, <1>9, <1>14, AddOnLine
  <1>16. BN_mod(-(k * x1 + t)) = y1
    <2>1. -(k * x1 + t) = l * x1 + n
      BY <1>6 DEF k, t
    <2>2. QED
      BY <1>6, <1>8, <2>1, FieldMod DEF Same
  <1>17. QED
    BY <1>5, <1>6, <1>15, <1>16 DEF R, N

-----------------------------------------------------------------------------
(***************************************************************************)
(* The field elements of a point.  With omega = A x / B + 1, an element    *)
(* with square s has the point as its first (y a square) or second (y none)*)
(* choice when a quadratic in s holds, whose discriminant calc_v() takes   *)
(* the root of.                                                            *)
(***************************************************************************)
\* The quadratic.
Quadratic(y, o, s) ==
  /\ Sq(y) => Same(o * (s * s - s), -1)
  /\ ~Sq(y) => Same(o * (s - 1), s * s)

\* Its solution, with the root r.
Solution(y, o, s, r) ==
  /\ Sq(y) => Same(2 * o * s, o + r)
  /\ ~Sq(y) => Same(2 * s, o + r)

\* The solution solves it just if r is a root of the discriminant.
LEMMA SolutionSolves ==
  ASSUME NEW y, NEW o \in Int, NEW s \in Int, NEW r \in Int, ~Same(o, 0),
         Solution(y, o, s, r)
  PROVE  Quadratic(y, o, s) <=> Same(r * r, o * o - 4 * o)
  <1> DEFINE k == IF Sq(y) THEN 4 * o ELSE 4
             e == IF Sq(y) THEN o * (s * s - s) ELSE s * s
             h == IF Sq(y) THEN -1 ELSE o * (s - 1)
             t == IF Sq(y) THEN 2 * o * s ELSE 2 * s
             d == o * o - 4 * o
             a == o + r
  <1>1. /\ k \in Int /\ e \in Int /\ h \in Int /\ t \in Int /\ d \in Int /\ a \in Int
        /\ r * r \in Int
    OBVIOUS
  <1>2. ~Same(k, 0)
    <2>1. ~Same(2 * 2, 0) /\ 2 * 2 = 4
      BY TwoIs, NoZeroDivisors
    <2>2. ~Same(4 * o, 0)
      BY <2>1, NoZeroDivisors
    <2>3. QED
      BY <2>1, <2>2
  <1>3. Same(t, a)
    BY DEF Solution
  <1>4. Quadratic(y, o, s) <=> Same(e, h)
    BY DEF Quadratic, Same
  <1>5. (t - o) * (t - o) - d = k * (e - h)
    <2>1. CASE Sq(y)
      <3>1. (2 * o * s - o) * (2 * o * s - o) - (o * o - 4 * o)
              = (4 * o) * (o * (s * s - s) - (-1))
        OBVIOUS
      <3>2. QED
        BY <2>1, <3>1
    <2>2. CASE ~Sq(y)
      <3>1. (2 * s - o) * (2 * s - o) - (o * o - 4 * o) = 4 * (s * s - o * (s - 1))
        OBVIOUS
      <3>2. QED
        BY <2>2, <3>1
    <2>3. QED
      BY <2>1, <2>2
  <1>6. a - o = r
    OBVIOUS
  <1>7. r * r - d = k * (e - h) + (-(t + r - o)) * (t - a)
    <2> HIDE DEF k, e, h, t, d
    <2> DEFINE m == k * (e - h)
    <2>1. m \in Int /\ (t - o) * (t - o) - d = m
      BY <1>1, <1>5
    <2> HIDE DEF m
    <2>2. r * r - d = m + (-(t + r - o)) * (t - (o + r))
      BY <1>1, <2>1
    <2>3. QED
      BY <2>2 DEF m
  <1>8. -(t + r - o) \in Int /\ k * (e - h) \in Int /\ -1 \in Int
    BY <1>1
  <1> HIDE DEF k, e, h, t, d, a
  <1>9. ASSUME Same(e, h) PROVE Same(r * r, d)
    <2>1. Multiples2(r * r, d, k, e, h, -(t + r - o), t, a)
      BY <1>1, <1>3, <1>7, <1>8, <1>9 DEF Multiples2
    <2>2. QED
      BY <2>1, ByTwo
  <1>10. ASSUME Same(r * r, d) PROVE Same(e, h)
    <2>1. /\ k * e \in Int /\ k * h \in Int /\ t + r - o \in Int
          /\ k * e - k * h = 1 * (r * r - d) + (t + r - o) * (t - a)
      BY <1>1, <1>7
    <2>2. Multiples2(k * e, k * h, 1, r * r, d, t + r - o, t, a)
      BY <1>1, <1>3, <1>10, <2>1 DEF Multiples2
    <2>3. Same(k * e, k * h)
      BY <2>2, ByTwo
    <2>4. QED
      BY <1>1, <1>2, <2>3, Cancel
  <1>11. QED
    BY <1>4, <1>9, <1>10 DEF d

\* The first choice is x just if the first quadratic holds.
LEMMA FirstChoice ==
  ASSUME NEW x \in Int, NEW z \in Int, NEW o \in Int, NEW w \in Int,
         Same(A * z * w, -(B * (w + 1))), Same(B * o, A * x + B), ~Same(w, 0)
  PROVE  Same(z, x) <=> Same(o * w, -1)
  <1> DEFINE e == A * z * w
             h == -(B * (w + 1))
             k == A * w
             p == B * o
             q == A * x + B
             n == o * w
  <1>1. A \in Int /\ B \in Int /\ ~Same(A, 0) /\ ~Same(B, 0)
    BY CurveIs
  <1>2. /\ e \in Int /\ h \in Int /\ k \in Int /\ p \in Int /\ q \in Int /\ n \in Int
        /\ B * n \in Int /\ B * (-1) \in Int /\ -k \in Int /\ -B \in Int
        /\ k * z \in Int /\ k * x \in Int /\ -1 \in Int /\ 1 \in Int
    BY <1>1
  <1>3. ~Same(k, 0)
    BY <1>1, NoZeroDivisors
  <1>4. B * n - B * (-1) = w * (p - q) + (-k) * (z - x) + 1 * (e - h)
    BY <1>1
  <1>5. k * z - k * x = w * (p - q) + 1 * (e - h) + (-B) * (n - (-1))
    BY <1>1
  <1>6. Same(e, h) /\ Same(p, q)
    OBVIOUS
  <1> HIDE DEF e, h, k, p, q, n
  <1>7. ASSUME Same(z, x) PROVE Same(n, -1)
    <2>1. Multiples3(B * n, B * (-1), w, p, q, -k, z, x, 1, e, h)
      BY <1>1, <1>2, <1>4, <1>6, <1>7 DEF Multiples3
    <2>2. Same(B * n, B * (-1))
      BY <2>1, ByThree
    <2>3. QED
      BY <1>1, <1>2, <2>2, Cancel
  <1>8. ASSUME Same(n, -1) PROVE Same(z, x)
    <2>1. Multiples3(k * z, k * x, w, p, q, 1, e, h, -B, n, -1)
      BY <1>1, <1>2, <1>5, <1>6, <1>8 DEF Multiples3
    <2>2. Same(k * z, k * x)
      BY <2>1, ByThree
    <2>3. QED
      BY <1>2, <1>3, <2>2, Cancel
  <1>9. QED
    BY <1>7, <1>8 DEF n

\* The second choice is x just if the second quadratic holds.
LEMMA SecondChoice ==
  ASSUME NEW x \in Int, NEW z \in Int, NEW o \in Int, NEW s \in Int, NEW w \in Int,
         w = s * s - s, Same(A * z * w, -(B * (w + 1))), Same(B * o, A * x + B),
         ~Same(s - 1, 0)
  PROVE  Same(-(s * z), x) <=> Same(o * (s - 1), s * s)
  <1> DEFINE e == A * z * w
             h == -(B * (w + 1))
             k == A * (s - 1)
             p == B * o
             q == A * x + B
             n == o * (s - 1)
             t == s * s
             y == -(s * z)
  <1>1. A \in Int /\ B \in Int /\ ~Same(A, 0) /\ ~Same(B, 0) /\ s - 1 \in Int
    BY CurveIs
  <1>2. /\ e \in Int /\ h \in Int /\ k \in Int /\ p \in Int /\ q \in Int /\ n \in Int
        /\ t \in Int /\ y \in Int
        /\ B * n \in Int /\ B * t \in Int /\ -k \in Int /\ -B \in Int
        /\ k * y \in Int /\ k * x \in Int /\ -1 \in Int
    BY <1>1
  <1>3. ~Same(k, 0)
    BY <1>1, NoZeroDivisors
  <1>4. B * n - B * t = (s - 1) * (p - q) + (-k) * (y - x) + (-1) * (e - h)
    BY <1>1
  <1>5. Same(e, h) /\ Same(p, q)
    OBVIOUS
  <1> HIDE DEF e, h, k, p, q, n, t, y
  <1>6. k * y - k * x = (s - 1) * (p - q) + (-1) * (e - h) + (-B) * (n - t)
    <2> DEFINE m == (s - 1) * (p - q)
    <2>1. m \in Int /\ B * n - B * t = m + (-k) * (y - x) + (-1) * (e - h)
      BY <1>1, <1>2, <1>4
    <2> HIDE DEF m
    <2>2. k * y - k * x = m + (-1) * (e - h) + (-B) * (n - t)
      BY <1>1, <1>2, <2>1
    <2>3. QED
      BY <2>2 DEF m
  <1>7. ASSUME Same(y, x) PROVE Same(n, t)
    <2>1. Multiples3(B * n, B * t, s - 1, p, q, -k, y, x, -1, e, h)
      BY <1>1, <1>2, <1>4, <1>5, <1>7 DEF Multiples3
    <2>2. Same(B * n, B * t)
      BY <2>1, ByThree
    <2>3. QED
      BY <1>1, <1>2, <2>2, Cancel
  <1>8. ASSUME Same(n, t) PROVE Same(y, x)
    <2>1. Multiples3(k * y, k * x, s - 1, p, q, -1, e, h, -B, n, t)
      BY <1>1, <1>2, <1>5, <1>6, <1>8 DEF Multiples3
    <2>2. Same(k * y, k * x)
      BY <2>1, ByThree
    <2>3. QED
      BY <1>2, <1>3, <2>2, Cancel
  <1>9. QED
    BY <1>7, <1>8 DEF n, t, y

\* The square of an exceptional element solves neither quadratic, and 0 does not.
LEMMA NotSolved ==
  ASSUME NEW y, NEW o \in Int, NEW s \in Int, ~Same(o, 0), Quadratic(y, o, s)
  PROVE  ~Same(s * s - s, 0) /\ ~Same(s, 0) /\ ~Same(s - 1, 0)
  <1> DEFINE w == s * s - s
             d == s - 1
             t == s * s
  <1>1. w \in Int /\ d \in Int /\ t \in Int /\ s * d = w /\ -o \in Int
    OBVIOUS
  <1>2. t = w + s /\ t = 1 + (s + 1) * d /\ d = s - 1
    OBVIOUS
  <1>3. /\ Sq(y) => Same(o * w, -1)
        /\ ~Sq(y) => Same(o * d, t)
    BY DEF Quadratic
  <1> HIDE DEF w, d, t
  <1>4. CASE Sq(y)
    <2>1. ASSUME Same(w, 0) PROVE FALSE
      <3>1. o * w \in Int /\ 1 - 0 = (-o) * (w - 0) + 1 * (o * w - (-1))
        BY <1>1
      <3>2. Multiples2(1, 0, -o, w, 0, 1, o * w, -1)
        BY <1>1, <1>3, <1>4, <2>1, <3>1 DEF Multiples2
      <3>3. QED
        BY <3>2, ByTwo, ZeroOne
    <2>2. ASSUME Same(s, 0) \/ Same(d, 0) PROVE Same(w, 0)
      <3>1. CASE Same(s, 0)
        <4>1. Multiple(w, 0, d, s, 0)
          BY <1>1, <3>1 DEF Multiple
        <4>2. QED
          BY <4>1, ByOne
      <3>2. CASE Same(d, 0)
        <4>1. Multiple(w, 0, s, d, 0)
          BY <1>1, <3>2 DEF Multiple
        <4>2. QED
          BY <4>1, ByOne
      <3>3. QED
        BY <2>2, <3>1, <3>2
    <2>3. QED
      BY <2>1, <2>2 DEF w, d
  <1>5. CASE ~Sq(y)
    <2>1. ASSUME Same(s, 0) PROVE FALSE
      <3>1. o * d \in Int /\ o - 0 = (-1) * (o * d - t) + (o - s) * (s - 0)
        BY <1>1, <1>2
      <3>2. o - s \in Int
        OBVIOUS
      <3>3. Multiples2(o, 0, -1, o * d, t, o - s, s, 0)
        BY <1>1, <1>3, <1>5, <2>1, <3>1, <3>2 DEF Multiples2
      <3>4. QED
        BY <3>3, ByTwo
    <2>2. ASSUME Same(d, 0) PROVE FALSE
      <3>1. /\ o * d \in Int /\ o - s - 1 \in Int
            /\ 1 - 0 = (-1) * (o * d - t) + (o - s - 1) * (d - 0)
        BY <1>1, <1>2
      <3>2. Multiples2(1, 0, -1, o * d, t, o - s - 1, d, 0)
        BY <1>1, <1>3, <1>5, <2>2, <3>1 DEF Multiples2
      <3>3. QED
        BY <3>2, ByTwo, ZeroOne
    <2>3. ~Same(s * d, 0)
      BY <1>1, <2>1, <2>2, NoZeroDivisors
    <2>4. QED
      BY <1>1, <2>1, <2>2, <2>3 DEF w, d
  <1>6. QED
    BY <1>4, <1>5

\* The first choice is taken when y is a square, the second when it is none.
LEMMA BranchIs ==
  ASSUME NEW v \in Field, v \notin Exceptional, NEW Q \in Curve
  PROVE  f(v) = Q <=> \/ Sq(Q[2]) /\ Same(X_0(v), Q[1])
                      \/ ~Sq(Q[2]) /\ Same(X_1(v), Q[1])
  <1> DEFINE x == Q[1]
             y == Q[2]
             s == Sigma(v)
             w == Divisor(v)
             z == X_0(v)
             t == X_1(v)
             c == Cubic(z)
             d == Cubic(t)
  <1>1. /\ Q = <<x, y>> /\ x \in Field /\ y \in Field /\ x \in Int /\ y \in Int
        /\ Same(y * y, Cubic(x)) /\ ~Same(y, 0)
    BY PointIs
  <1>2. /\ v \in Int /\ s \in Int /\ w \in Int /\ Same(s, v * v)
        /\ z \in Field /\ z \in Int /\ t \in Field /\ t \in Int
        /\ Same(A * z * w, -(B * (w + 1))) /\ Same(t, -(s * z))
    BY FirstIs
  <1>3. w = s * s - s
    BY DEF Divisor
  <1>4. /\ Sq(c) => f(v) = <<z, Sqrt(g(z))>>
        /\ ~Sq(c) => f(v) = <<t, Neg(Sqrt(g(t)))>> /\ Sq(d)
    BY FIs
  <1> HIDE DEF x, y, s, w, z, t
  <1>5. c \in Int /\ d \in Int /\ ~Same(d, 0)
    BY <1>2, NoRoot
  <1>6. Same(d, -(s * s * s) * c)
    BY <1>2, <1>3, CubicRelation
  <1>7. Sq(c) => ~Sq(d)
    <2> HIDE DEF c, d
    <2>1. QED
      BY <1>2, <1>5, <1>6, OneBranch
  <1>8. g(x) \in Int /\ Same(g(x), Cubic(x)) /\ Cubic(x) \in Int
    BY <1>1, GIs
  <1>9. Same(y * y, g(x))
    BY <1>1, <1>8 DEF Same
  <1>10. Sq(Cubic(x))
    BY <1>1, <1>8, SqIff
  <1>11. ASSUME Sq(y) PROVE Sqrt(g(x)) = y
    BY <1>1, <1>8, <1>9, <1>11, SqrtOnly
  <1>12. ASSUME ~Sq(y) PROVE Neg(Sqrt(g(x))) = y
    <2> DEFINE n == Neg(y)
    <2>1. n \in Field /\ n \in Int /\ Same(n, -y) /\ Neg(n) = y /\ -y \in Int
      BY <1>1, NegIs
    <2> HIDE DEF n
    <2>2. Sq(n)
      BY <1>1, <1>12, <2>1, OneOf, SqSame
    <2>3. Same(n * n, (-y) * (-y)) /\ (-y) * (-y) = y * y
      BY <1>1, <2>1, SameTimes
    <2>4. Same(n * n, g(x))
      BY <1>9, <2>3 DEF Same
    <2>5. QED
      BY <1>8, <2>1, <2>2, <2>4, SqrtOnly
  <1>13. ASSUME Sq(y), Neg(Sqrt(g(x))) = y PROVE FALSE
    <2> DEFINE n == Sqrt(g(x))
    <2>1. n = y
      BY <1>11, <1>13
    <2>2. Neg(y) = y
      BY <1>13, <2>1
    <2>3. Same(y, -y) /\ -y \in Int
      BY <1>1, <2>2, NegIs
    <2>4. Multiple(2 * y, 0, 1, y, -y)
      BY <1>1, <2>3 DEF Multiple
    <2>5. ~Same(2 * y, 0)
      BY <1>1, TwoIs, NoZeroDivisors
    <2>6. QED
      BY <2>4, <2>5, ByOne
  <1>14. Sq(Sqrt(g(x)))
    BY <1>1, <1>10, RootPoints
  <1>15. ASSUME f(v) = Q PROVE (Sq(y) /\ Same(z, x)) \/ (~Sq(y) /\ Same(t, x))
    <2>1. CASE Sq(c)
      <3>1. z = x /\ y = Sqrt(g(x))
        BY <1>1, <1>4, <1>15, <2>1
      <3>2. Same(z, x) /\ Sq(y)
        BY <1>14, <3>1 DEF Same
      <3>3. QED
        BY <3>2
    <2>2. CASE ~Sq(c)
      <3>1. t = x /\ Neg(Sqrt(g(x))) = y
        BY <1>1, <1>4, <1>15, <2>2
      <3>2. QED
        BY <1>13, <3>1 DEF Same
    <2>3. QED
      BY <2>1, <2>2
  <1>16. ASSUME Sq(y), Same(z, x) PROVE f(v) = Q
    <2>1. z = x
      BY <1>1, <1>2, <1>16, FieldSame
    <2>2. Sq(c)
      BY <1>10, <2>1
    <2>3. QED
      BY <1>1, <1>4, <1>11, <1>16, <2>1, <2>2
  <1>17. ASSUME ~Sq(y), Same(t, x) PROVE f(v) = Q
    <2>1. t = x
      BY <1>1, <1>2, <1>17, FieldSame
    <2>2. ~Sq(c)
      BY <1>7, <1>10, <2>1
    <2>3. QED
      BY <1>1, <1>4, <1>12, <1>17, <2>1, <2>2
  <1>18. QED
    BY <1>15, <1>16, <1>17 DEF x, y, z, t

\* An element stands for a point just if its square solves the quadratic.
LEMMA Preimage ==
  ASSUME NEW Q \in Curve, NEW v \in Field, NEW o \in Int, ~Same(o, 0),
         Same(B * o, A * Q[1] + B)
  PROVE  f(v) = Q <=> Quadratic(Q[2], o, Sigma(v))
  <1> DEFINE x == Q[1]
             y == Q[2]
             s == Sigma(v)
             w == Divisor(v)
             z == X_0(v)
             t == X_1(v)
  <1>1. x \in Int /\ Q # Infinity
    BY PointIs
  <1>2. v \in Int /\ v * v \in Int
    BY FieldMod
  <1>3. s \in Int /\ w = s * s - s
    BY <1>2, ModSame DEF Sigma, Divisor
  <1>4. CASE v \in Exceptional
    <2>1. f(v) # Q
      BY <1>1, <1>4, FIs
    <2>2. Same(w, 0)
      BY <1>4, NotExceptional DEF Divisor, Sigma
    <2> HIDE DEF w, s
    <2>3. ~Quadratic(y, o, s)
      BY <1>3, <2>2, NotSolved
    <2>4. QED
      BY <2>1, <2>3 DEF s
  <1>5. CASE v \notin Exceptional
    <2>1. /\ w \in Int /\ ~Same(w, 0) /\ z \in Int /\ t \in Int
          /\ Same(A * z * w, -(B * (w + 1))) /\ Same(t, -(s * z))
      BY <1>5, FirstIs
    <2>2. (f(v) = Q) <=> ((Sq(y) /\ Same(z, x)) \/ (~Sq(y) /\ Same(t, x)))
      BY <1>5, BranchIs
    <2>3. Same(B * o, A * x + B)
      OBVIOUS
    <2> HIDE DEF x, y, s, w, z, t
    <2>4. s - 1 \in Int /\ ~Same(s - 1, 0)
      <3>1. ASSUME Same(s - 1, 0) PROVE FALSE
        <4>1. Multiple(w, 0, s, s - 1, 0)
          BY <1>3, <2>1, <3>1 DEF Multiple
        <4>2. QED
          BY <2>1, <4>1, ByOne
      <3>2. QED
        BY <1>3, <3>1
    <2>5. Same(z, x) <=> Same(o * w, -1)
      BY <1>1, <2>1, <2>3, FirstChoice
    <2>6. Same(-(s * z), x) <=> Same(o * (s - 1), s * s)
      BY <1>1, <1>3, <2>1, <2>3, <2>4, SecondChoice
    <2>7. Same(t, x) <=> Same(-(s * z), x)
      BY <2>1 DEF Same
    <2>8. f(v) = Q <=> Quadratic(y, o, s)
      BY <1>3, <2>2, <2>5, <2>6, <2>7 DEF Quadratic
    <2>9. QED
      BY <2>8 DEF y, s
  <1>6. QED
    BY <1>4, <1>5

-----------------------------------------------------------------------------
(***************************************************************************)
(* calc_v().                                                               *)
(***************************************************************************)
\* Its local variables.
Omega(Q) == BN_mod(BN_mod(A * BN_mod_inverse(B)) * Q[1] + 1)
Inner(Q) == Omega(Q) * Omega(Q) - 4 * Omega(Q)
Signed(Q, j) == IF j \in {0, 1} THEN Sqrt(Inner(Q)) ELSE Neg(Sqrt(Inner(Q)))
Factor(Q) == IF Sq(Q[2]) THEN BN_mod_inverse(2 * Omega(Q)) ELSE BN_mod_inverse(2)
Value(Q, j) == BN_mod(Omega(Q) + Signed(Q, j)) * Factor(Q)

\* omega is not 0, as no point has the x of the pole.
LEMMA OmegaIs ==
  ASSUME NEW Q \in Curve
  PROVE  /\ Omega(Q) \in Int /\ Inner(Q) \in Int /\ ~Same(Omega(Q), 0)
         /\ Same(B * Omega(Q), A * Q[1] + B)
  <1> DEFINE x == Q[1]
             b == BN_mod_inverse(B)
             m == BN_mod(A * b)
             o == Omega(Q)
             k == A * x + B
  <1>1. A \in Int /\ B \in Int /\ ~Same(B, 0)
    BY CurveIs
  <1>2. x \in Int
    BY PointIs
  <1>3. b \in Int /\ Same(B * b, 1)
    BY <1>1, InverseOf
  <1>4. o = BN_mod(m * x + 1)
    BY DEF Omega
  <1>5. BN_mod(k) # 0
    BY PoleAssumption
  <1> HIDE DEF b, x
  <1>6. A * b \in Int
    BY <1>1, <1>3
  <1>7. m \in Int /\ Same(m, A * b)
    BY <1>6, ModSame
  <1> HIDE DEF m
  <1>8. m * x + 1 \in Int
    BY <1>2, <1>7
  <1>9. o \in Int /\ Same(o, m * x + 1)
    BY <1>4, <1>8, ModSame
  <1> HIDE DEF o
  <1>10. Same(B * o, k)
    <2>1. B * o - k = B * (o - (m * x + 1)) + (B * x) * (m - A * b) + (A * x) * (B * b - 1)
      BY <1>1, <1>2, <1>3, <1>7, <1>9
    <2>2. B * o \in Int /\ k \in Int /\ B * x \in Int /\ A * x \in Int /\ B * b \in Int
      BY <1>1, <1>2, <1>3, <1>9
    <2> HIDE DEF k
    <2>3. Multiples3(B * o, k, B, o, m * x + 1, B * x, m, A * b, A * x, B * b, 1)
      BY <1>1, <1>3, <1>6, <1>7, <1>8, <1>9, <2>1, <2>2 DEF Multiples3
    <2>4. QED
      BY <2>3, ByThree
  <1>11. ~Same(o, 0)
    <2>1. ASSUME Same(o, 0) PROVE FALSE
      <3>1. Multiple(B * o, 0, B, o, 0)
        BY <1>1, <1>9, <2>1 DEF Multiple
      <3>2. Same(B * o, 0)
        BY <3>1, ByOne
      <3>3. QED
        BY <1>5, <1>10, <3>2, ZeroOne DEF Same
    <2>2. QED
      BY <2>1
  <1>12. o * o - 4 * o \in Int
    BY <1>9
  <1>13. QED
    BY <1>9, <1>10, <1>11, <1>12 DEF o, x, Inner

\* omega is not 4 either, so that the inner root is not 0.
LEMMA InnerIs ==
  ASSUME NEW Q \in Curve
  PROVE  ~Same(Inner(Q), 0)
  <1> DEFINE x == Q[1]
             o == Omega(Q)
             k == A * x + B
  <1>1. A \in Int /\ B \in Int /\ x \in Int
    BY CurveIs, PointIs
  <1>2. o \in Int /\ ~Same(o, 0) /\ Same(B * o, k)
    BY OmegaIs
  <1>3. BN_mod(A * x - 3 * B) # 0
    BY BranchAssumption
  <1> HIDE DEF x, o
  <1>4. ~Same(o - 4, 0) /\ o - 4 \in Int
    <2>1. ASSUME Same(o - 4, 0) PROVE FALSE
      <3>1. /\ A * x - 3 * B \in Int /\ B * o \in Int /\ k \in Int /\ o - 4 \in Int
            /\ (A * x - 3 * B) - 0 = (-1) * (B * o - k) + B * ((o - 4) - 0)
        BY <1>1, <1>2
      <3> HIDE DEF k
      <3>2. Multiples2(A * x - 3 * B, 0, -1, B * o, k, B, o - 4, 0)
        BY <1>1, <1>2, <2>1, <3>1 DEF Multiples2
      <3>3. Same(A * x - 3 * B, 0)
        BY <3>2, ByTwo
      <3>4. QED
        BY <1>3, <3>3, ZeroOne DEF Same
    <2>2. QED
      BY <1>2, <2>1
  <1>5. o * (o - 4) = o * o - 4 * o
    BY <1>2
  <1>6. ~Same(o * o - 4 * o, 0)
    BY <1>2, <1>4, <1>5, NoZeroDivisors
  <1>7. QED
    BY <1>6 DEF o, Inner

\* The signed root is a root, and its value the solution of the quadratic.
LEMMA ValueIs ==
  ASSUME NEW Q \in Curve, NEW j, Sq(Inner(Q))
  PROVE  /\ Signed(Q, j) \in Int /\ Value(Q, j) \in Int
         /\ Same(Signed(Q, j) * Signed(Q, j), Inner(Q))
         /\ Same(Signed(Q, j), IF j \in {0, 1} THEN Sqrt(Inner(Q)) ELSE -Sqrt(Inner(Q)))
         /\ \A s \in Int : Same(s, Value(Q, j))
                             <=> Solution(Q[2], Omega(Q), s, Signed(Q, j))
  <1> DEFINE o == Omega(Q)
             d == Inner(Q)
             r == Sqrt(d)
             n == Neg(r)
             t == Signed(Q, j)
             k == IF Sq(Q[2]) THEN 2 * o ELSE 2
             e == Factor(Q)
             m == BN_mod(o + t)
  <1>1. o \in Int /\ d \in Int /\ ~Same(o, 0)
    BY OmegaIs
  <1>2. r \in Field /\ r \in Int /\ Same(r * r, d)
    BY <1>1, SqrtIs
  <1>3. t = IF j \in {0, 1} THEN r ELSE n
    BY DEF Signed
  <1>4. e = BN_mod_inverse(k)
    BY DEF Factor
  <1>5. Value(Q, j) = m * e
    BY DEF Value
  <1>6. \A s : Solution(Q[2], o, s, t) <=> Same(k * s, o + t)
    BY DEF Solution
  <1> HIDE DEF o, d, r, t, e
  <1>7. n \in Field /\ n \in Int /\ Same(n, -r) /\ -r \in Int
    BY <1>2, NegIs
  <1>8. t \in Int /\ Same(t, IF j \in {0, 1} THEN r ELSE -r)
    <2>1. CASE j \in {0, 1}
      BY <1>2, <1>3, <2>1 DEF Same
    <2>2. CASE j \notin {0, 1}
      BY <1>3, <1>7, <2>2
    <2>3. QED
      BY <2>1, <2>2
  <1>9. Same(t * t, d)
    <2>1. Same(n * n, (-r) * (-r)) /\ (-r) * (-r) = r * r
      BY <1>2, <1>7, SameTimes
    <2>2. Same(n * n, d)
      BY <1>2, <2>1 DEF Same
    <2>3. QED
      BY <1>2, <1>3, <2>2
  <1>10. k \in Int /\ ~Same(k, 0)
    <2>1. ~Same(2 * o, 0) /\ 2 * o \in Int
      BY <1>1, TwoIs, NoZeroDivisors
    <2>2. QED
      BY <2>1, TwoIs
  <1> HIDE DEF k
  <1>11. e \in Int /\ Same(k * e, 1)
    BY <1>4, <1>10, InverseOf
  <1>12. o + t \in Int
    BY <1>1, <1>8
  <1>13. m \in Int /\ Same(m, o + t)
    BY <1>12, ModSame
  <1> HIDE DEF m
  <1>14. m * e \in Int
    BY <1>11, <1>13
  <1>15. Same(k * (m * e), o + t)
    <2>1. /\ k * (m * e) \in Int /\ k * e \in Int /\ 1 \in Int
          /\ k * (m * e) - (o + t) = m * (k * e - 1) + 1 * (m - (o + t))
      BY <1>10, <1>11, <1>12, <1>13
    <2>2. Multiples2(k * (m * e), o + t, m, k * e, 1, 1, m, o + t)
      BY <1>11, <1>12, <1>13, <2>1 DEF Multiples2
    <2>3. QED
      BY <2>2, ByTwo
  <1>16. ASSUME NEW s \in Int PROVE Same(s, m * e) <=> Same(k * s, o + t)
    <2>1. ASSUME Same(s, m * e) PROVE Same(k * s, o + t)
      <3>1. Same(k * s, k * (m * e))
        <4>1. Same(k, k)
          BY DEF Same
        <4>2. QED
          BY <1>10, <1>14, <2>1, <4>1, SameTimes
      <3>2. QED
        BY <1>15, <3>1 DEF Same
    <2>2. ASSUME Same(k * s, o + t) PROVE Same(s, m * e)
      <3>1. Same(k * s, k * (m * e))
        BY <1>15, <2>2 DEF Same
      <3>2. QED
        BY <1>10, <1>14, <3>1, Cancel
    <2>3. QED
      BY <2>1, <2>2
  <1>17. \A s \in Int : Same(s, Value(Q, j)) <=> Solution(Q[2], o, s, t)
    BY <1>5, <1>6, <1>16
  <1>18. QED
    BY <1>5, <1>8, <1>9, <1>14, <1>17 DEF o, d, r, t

\* What calc_v() gives.
LEMMA CalcIs ==
  ASSUME NEW Q \in Curve, NEW j
  PROVE  /\ ~Sq(Inner(Q)) => calc_v(Q, j) = NULL
         /\ Sq(Inner(Q)) /\ ~Sq(Value(Q, j)) => calc_v(Q, j) = NULL
         /\ Sq(Inner(Q)) /\ Sq(Value(Q, j)) =>
              calc_v(Q, j) = IF j \in {0, 2} THEN Sqrt(Value(Q, j)) ELSE Neg(Sqrt(Value(Q, j)))
  <1>1. Inner(Q) \in Int /\ Q[2] \in Int
    BY OmegaIs, PointIs
  <1>2. /\ Sq(Q[2]) <=> Sqrt(Q[2]) # NULL
        /\ Sq(Inner(Q)) <=> Sqrt(Inner(Q)) # NULL
    BY <1>1, SqrtIs
  <1>3. calc_v(Q, j) = IF Sqrt(Inner(Q)) = NULL \/ Sqrt(Value(Q, j)) = NULL THEN NULL
                       ELSE IF j \in {0, 2} THEN Sqrt(Value(Q, j)) ELSE Neg(Sqrt(Value(Q, j)))
    <2>1. Factor(Q) = IF Sqrt(Q[2]) # NULL THEN BN_mod_inverse(2 * Omega(Q))
                      ELSE BN_mod_inverse(2)
      BY <1>2 DEF Factor
    <2>2. QED
      BY <2>1 DEF calc_v, Value, Signed, Inner, Omega
  <1>4. ASSUME Sq(Inner(Q)) PROVE Sq(Value(Q, j)) <=> Sqrt(Value(Q, j)) # NULL
    <2>1. Value(Q, j) \in Int
      BY <1>4, ValueIs
    <2>2. QED
      BY <2>1, SqrtIs
  <1>5. QED
    BY <1>2, <1>3, <1>4

\* An element that calc_v() gives, its root and its square.
LEMMA CalcRoot ==
  ASSUME NEW Q \in Curve, NEW j, calc_v(Q, j) # NULL
  PROVE  /\ Sq(Inner(Q)) /\ Sq(Value(Q, j))
         /\ calc_v(Q, j) \in Field /\ calc_v(Q, j) \in Int
         /\ Sqrt(Value(Q, j)) \in Field /\ Sqrt(Value(Q, j)) \in Int
         /\ Same(calc_v(Q, j), IF j \in {0, 2} THEN Sqrt(Value(Q, j)) ELSE -Sqrt(Value(Q, j)))
         /\ Sigma(calc_v(Q, j)) \in Int /\ Same(Sigma(calc_v(Q, j)), Value(Q, j))
  <1> DEFINE c == Value(Q, j)
             r == Sqrt(c)
             n == Neg(r)
             v == calc_v(Q, j)
  <1>1. Sq(Inner(Q)) /\ Sq(c) /\ v = IF j \in {0, 2} THEN r ELSE n
    BY CalcIs
  <1>2. c \in Int
    BY <1>1, ValueIs
  <1>3. r \in Field /\ r \in Int /\ Same(r * r, c)
    BY <1>1, <1>2, SqrtIs
  <1> HIDE DEF c, r, v
  <1>4. n \in Field /\ n \in Int /\ Same(n, -r) /\ -r \in Int
    BY <1>3, NegIs
  <1>5. v \in Field /\ v \in Int /\ Same(v, IF j \in {0, 2} THEN r ELSE -r)
    <2>1. CASE j \in {0, 2}
      BY <1>1, <1>3, <2>1 DEF Same
    <2>2. CASE j \notin {0, 2}
      BY <1>1, <1>4, <2>2
    <2>3. QED
      BY <2>1, <2>2
  <1>6. Same(v * v, c)
    <2>1. Same(n * n, (-r) * (-r)) /\ (-r) * (-r) = r * r
      BY <1>3, <1>4, SameTimes
    <2>2. Same(n * n, c)
      BY <1>3, <2>1 DEF Same
    <2>3. QED
      BY <1>1, <1>3, <2>2
  <1>7. v * v \in Int
    BY <1>5
  <1>8. Sigma(v) \in Int /\ Same(Sigma(v), v * v)
    BY <1>7, ModSame DEF Sigma
  <1>9. Same(Sigma(v), c)
    BY <1>6, <1>8 DEF Same
  <1>10. QED
    BY <1>1, <1>3, <1>5, <1>8, <1>9 DEF c, r, v

\* Its square is the solution, and it stands for the point.
LEMMA CalcSound ==
  ASSUME NEW Q \in Curve, NEW j, calc_v(Q, j) # NULL
  PROVE  /\ calc_v(Q, j) \in Field /\ f(calc_v(Q, j)) = Q
         /\ Solution(Q[2], Omega(Q), Sigma(calc_v(Q, j)), Signed(Q, j))
         /\ ~Same(Sigma(calc_v(Q, j)), 0)
  <1> DEFINE v == calc_v(Q, j)
             o == Omega(Q)
             s == Sigma(v)
             t == Signed(Q, j)
  <1>1. Sq(Inner(Q)) /\ v \in Field /\ s \in Int /\ Same(s, Value(Q, j))
    BY CalcRoot
  <1>2. o \in Int /\ ~Same(o, 0) /\ Same(B * o, A * Q[1] + B)
    BY OmegaIs
  <1>3. t \in Int /\ Same(t * t, o * o - 4 * o)
    BY <1>1, ValueIs DEF Inner
  <1>4. Solution(Q[2], o, s, t)
    BY <1>1, ValueIs
  <1> HIDE DEF v, o, s, t
  <1>5. Quadratic(Q[2], o, s)
    BY <1>1, <1>2, <1>3, <1>4, SolutionSolves
  <1>6. f(v) = Q
    BY <1>1, <1>2, <1>5, Preimage DEF s
  <1>7. ~Same(s, 0)
    BY <1>1, <1>2, <1>5, NotSolved
  <1>8. QED
    BY <1>1, <1>4, <1>6, <1>7 DEF v, o, s, t

\* Every element that stands for the point is given for some signs.
LEMMA CalcComplete ==
  ASSUME NEW Q \in Curve, NEW v \in Field, f(v) = Q
  PROVE  \E j \in 0..3 : calc_v(Q, j) = v
  <1> DEFINE o == Omega(Q)
             d == Inner(Q)
             s == Sigma(v)
             y == Q[2]
             t == IF Sq(y) THEN 2 * o * s - o ELSE 2 * s - o
             r == Sqrt(d)
             n == Neg(v)
  <1>1. v \in Int /\ v * v \in Int
    BY FieldMod
  <1>2. s \in Int /\ Same(v * v, s)
    BY <1>1, ModSame DEF Sigma, Same
  <1>3. /\ o \in Int /\ ~Same(o, 0) /\ Same(B * o, A * Q[1] + B)
        /\ d \in Int /\ d = o * o - 4 * o
    BY OmegaIs DEF Inner
  <1>4. Quadratic(y, o, s)
    BY <1>3, Preimage
  <1> HIDE DEF o, d, s, y
  <1>5. t \in Int /\ o + t = IF Sq(y) THEN 2 * o * s ELSE 2 * s
    BY <1>2, <1>3
  <1>6. Solution(y, o, s, t)
    BY <1>5 DEF Solution, Same
  <1> HIDE DEF t
  <1>7. Same(t * t, d)
    BY <1>2, <1>3, <1>4, <1>5, <1>6, SolutionSolves
  <1>8. Sq(d)
    BY <1>3, <1>5, <1>7, SqIff
  <1>9. r \in Int /\ Same(r * r, d)
    BY <1>3, <1>8, SqrtIs
  <1> HIDE DEF r
  <1>10. Same(t, r) \/ Same(t, -r)
    <2>1. Same(t * t, r * r)
      BY <1>7, <1>9 DEF Same
    <2>2. QED
      BY <1>5, <1>9, <2>1, TwoRoots
  <1>11. PICK b \in {0, 2} : Same(t, IF b = 0 THEN r ELSE -r)
    BY <1>10
  <1>12. ASSUME NEW j \in {b, b + 1} PROVE Value(Q, j) \in Int /\ Same(s, Value(Q, j))
    <2> DEFINE z == Signed(Q, j)
    <2>1. j \in {0, 1} <=> b = 0
      BY <1>11, <1>12
    <2>2. z \in Int /\ Value(Q, j) \in Int /\ Same(z, IF j \in {0, 1} THEN r ELSE -r)
      BY <1>8, ValueIs DEF r, d
    <2>3. Same(s, Value(Q, j)) <=> Solution(y, o, s, z)
      BY <1>2, <1>8, ValueIs DEF y, o, d
    <2> HIDE DEF z
    <2>4. Same(z, t)
      BY <1>11, <2>1, <2>2 DEF Same
    <2>5. Same(o + t, o + z)
      <3>1. Multiple(o + t, o + z, -1, z, t)
        BY <1>3, <1>5, <2>2, <2>4 DEF Multiple
      <3>2. QED
        BY <3>1, ByOne
    <2>6. Solution(y, o, s, z)
      BY <1>6, <2>5 DEF Solution, Same
    <2>7. QED
      BY <2>2, <2>3, <2>6
  <1>13. CASE Sq(v)
    <2> DEFINE c == Value(Q, b)
    <2>1. c \in Int /\ Same(v * v, c)
      BY <1>2, <1>12 DEF Same
    <2>2. Sqrt(c) = v /\ Sq(c)
      BY <1>13, <2>1, SqrtOnly
    <2>3. b \in {0, 2} /\ b \in 0..3
      BY <1>11
    <2>4. calc_v(Q, b) = v
      BY <1>8, <2>2, <2>3, CalcIs DEF d
    <2>5. QED
      BY <2>3, <2>4, Zenon
  <1>14. CASE ~Sq(v)
    <2> DEFINE c == Value(Q, b + 1)
    <2>1. n \in Field /\ n \in Int /\ Same(n, -v) /\ Neg(n) = v /\ -v \in Int
      BY NegIs, <1>1
    <2> HIDE DEF n
    <2>2. Sq(n)
      BY <1>1, <1>14, <2>1, OneOf, SqSame
    <2>3. Same(n * n, (-v) * (-v)) /\ (-v) * (-v) = v * v
      BY <1>1, <2>1, SameTimes
    <2>4. c \in Int /\ Same(n * n, c)
      BY <1>2, <1>12, <2>3 DEF Same
    <2>5. Sqrt(c) = n /\ Sq(c)
      BY <2>1, <2>2, <2>4, SqrtOnly
    <2>6. b + 1 \notin {0, 2} /\ b + 1 \in 0..3
      BY <1>11
    <2>7. calc_v(Q, b + 1) = v
      BY <1>8, <2>1, <2>5, <2>6, CalcIs DEF d
    <2>8. QED
      BY <2>6, <2>7, Zenon
  <1>15. QED
    BY <1>13, <1>14

\* Different signs give different elements.
LEMMA CalcDistinct ==
  ASSUME NEW Q \in Curve, NEW j \in 0..3, NEW k \in 0..3,
         calc_v(Q, j) = calc_v(Q, k), calc_v(Q, j) # NULL
  PROVE  j = k
  <1> DEFINE v == calc_v(Q, j)
             s == Sigma(v)
             o == Omega(Q)
             d == Inner(Q)
             r == Sqrt(d)
             t1 == Signed(Q, j)
             t2 == Signed(Q, k)
  <1>1. Sq(d) /\ d \in Int /\ ~Same(d, 0) /\ o \in Int
    BY CalcRoot, OmegaIs, InnerIs
  <1>2. r \in Int /\ Same(r * r, d)
    BY <1>1, SqrtIs
  <1>3. /\ t1 \in Int /\ t2 \in Int
        /\ Same(t1, IF j \in {0, 1} THEN r ELSE -r)
        /\ Same(t2, IF k \in {0, 1} THEN r ELSE -r)
    BY <1>1, ValueIs
  <1>4. Solution(Q[2], o, s, t1) /\ Solution(Q[2], o, s, t2) /\ ~Same(s, 0)
    BY CalcSound
  <1>5. s \in Int /\ v \in Int /\ Same(s, v * v)
    <2>1. v \in Int
      BY CalcRoot
    <2>2. v * v \in Int
      BY <2>1
    <2>3. QED
      BY <2>1, <2>2, ModSame DEF Sigma
  <1> HIDE DEF v, s, o, d, r, t1, t2
  <1>6. Same(t1, t2)
    <2>1. Same(o + t1, o + t2)
      BY <1>4 DEF Solution, Same
    <2>2. Multiple(t1, t2, 1, o + t1, o + t2)
      BY <1>1, <1>3, <2>1 DEF Multiple
    <2>3. QED
      BY <2>2, ByOne
  <1>7. ~Same(r, 0)
    <2>1. ASSUME Same(r, 0) PROVE FALSE
      <3>1. Same(r * r, 0 * 0) /\ 0 * 0 = 0
        BY <1>2, <2>1, SameTimes
      <3>2. QED
        BY <1>1, <1>2, <3>1 DEF Same
    <2>2. QED
      BY <2>1
  <1>8. ASSUME NEW z \in Int, ~Same(z, 0), Same(z, -z) PROVE FALSE
    <2>1. Multiple(2 * z, 0, 1, z, -z)
      BY <1>8 DEF Multiple
    <2>2. QED
      BY <1>8, <2>1, ByOne, TwoIs, NoZeroDivisors
  <1>9. j \in {0, 1} <=> k \in {0, 1}
    BY <1>2, <1>3, <1>6, <1>7, <1>8 DEF Same
  <1>10. t1 = t2
    BY <1>9 DEF t1, t2, Signed
  <1>11. Value(Q, j) = Value(Q, k)
    BY <1>10 DEF Value, t1, t2
  <1> DEFINE e == Sqrt(Value(Q, j))
  <1>12. /\ e \in Int
         /\ Same(v, IF j \in {0, 2} THEN e ELSE -e)
         /\ Same(v, IF k \in {0, 2} THEN e ELSE -e)
    BY <1>11, CalcRoot DEF v
  <1> HIDE DEF e
  <1>13. ~Same(e, 0)
    <2>1. ASSUME Same(e, 0) PROVE FALSE
      <3>1. Same(-e, 0) /\ -e \in Int
        <4>1. Multiple(-e, 0, -1, e, 0)
          BY <1>12, <2>1 DEF Multiple
        <4>2. QED
          BY <1>12, <4>1, ByOne
      <3>2. Same(v, 0)
        BY <1>12, <2>1, <3>1 DEF Same
      <3>3. Same(v * v, 0 * 0) /\ 0 * 0 = 0
        BY <1>5, <3>2, SameTimes
      <3>4. QED
        BY <1>4, <1>5, <3>3 DEF Same
    <2>2. QED
      BY <2>1
  <1>14. j \in {0, 2} <=> k \in {0, 2}
    BY <1>8, <1>12, <1>13 DEF Same
  <1>15. QED
    BY <1>9, <1>14

-----------------------------------------------------------------------------
(***************************************************************************)
(* The specification.                                                      *)
(***************************************************************************)
\* What has been encoded is a field element with a point and one that stands
\* for what is left of the point to encode.
Encoded(P, p) ==
  /\ p = <<p[1], p[2]>> /\ p[1] \in Field /\ p[2] \in Field
  /\ p[1] \notin Exceptional
  /\ Add(P, Invert(f(p[1]))) # Infinity
  /\ f(p[2]) = Add(P, Invert(f(p[1])))

Inv ==
  /\ point \in Curve
  /\ phase = "encoded" => Encoded(point, uv)
  /\ RoundTrip
  /\ DecoysLookReal

\* es_decode() gives back what was encoded.
LEMMA DecodeEncoded ==
  ASSUME NEW P \in Curve, NEW p, Encoded(P, p)
  PROVE  es_decode(p) = P
  <1> DEFINE F == f(p[1])
             R == Add(P, Invert(F))
  <1>1. /\ p[1] \in Field /\ p[2] \in Field /\ p[1] \notin Exceptional
        /\ R # Infinity /\ f(p[2]) = R
    BY DEF Encoded
  <1>2. F \in Curve /\ F # NULL /\ f(p[2]) # NULL
    BY <1>1, FIs
  <1>3. Add(F, R) = P
    BY <1>1, <1>2, Undo
  <1>4. es_decode(p) = Add(F, f(p[2]))
    BY <1>2 DEF es_decode
  <1>5. QED
    BY <1>1, <1>3, <1>4

\* es_decode() gives a point for any two field elements.
LEMMA DecodeAny ==
  ASSUME NEW u \in Field, NEW v \in Field
  PROVE  es_decode(<<u, v>>) \in Curve \cup {Infinity}
  <1>1. /\ f(u) \in Curve \cup {Infinity} /\ f(u) # NULL
        /\ f(v) \in Curve \cup {Infinity} /\ f(v) # NULL
    BY FIs
  <1>2. es_decode(<<u, v>>) = Add(f(u), f(v))
    BY <1>1 DEF es_decode
  <1>3. QED
    BY <1>1, <1>2, AddCurve

\* The invariant holds in every state.
LEMMA InvAlways == Spec => []Inv
  <1>1. Init => Inv
    BY DEF Init, Inv, RoundTrip, DecoysLookReal
  <1>2. Inv /\ [Next]_vars => Inv'
    <2> SUFFICES ASSUME Inv, [Next]_vars PROVE Inv'
      OBVIOUS
    <2>0. point \in Curve
      BY DEF Inv
    <2>1. ASSUME NEW u \in Field, NEW j \in Signs, es_encode(u, j) PROVE Inv'
      <3> DEFINE rest == Add(point, Invert(f(u)))
                 v == IF u \in Exceptional \/ rest = Infinity THEN NULL ELSE calc_v(rest, j)
      <3>1. /\ uv' = IF v = NULL THEN NULL ELSE <<u, v>>
            /\ phase' = IF v = NULL THEN "encoding" ELSE "encoded"
            /\ point' = point
        BY <2>1 DEF es_encode
      <3>2. CASE v = NULL
        <4>1. phase' = "encoding"
          BY <3>1, <3>2
        <4>2. QED
          BY <2>0, <3>1, <4>1 DEF Inv, RoundTrip, DecoysLookReal
      <3>3. CASE v # NULL
        <4>1. u \notin Exceptional /\ rest # Infinity /\ v = calc_v(rest, j)
          BY <3>3
        <4>2. f(u) \in Curve
          BY <4>1, FIs
        <4>3. rest \in Curve
          BY <2>0, <4>1, <4>2, Undo
        <4>4. v \in Field /\ f(v) = rest
          <5> HIDE DEF rest
          <5>1. calc_v(rest, j) # NULL
            BY <3>3, <4>1
          <5>2. QED
            BY <4>1, <4>3, <5>1, CalcSound
        <4>5. phase' = "encoded" /\ uv' = <<u, v>>
          BY <3>1, <3>3
        <4> HIDE DEF v
        <4>6. Encoded(point, <<u, v>>)
          BY <4>1, <4>4 DEF Encoded
        <4>7. Encoded(point', uv')
          BY <3>1, <4>5, <4>6
        <4>8. QED
          BY <2>0, <3>1, <4>5, <4>7 DEF Inv, RoundTrip, DecoysLookReal
      <3>4. QED
        BY <3>2, <3>3
    <2>2. CASE GiveUp
      BY <2>0, <2>2 DEF GiveUp, Inv, RoundTrip, DecoysLookReal
    <2>3. CASE Decode
      <3>1. Encoded(point, uv)
        BY <2>3 DEF Decode, Inv
      <3>2. es_decode(uv) = point
        BY <2>0, <3>1, DecodeEncoded
      <3>3. phase' = "decoded" /\ decoded' = point /\ point' = point
        BY <2>3, <3>2 DEF Decode
      <3>4. QED
        BY <2>0, <3>3 DEF Inv, RoundTrip, DecoysLookReal
    <2>4. ASSUME NEW u \in Field, NEW v \in Field, DecodeDecoy(u, v) PROVE Inv'
      <3>1. decoded' \in Curve \cup {Infinity} /\ phase' = "decoy" /\ point' = point
        BY <2>4, DecodeAny DEF DecodeDecoy
      <3>2. (Curve \cup {Infinity})' = Curve \cup {Infinity}
        BY DEF Curve, Infinity, g, Field, BN_mod
      <3>3. QED
        BY <2>0, <3>1, <3>2 DEF Inv, RoundTrip, DecoysLookReal
    <2>5. CASE UNCHANGED vars
      BY <2>5 DEF vars, Inv, RoundTrip, DecoysLookReal
    <2>6. QED
      BY <2>1, <2>2, <2>3, <2>4, <2>5 DEF Next
  <1>3. QED
    BY <1>1, <1>2, PTL DEF Spec

\* Whichever field element u and signs j es_encode() draws, es_decode() gives
\* the AP's point back to a station that has the password.
THEOREM RoundTripAlways == Spec => []RoundTrip
  <1>1. Inv => RoundTrip
    BY DEF Inv
  <1>2. QED
    BY <1>1, InvAlways, PTL

\* A station with another password decodes a point of the curve, or the point
\* at infinity, from any two field elements.
THEOREM DecoysLookRealAlways == Spec => []DecoysLookReal
  <1>1. Inv => DecoysLookReal
    BY DEF Inv
  <1>2. QED
    BY <1>1, InvAlways, PTL

\* The four choices of signs of calc_v() give every field element that stands
\* for the point, each once.
THEOREM AllPreimagesAlways == Spec => []AllPreimages
  <1>1. ASSUME NEW Q \in Curve
        PROVE  /\ {calc_v(Q, j) : j \in 0..3} \ {NULL} = {v \in Field : f(v) = Q}
               /\ \A j, k \in 0..3 :
                    calc_v(Q, j) = calc_v(Q, k) /\ calc_v(Q, j) # NULL => j = k
    <2>1. ASSUME NEW j \in 0..3, calc_v(Q, j) # NULL
          PROVE  calc_v(Q, j) \in Field /\ f(calc_v(Q, j)) = Q
      BY <2>1, CalcSound
    <2>2. ASSUME NEW v \in Field, f(v) = Q
          PROVE  v # NULL /\ \E j \in 0..3 : v = calc_v(Q, j)
      BY <2>2, CalcComplete, NullAssumption
    <2>3. QED
      BY <2>1, <2>2, CalcDistinct
  <1>2. Inv => AllPreimages
    BY <1>1 DEF Inv, AllPreimages
  <1>3. QED
    BY <1>2, InvAlways, PTL
=============================================================================
