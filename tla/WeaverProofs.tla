---------------------------- MODULE WeaverProofs ----------------------------
(***************************************************************************)
(* Proofs about Weaver, for any prime, any number of passwords and any     *)
(* hashes that differ modulo the prime.                                    *)
(***************************************************************************)
EXTENDS Weaver, PrimeFieldProofs

\* A step function defines a sequence of numbers.
LEMMA Recursion ==
  ASSUME NEW F \in [Nat \X Int -> Int], NEW v \in Int
  PROVE  \E h \in [Nat -> Int] : h[0] = v /\ \A n \in Nat : h[n + 1] = F[<<n, h[n]>>]
  <1> DEFINE Upto(n, g) == /\ g \in [0..n -> Int] /\ g[0] = v
                           /\ \A j \in 0..(n - 1) : g[j + 1] = F[<<j, g[j]>>]
             S == {n \in Nat : \E g : Upto(n, g)}
  <1>1. 0 \in S
    <2>1. Upto(0, [j \in 0..0 |-> v])
      OBVIOUS
    <2>2. QED
      BY <2>1
  <1>2. ASSUME NEW n \in Nat, n \in S PROVE n + 1 \in S
    <2>1. PICK g : Upto(n, g)
      BY <1>2
    <2>2. g[n] \in Int /\ <<n, g[n]>> \in Nat \X Int /\ F[<<n, g[n]>>] \in Int
      BY <2>1
    <2> DEFINE e == F[<<n, g[n]>>]
               g2 == [j \in 0..(n + 1) |-> IF j <= n THEN g[j] ELSE e]
    <2>3. g2 \in [0..(n + 1) -> Int] /\ g2[0] = v
      BY <2>1, <2>2
    <2>4. ASSUME NEW j \in 0..n PROVE g2[j + 1] = F[<<j, g2[j]>>]
      <3>1. CASE j = n
        <4>1. g2[j + 1] = e /\ g2[j] = g[n]
          BY <3>1
        <4>2. QED
          BY <3>1, <4>1
      <3>2. CASE j # n
        <4>1. j \in 0..(n - 1) /\ g2[j + 1] = g[j + 1] /\ g2[j] = g[j]
          BY <3>2
        <4>2. QED
          BY <2>1, <4>1
      <3>3. QED
        BY <3>1, <3>2
    <2>5. Upto(n + 1, g2)
      <3>1. 0..((n + 1) - 1) = 0..n
        OBVIOUS
      <3> HIDE DEF g2, e
      <3>2. QED
        BY <2>3, <2>4, <3>1
    <2>6. n + 1 \in Nat
      OBVIOUS
    <2>7. QED
      <3> HIDE DEF Upto, g2
      <3>1. QED
        BY <2>5, <2>6
  <1>3. \A n \in Nat : n \in S
    <2> HIDE DEF S
    <2>1. QED
      BY <1>1, <1>2, Induction
  <1>4. ASSUME NEW n \in Nat, NEW k \in Nat, n <= k, NEW g, NEW h, Upto(n, g), Upto(k, h)
        PROVE  g[n] = h[n]
    <2> DEFINE E == {j \in Nat : j <= n => g[j] = h[j]}
    <2>1. 0 \in E
      BY <1>4
    <2>2. ASSUME NEW j \in Nat, j \in E PROVE j + 1 \in E
      <3>1. CASE j + 1 <= n
        <4>1. j \in 0..(n - 1) /\ j \in 0..(k - 1) /\ g[j] = h[j]
          BY <1>4, <2>2, <3>1
        <4>2. g[j + 1] = F[<<j, g[j]>>] /\ h[j + 1] = F[<<j, h[j]>>]
          BY <1>4, <4>1
        <4>3. QED
          BY <4>1, <4>2
      <3>2. QED
        BY <3>1
    <2>3. \A j \in Nat : j \in E
      <3> HIDE DEF E
      <3>1. QED
        BY <2>1, <2>2, Induction
    <2>4. QED
      BY <2>3
  <1> DEFINE G(n) == CHOOSE g : Upto(n, g)
  <1>5. ASSUME NEW n \in Nat PROVE Upto(n, G(n))
    <2>1. \E g : Upto(n, g)
      BY <1>3
    <2> HIDE DEF Upto
    <2>2. QED
      BY <2>1, Zenon
  <1> DEFINE h == [n \in Nat |-> G(n)[n]]
  <1>6. ASSUME NEW n \in Nat PROVE h[n] = G(n)[n] /\ h[n] \in Int
    <2>1. n \in 0..n
      OBVIOUS
    <2> HIDE DEF G
    <2>2. QED
      BY <1>5, <2>1
  <1>7. h \in [Nat -> Int]
    <2> HIDE DEF G
    <2>1. QED
      BY <1>6
  <1>8. h[0] = v
    <2> HIDE DEF G, h
    <2>1. QED
      BY <1>5, <1>6
  <1>9. ASSUME NEW n \in Nat PROVE h[n + 1] = F[<<n, h[n]>>]
    <2> HIDE DEF G, h
    <2>1. n + 1 \in Nat /\ n <= n + 1
      OBVIOUS
    <2>2. G(n)[n] = G(n + 1)[n]
      <3> HIDE DEF Upto
      <3>1. QED
        BY <1>4, <1>5, <2>1
    <2>3. n \in 0..((n + 1) - 1)
      OBVIOUS
    <2>4. G(n + 1)[n + 1] = F[<<n, G(n + 1)[n]>>]
      BY <1>5, <2>1, <2>3
    <2>5. QED
      BY <1>6, <2>1, <2>2, <2>4
  <1>10. QED
    <2> HIDE DEF h
    <2>1. QED
      BY <1>7, <1>8, <1>9

-----------------------------------------------------------------------------
(***************************************************************************)
(* Sequences of integers f[n + 1] = u[n] + w[n] * f[n].  Sums, products    *)
(* and Horner's rule are of this form.                                     *)
(***************************************************************************)
IsAffine(f, v, u, w) ==
  f \in [Nat -> Int] /\ f[0] = v /\ \A n \in Nat : f[n + 1] = u[n] + w[n] * f[n]

Affine(v, u, w) == CHOOSE f : IsAffine(f, v, u, w)

\* There is such a sequence.
LEMMA AffineIs ==
  ASSUME NEW v \in Int, NEW u \in [Nat -> Int], NEW w \in [Nat -> Int]
  PROVE  IsAffine(Affine(v, u, w), v, u, w)
  <1> DEFINE F == [p \in Nat \X Int |-> u[p[1]] + w[p[1]] * p[2]]
  <1>1. F \in [Nat \X Int -> Int]
    OBVIOUS
  <1>2. ASSUME NEW n \in Nat, NEW z \in Int PROVE F[<<n, z>>] = u[n] + w[n] * z
    OBVIOUS
  <1> HIDE DEF F
  <1>3. PICK h \in [Nat -> Int] : h[0] = v /\ \A n \in Nat : h[n + 1] = F[<<n, h[n]>>]
    BY <1>1, Recursion
  <1>4. ASSUME NEW n \in Nat PROVE h[n + 1] = u[n] + w[n] * h[n]
    <2>1. h[n] \in Int /\ h[n + 1] = F[<<n, h[n]>>]
      BY <1>3
    <2>2. QED
      BY <1>2, <2>1
  <1>5. IsAffine(h, v, u, w)
    BY <1>3, <1>4 DEF IsAffine
  <1>6. QED
    BY <1>5, Zenon DEF Affine

\* A sequence that is reduced on the way stands for the same elements.
LEMMA Reductions ==
  ASSUME NEW v \in Int, NEW u \in [Nat -> Int], NEW w \in [Nat -> Int],
         NEW top \in Nat, NEW f, \A n \in 0..top : f[n] \in Int,
         Same(f[0], v),
         \A n \in Nat : n + 1 <= top => Same(f[n + 1], u[n] + w[n] * f[n])
  PROVE  \A n \in 0..top : Same(f[n], Affine(v, u, w)[n])
  <1> DEFINE F == Affine(v, u, w)
             S == {n \in Nat : n <= top => Same(f[n], F[n])}
  <1>1. F \in [Nat -> Int] /\ F[0] = v /\ \A n \in Nat : F[n + 1] = u[n] + w[n] * F[n]
    BY AffineIs DEF IsAffine
  <1> HIDE DEF F
  <1>2. 0 \in S
    BY <1>1
  <1>3. ASSUME NEW n \in Nat, n \in S PROVE n + 1 \in S
    <2>1. SUFFICES ASSUME n + 1 <= top PROVE Same(f[n + 1], F[n + 1])
      OBVIOUS
    <2>2. f[n] \in Int /\ F[n] \in Int /\ u[n] \in Int /\ w[n] \in Int /\ Same(f[n], F[n])
      <3>1. n \in 0..top
        BY <2>1
      <3>2. QED
        BY <1>1, <1>3, <2>1, <3>1
    <2>3. Same(u[n], u[n]) /\ Same(w[n], w[n])
      BY DEF Same
    <2>4. Same(u[n] + w[n] * f[n], u[n] + w[n] * F[n])
      BY <2>2, <2>3, SameStep
    <2>5. QED
      BY <1>1, <2>1, <2>4 DEF Same
  <1>4. \A n \in Nat : n \in S
    <2> HIDE DEF S
    <2>1. QED
      BY <1>2, <1>3, Induction
  <1>5. QED
    BY <1>4 DEF F

-----------------------------------------------------------------------------
(***************************************************************************)
(* Polynomials over the integers with leading coefficient 1: A[0], A[1],   *)
(* ... are the coefficients after it, and R[0], R[1], ... the roots.       *)
(***************************************************************************)
\* The sequence of one number.
All(z) == [n \in Nat |-> z]

\* Horner's rule at z, which is also the division by (X - z).
Horner(A, z) == Affine(1, A, All(z))

\* Horner's rule at X for the quotient of that division.
Deflated(A, z, X) == Affine(1, [n \in Nat |-> Horner(A, z)[n + 1]], All(X))

\* The products of (X - R[j]) for j < n, and of (R[k] - R[j]) without j = k.
Roots(R, X) == Affine(1, All(0), [n \in Nat |-> X - R[n]])
Others(R, k) == Affine(1, All(0), [n \in Nat |-> IF n = k THEN 1 ELSE R[k] - R[n]])

\* The equations of these sequences.
LEMMA HornerIs ==
  ASSUME NEW A \in [Nat -> Int], NEW z \in Int
  PROVE  /\ Horner(A, z) \in [Nat -> Int] /\ Horner(A, z)[0] = 1
         /\ \A n \in Nat : Horner(A, z)[n + 1] = A[n] + z * Horner(A, z)[n]
  <1>1. All(z) \in [Nat -> Int] /\ \A n \in Nat : All(z)[n] = z
    BY DEF All
  <1>2. IsAffine(Horner(A, z), 1, A, All(z))
    BY <1>1, AffineIs DEF Horner
  <1>3. QED
    BY <1>1, <1>2 DEF IsAffine

\* Those of the values of the quotient.
LEMMA DeflatedIs ==
  ASSUME NEW A \in [Nat -> Int], NEW z \in Int, NEW X \in Int
  PROVE  LET g == Deflated(A, z, X) IN
         /\ g \in [Nat -> Int] /\ g[0] = 1
         /\ \A n \in Nat : g[n + 1] = Horner(A, z)[n + 1] + X * g[n]
  <1> DEFINE u == [n \in Nat |-> Horner(A, z)[n + 1]]
             g == Deflated(A, z, X)
  <1>1. All(X) \in [Nat -> Int] /\ \A n \in Nat : All(X)[n] = X
    BY DEF All
  <1>2. u \in [Nat -> Int] /\ \A n \in Nat : u[n] = Horner(A, z)[n + 1]
    BY HornerIs
  <1>3. g = Affine(1, u, All(X))
    BY DEF Deflated
  <1> HIDE DEF u, g
  <1>4. IsAffine(g, 1, u, All(X))
    BY <1>1, <1>2, <1>3, AffineIs
  <1>5. /\ g \in [Nat -> Int] /\ g[0] = 1
        /\ \A n \in Nat : g[n + 1] = Horner(A, z)[n + 1] + X * g[n]
    BY <1>1, <1>2, <1>4 DEF IsAffine
  <1>6. QED
    BY <1>5 DEF g

\* Those of the product of all factors.
LEMMA RootsIs ==
  ASSUME NEW R \in [Nat -> Int], NEW X \in Int
  PROVE  LET p == Roots(R, X) IN
         /\ p \in [Nat -> Int] /\ p[0] = 1
         /\ \A n \in Nat : p[n + 1] = (X - R[n]) * p[n]
  <1> DEFINE w == [n \in Nat |-> X - R[n]]
             p == Roots(R, X)
  <1>1. All(0) \in [Nat -> Int] /\ \A n \in Nat : All(0)[n] = 0
    BY DEF All
  <1>2. w \in [Nat -> Int] /\ \A n \in Nat : w[n] = X - R[n]
    OBVIOUS
  <1>3. p = Affine(1, All(0), w)
    BY DEF Roots
  <1> HIDE DEF w, p
  <1>4. IsAffine(p, 1, All(0), w)
    BY <1>1, <1>2, <1>3, AffineIs
  <1>5. /\ p \in [Nat -> Int] /\ p[0] = 1
        /\ \A n \in Nat : p[n + 1] = 0 + (X - R[n]) * p[n]
    BY <1>1, <1>2, <1>4 DEF IsAffine
  <1>6. \A n \in Nat : p[n + 1] = (X - R[n]) * p[n]
    BY <1>5
  <1>7. QED
    BY <1>5, <1>6 DEF p

\* Those of the product of all but one.
LEMMA OthersIs ==
  ASSUME NEW R \in [Nat -> Int], NEW k \in Nat
  PROVE  LET p == Others(R, k) IN
         /\ p \in [Nat -> Int] /\ p[0] = 1
         /\ \A n \in Nat : p[n + 1] = IF n = k THEN p[n] ELSE (R[k] - R[n]) * p[n]
  <1> DEFINE w == [n \in Nat |-> IF n = k THEN 1 ELSE R[k] - R[n]]
             p == Others(R, k)
  <1>1. All(0) \in [Nat -> Int] /\ \A n \in Nat : All(0)[n] = 0
    BY DEF All
  <1>2. w \in [Nat -> Int] /\ \A n \in Nat : w[n] = IF n = k THEN 1 ELSE R[k] - R[n]
    OBVIOUS
  <1>3. p = Affine(1, All(0), w)
    BY DEF Others
  <1> HIDE DEF w, p
  <1>4. IsAffine(p, 1, All(0), w)
    BY <1>1, <1>2, <1>3, AffineIs
  <1>5. /\ p \in [Nat -> Int] /\ p[0] = 1
        /\ \A n \in Nat : p[n + 1] = 0 + w[n] * p[n]
    BY <1>1, <1>4 DEF IsAffine
  <1>6. \A n \in Nat : p[n + 1] = IF n = k THEN p[n] ELSE (R[k] - R[n]) * p[n]
    BY <1>2, <1>5
  <1>7. QED
    BY <1>5, <1>6 DEF p

\* Each R[k] is a root.
LEMMA RootsVanish ==
  ASSUME NEW R \in [Nat -> Int], NEW k \in Nat, NEW n \in Nat, k < n
  PROVE  Roots(R, R[k])[n] = 0
  <1> DEFINE p == Roots(R, R[k])
             S == {j \in Nat : k < j => p[j] = 0}
  <1>1. /\ p \in [Nat -> Int] /\ R[k] \in Int
        /\ \A j \in Nat : p[j + 1] = (R[k] - R[j]) * p[j]
    BY RootsIs
  <1> HIDE DEF p
  <1>2. 0 \in S
    OBVIOUS
  <1>3. ASSUME NEW j \in Nat, j \in S PROVE j + 1 \in S
    <2>1. p[j + 1] = (R[k] - R[j]) * p[j] /\ p[j] \in Int /\ R[j] \in Int
      BY <1>1
    <2>2. CASE j = k
      BY <1>1, <2>1, <2>2
    <2>3. CASE k < j
      BY <1>1, <1>3, <2>1, <2>3
    <2>4. QED
      BY <2>2, <2>3
  <1>4. \A j \in Nat : j \in S
    <2> HIDE DEF S
    <2>1. QED
      BY <1>2, <1>3, Induction
  <1>5. QED
    BY <1>4 DEF p

\* Without a factor to leave out, both products are the same.
LEMMA OthersAreRoots ==
  ASSUME NEW R \in [Nat -> Int], NEW k \in Nat, NEW n \in Nat, n <= k
  PROVE  Others(R, k)[n] = Roots(R, R[k])[n]
  <1> DEFINE p == Roots(R, R[k])
             q == Others(R, k)
             S == {j \in Nat : j <= k => q[j] = p[j]}
  <1>1. /\ p \in [Nat -> Int] /\ p[0] = 1
        /\ \A j \in Nat : p[j + 1] = (R[k] - R[j]) * p[j]
    BY RootsIs
  <1>2. /\ q \in [Nat -> Int] /\ q[0] = 1
        /\ \A j \in Nat : q[j + 1] = IF j = k THEN q[j] ELSE (R[k] - R[j]) * q[j]
    BY OthersIs
  <1> HIDE DEF p, q
  <1>3. 0 \in S
    BY <1>1, <1>2
  <1>4. ASSUME NEW j \in Nat, j \in S PROVE j + 1 \in S
    <2>1. SUFFICES ASSUME j + 1 <= k PROVE q[j + 1] = p[j + 1]
      OBVIOUS
    <2>2. j # k /\ q[j] = p[j]
      BY <1>4, <2>1
    <2>3. QED
      BY <1>1, <1>2, <2>2
  <1>5. \A j \in Nat : j \in S
    <2> HIDE DEF S
    <2>1. QED
      BY <1>3, <1>4, Induction
  <1>6. QED
    BY <1>5 DEF p, q

\* The coefficients after a multiplication with (X - z).
Times(A, z) ==
  [j \in Nat |-> IF j = 0 THEN A[0] - z ELSE A[j] - z * A[j - 1]]

\* What the multiplication does to the values of Horner's rule.
LEMMA TimesHorner ==
  ASSUME NEW A \in [Nat -> Int], NEW z \in Int, NEW X \in Int
  PROVE  /\ Times(A, z) \in [Nat -> Int]
         /\ \A t \in Nat : Horner(Times(A, z), X)[t + 1]
                            = Horner(A, X)[t + 1] - z * Horner(A, X)[t]
  <1> DEFINE B == Times(A, z)
             h == Horner(A, X)
             e == Horner(B, X)
             S == {t \in Nat : e[t + 1] = h[t + 1] - z * h[t]}
  <1>1. /\ B \in [Nat -> Int] /\ B[0] = A[0] - z
        /\ \A t \in Nat : B[t + 1] = A[t + 1] - z * A[t]
    BY DEF Times
  <1> HIDE DEF B
  <1>2. /\ h \in [Nat -> Int] /\ h[0] = 1 /\ \A t \in Nat : h[t + 1] = A[t] + X * h[t]
    BY HornerIs
  <1>3. /\ e \in [Nat -> Int] /\ e[0] = 1 /\ \A t \in Nat : e[t + 1] = B[t] + X * e[t]
    BY <1>1, HornerIs
  <1> HIDE DEF h, e
  <1>4. 0 \in S
    <2>1. h[0 + 1] = A[0] + X * h[0] /\ e[0 + 1] = B[0] + X * e[0]
      BY <1>2, <1>3
    <2>2. QED
      BY <1>1, <1>2, <1>3, <2>1
  <1>5. ASSUME NEW t \in Nat, t \in S PROVE t + 1 \in S
    <2>1. /\ e[(t + 1) + 1] = B[t + 1] + X * e[t + 1]
          /\ h[(t + 1) + 1] = A[t + 1] + X * h[t + 1]
          /\ h[t + 1] = A[t] + X * h[t]
          /\ B[t + 1] = A[t + 1] - z * A[t]
          /\ e[t + 1] = h[t + 1] - z * h[t]
      BY <1>1, <1>2, <1>3, <1>5
    <2>2. /\ A[t] \in Int /\ A[t + 1] \in Int /\ h[t] \in Int /\ h[t + 1] \in Int
          /\ e[t + 1] \in Int /\ B[t + 1] \in Int
      BY <1>1, <1>2, <1>3
    <2>3. e[(t + 1) + 1] = h[(t + 1) + 1] - z * h[t + 1]
      BY <2>1, <2>2
    <2>4. QED
      BY <2>3
  <1>6. \A t \in Nat : t \in S
    <2> HIDE DEF S
    <2>1. QED
      BY <1>4, <1>5, Induction
  <1>7. QED
    BY <1>1, <1>6 DEF B, h, e

\* And to those of the quotient.
LEMMA TimesDeflated ==
  ASSUME NEW A \in [Nat -> Int], NEW z \in Int, NEW X \in Int
  PROVE  \A t \in Nat : Deflated(Times(A, z), X, X)[t + 1]
                        = Deflated(A, X, X)[t + 1] - z * Deflated(A, X, X)[t]
  <1> DEFINE B == Times(A, z)
             h == Horner(A, X)
             e == Horner(B, X)
             g == Deflated(A, X, X)
             d == Deflated(B, X, X)
             S == {t \in Nat : d[t + 1] = g[t + 1] - z * g[t]}
  <1>1. B \in [Nat -> Int] /\ \A t \in Nat : e[t + 1] = h[t + 1] - z * h[t]
    BY TimesHorner
  <1>2. h \in [Nat -> Int] /\ h[0] = 1
    BY HornerIs
  <1>3. /\ g \in [Nat -> Int] /\ g[0] = 1 /\ \A t \in Nat : g[t + 1] = h[t + 1] + X * g[t]
    BY DeflatedIs
  <1> HIDE DEF B
  <1>4. /\ d \in [Nat -> Int] /\ d[0] = 1 /\ \A t \in Nat : d[t + 1] = e[t + 1] + X * d[t]
    BY <1>1, DeflatedIs
  <1> HIDE DEF h, e, g, d
  <1>5. 0 \in S
    <2>1. g[0 + 1] = h[0 + 1] + X * g[0] /\ d[0 + 1] = e[0 + 1] + X * d[0]
          /\ e[0 + 1] = h[0 + 1] - z * h[0]
      BY <1>1, <1>3, <1>4
    <2>2. h[0 + 1] \in Int
      BY <1>2
    <2>3. QED
      BY <1>2, <1>3, <1>4, <2>1, <2>2
  <1>6. ASSUME NEW t \in Nat, t \in S PROVE t + 1 \in S
    <2>1. /\ d[(t + 1) + 1] = e[(t + 1) + 1] + X * d[t + 1]
          /\ g[(t + 1) + 1] = h[(t + 1) + 1] + X * g[t + 1]
          /\ g[t + 1] = h[t + 1] + X * g[t]
          /\ e[(t + 1) + 1] = h[(t + 1) + 1] - z * h[t + 1]
          /\ d[t + 1] = g[t + 1] - z * g[t]
      BY <1>1, <1>3, <1>4, <1>6
    <2>2. /\ h[t + 1] \in Int /\ h[(t + 1) + 1] \in Int
          /\ g[t] \in Int /\ g[t + 1] \in Int /\ d[t + 1] \in Int
      BY <1>2, <1>3, <1>4
    <2>3. d[(t + 1) + 1] = g[(t + 1) + 1] - z * g[t + 1]
      BY <2>1, <2>2
    <2>4. QED
      BY <2>3
  <1>7. \A t \in Nat : t \in S
    <2> HIDE DEF S
    <2>1. QED
      BY <1>5, <1>6, Induction
  <1>8. QED
    BY <1>7 DEF B, g, d

\* The division leaves the value at z as its remainder.
LEMMA Division ==
  ASSUME NEW A \in [Nat -> Int], NEW z \in Int, NEW X \in Int
  PROVE  \A t \in Nat : (X - z) * Deflated(A, z, X)[t]
                        = Horner(A, X)[t + 1] - Horner(A, z)[t + 1]
  <1> DEFINE h == Horner(A, X)
             e == Horner(A, z)
             g == Deflated(A, z, X)
             S == {t \in Nat : (X - z) * g[t] = h[t + 1] - e[t + 1]}
  <1>1. /\ h \in [Nat -> Int] /\ h[0] = 1 /\ \A t \in Nat : h[t + 1] = A[t] + X * h[t]
    BY HornerIs
  <1>2. /\ e \in [Nat -> Int] /\ e[0] = 1 /\ \A t \in Nat : e[t + 1] = A[t] + z * e[t]
    BY HornerIs
  <1>3. /\ g \in [Nat -> Int] /\ g[0] = 1 /\ \A t \in Nat : g[t + 1] = e[t + 1] + X * g[t]
    BY DeflatedIs
  <1> HIDE DEF h, e, g
  <1>4. 0 \in S
    <2>1. h[0 + 1] = A[0] + X * h[0] /\ e[0 + 1] = A[0] + z * e[0] /\ A[0] \in Int
      BY <1>1, <1>2
    <2>2. QED
      BY <1>1, <1>2, <1>3, <2>1
  <1>5. ASSUME NEW t \in Nat, t \in S PROVE t + 1 \in S
    <2>1. /\ g[t + 1] = e[t + 1] + X * g[t]
          /\ h[(t + 1) + 1] = A[t + 1] + X * h[t + 1]
          /\ e[(t + 1) + 1] = A[t + 1] + z * e[t + 1]
          /\ (X - z) * g[t] = h[t + 1] - e[t + 1]
      BY <1>1, <1>2, <1>3, <1>5
    <2>2. /\ A[t + 1] \in Int /\ h[t + 1] \in Int /\ e[t + 1] \in Int /\ g[t] \in Int
      <3>1. /\ t + 1 \in Nat /\ h \in [Nat -> Int] /\ e \in [Nat -> Int]
            /\ g \in [Nat -> Int]
        <4>1. t + 1 \in Nat
          OBVIOUS
        <4>2. QED
          BY <1>1, <1>2, <1>3, <4>1, Zenon
      <3>2. QED
        BY <3>1
    <2>3. (X - z) * g[t + 1] = (X - z) * e[t + 1] + X * ((X - z) * g[t])
      BY <2>1, <2>2
    <2>4. (X - z) * g[t + 1] = h[(t + 1) + 1] - e[(t + 1) + 1]
      BY <2>1, <2>2, <2>3
    <2>5. QED
      BY <2>4
  <1>6. \A t \in Nat : t \in S
    <2> HIDE DEF S
    <2>1. QED
      BY <1>4, <1>5, Induction
  <1>7. QED
    BY <1>6 DEF h, e, g

\* A has the coefficients of the polynomial with the first n roots, and its
\* quotients by (X - R[k]) have the other roots.
Exact(A, R, n) ==
  /\ A \in [Nat -> Int]
  /\ \A j \in Nat : j >= n => A[j] = 0
  /\ \A X \in Int : Horner(A, X)[n] = Roots(R, X)[n]
  /\ \A k \in Nat : k < n => Deflated(A, R[k], R[k])[n - 1] = Others(R, k)[n]

\* One root.
LEMMA ExactOne ==
  ASSUME NEW R \in [Nat -> Int]
  PROVE  Exact([j \in Nat |-> IF j = 0 THEN -R[0] ELSE 0], R, 1)
  <1> DEFINE A == [j \in Nat |-> IF j = 0 THEN -R[0] ELSE 0]
  <1>1. A \in [Nat -> Int] /\ A[0] = -R[0] /\ \A j \in Nat : j >= 1 => A[j] = 0
    OBVIOUS
  <1> HIDE DEF A
  <1>2. ASSUME NEW X \in Int PROVE Horner(A, X)[1] = Roots(R, X)[1]
    <2>1. Horner(A, X)[0 + 1] = A[0] + X * Horner(A, X)[0] /\ Horner(A, X)[0] = 1
      BY <1>1, HornerIs
    <2>2. Roots(R, X)[0 + 1] = (X - R[0]) * Roots(R, X)[0] /\ Roots(R, X)[0] = 1
      BY RootsIs
    <2>3. QED
      BY <1>1, <2>1, <2>2
  <1>3. Deflated(A, R[0], R[0])[0] = 1 /\ Others(R, 0)[1] = 1
    <2>1. Deflated(A, R[0], R[0])[0] = 1
      BY <1>1, DeflatedIs
    <2>2. Others(R, 0)[0 + 1] = Others(R, 0)[0] /\ Others(R, 0)[0] = 1
      BY OthersIs
    <2>3. QED
      BY <2>1, <2>2
  <1>4. ASSUME NEW k \in Nat, k < 1 PROVE Deflated(A, R[k], R[k])[1 - 1] = Others(R, k)[1]
    <2>1. k = 0 /\ 1 - 1 = 0
      BY <1>4
    <2>2. QED
      BY <1>3, <2>1
  <1>5. Exact(A, R, 1)
    BY <1>1, <1>2, <1>4 DEF Exact
  <1>6. QED
    BY <1>5 DEF A

\* One root more.
LEMMA ExactNext ==
  ASSUME NEW R \in [Nat -> Int], NEW n \in Nat, n >= 1, NEW A, Exact(A, R, n)
  PROVE  Exact(Times(A, R[n]), R, n + 1)
  <1> DEFINE z == R[n]
             B == Times(A, z)
  <1>0. A \in [Nat -> Int] /\ z \in Int /\ \A j \in Nat : j >= n => A[j] = 0
    BY DEF Exact
  <1>1. B \in [Nat -> Int] /\ \A j \in Nat : j >= n + 1 => B[j] = 0
    <2> HIDE DEF z
    <2>1. B \in [Nat -> Int]
      BY <1>0, TimesHorner
    <2>2. ASSUME NEW j \in Nat, j >= n + 1 PROVE B[j] = 0
      <3>1. j # 0 /\ j - 1 \in Nat /\ A[j - 1] = 0 /\ A[j] = 0
        BY <1>0, <2>2
      <3>2. B[j] = A[j] - z * A[j - 1]
        BY <3>1 DEF Times
      <3>3. QED
        BY <1>0, <3>1, <3>2
    <2>3. QED
      BY <2>1, <2>2
  <1>2. ASSUME NEW X \in Int PROVE Horner(B, X)[n + 1] = Roots(R, X)[n + 1]
    <2> DEFINE h == Horner(A, X)
               p == Roots(R, X)
    <2>1. Horner(B, X)[n + 1] = h[n + 1] - z * h[n]
      BY <1>0, TimesHorner
    <2>2. h \in [Nat -> Int] /\ h[n + 1] = A[n] + X * h[n]
      BY <1>0, HornerIs
    <2>3. p \in [Nat -> Int] /\ p[n + 1] = (X - z) * p[n]
      BY RootsIs
    <2>4. h[n] = p[n] /\ A[n] = 0 /\ h[n] \in Int
      BY <1>0, <2>2 DEF Exact
    <2> HIDE DEF h, p, z
    <2>5. Horner(B, X)[n + 1] = p[n + 1]
      BY <1>0, <2>1, <2>2, <2>3, <2>4
    <2>6. QED
      BY <2>5 DEF p
  <1>3. ASSUME NEW k \in Nat, k < n + 1
        PROVE  Deflated(B, R[k], R[k])[(n + 1) - 1] = Others(R, k)[n + 1]
    <2> DEFINE w == R[k]
               g == Deflated(A, w, w)
               q == Others(R, k)
    <2>0. w \in Int /\ n - 1 \in Nat /\ (n - 1) + 1 = n /\ (n + 1) - 1 = n
      OBVIOUS
    <2>1. Deflated(B, w, w)[n] = g[n] - z * g[n - 1]
      <3>1. Deflated(B, w, w)[(n - 1) + 1] = g[(n - 1) + 1] - z * g[n - 1]
        BY <1>0, <2>0, TimesDeflated
      <3>2. QED
        BY <2>0, <3>1
    <2>2. g \in [Nat -> Int] /\ g[n] = Horner(A, w)[n] + w * g[n - 1]
      <3>1. g \in [Nat -> Int] /\ g[(n - 1) + 1] = Horner(A, w)[(n - 1) + 1] + w * g[n - 1]
        BY <1>0, <2>0, DeflatedIs
      <3>2. QED
        BY <2>0, <3>1
    <2>3. Horner(A, w)[n] = Roots(R, w)[n] /\ Roots(R, w)[n] \in Int
      BY <2>0, RootsIs DEF Exact
    <2>4. q \in [Nat -> Int] /\ q[n + 1] = IF n = k THEN q[n] ELSE (w - z) * q[n]
      BY OthersIs
    <2>5. CASE k < n
      <3>1. Roots(R, w)[n] = 0
        BY <2>5, RootsVanish
      <3>2. g[n - 1] = q[n] /\ g[n - 1] \in Int
        BY <2>0, <2>2, <2>5 DEF Exact
      <3> HIDE DEF g, q, w, z, B
      <3>3. Deflated(B, w, w)[n] = w * g[n - 1] - z * g[n - 1]
        BY <1>0, <2>0, <2>1, <2>2, <2>3, <3>1, <3>2
      <3>4. q[n + 1] = (w - z) * g[n - 1]
        BY <2>4, <2>5, <3>2
      <3>5. Deflated(B, w, w)[n] = q[n + 1]
        BY <1>0, <2>0, <3>2, <3>3, <3>4
      <3>6. QED
        BY <2>0, <3>5 DEF w, q
    <2>6. CASE k = n
      <3>1. q[n] = Roots(R, w)[n]
        BY <2>6, OthersAreRoots
      <3>2. w = z /\ g[n - 1] \in Int
        BY <2>0, <2>2, <2>6
      <3> HIDE DEF g, q, w, z, B
      <3>3. Deflated(B, w, w)[n] = q[n + 1]
        BY <1>0, <2>0, <2>1, <2>2, <2>3, <2>4, <2>6, <3>1, <3>2
      <3>4. QED
        BY <2>0, <3>3 DEF w, q
    <2>7. QED
      BY <1>3, <2>5, <2>6
  <1>4. QED
    <2> HIDE DEF B
    <2>1. Exact(B, R, n + 1)
      BY <1>1, <1>2, <1>3 DEF Exact
    <2>2. QED
      BY <2>1 DEF B

-----------------------------------------------------------------------------
(***************************************************************************)
(* Sums.                                                                   *)
(***************************************************************************)
Sum(u) == Affine(0, u, All(1))

\* The equations of a sum.
LEMMA SumIs ==
  ASSUME NEW u \in [Nat -> Int]
  PROVE  /\ Sum(u) \in [Nat -> Int] /\ Sum(u)[0] = 0
         /\ \A n \in Nat : Sum(u)[n + 1] = u[n] + Sum(u)[n]
  <1>1. All(1) \in [Nat -> Int] /\ \A n \in Nat : All(1)[n] = 1
    BY DEF All
  <1>2. IsAffine(Sum(u), 0, u, All(1))
    BY <1>1, AffineIs DEF Sum
  <1>3. /\ Sum(u) \in [Nat -> Int] /\ Sum(u)[0] = 0
        /\ \A n \in Nat : Sum(u)[n + 1] = u[n] + 1 * Sum(u)[n]
    BY <1>1, <1>2 DEF IsAffine
  <1>4. QED
    BY <1>3

\* Sums of the same elements are the same.
LEMMA SumSame ==
  ASSUME NEW u \in [Nat -> Int], NEW w \in [Nat -> Int], NEW top \in Nat,
         \A n \in Nat : n < top => Same(u[n], w[n])
  PROVE  Same(Sum(u)[top], Sum(w)[top])
  <1> DEFINE p == Sum(u)
             q == Sum(w)
             S == {n \in Nat : n <= top => Same(p[n], q[n])}
  <1>1. p \in [Nat -> Int] /\ p[0] = 0 /\ \A n \in Nat : p[n + 1] = u[n] + p[n]
    BY SumIs
  <1>2. q \in [Nat -> Int] /\ q[0] = 0 /\ \A n \in Nat : q[n + 1] = w[n] + q[n]
    BY SumIs
  <1> HIDE DEF p, q
  <1>3. 0 \in S
    BY <1>1, <1>2 DEF Same
  <1>4. ASSUME NEW n \in Nat, n \in S PROVE n + 1 \in S
    <2>1. SUFFICES ASSUME n + 1 <= top PROVE Same(p[n + 1], q[n + 1])
      OBVIOUS
    <2>2. /\ p[n] \in Int /\ q[n] \in Int /\ u[n] \in Int /\ w[n] \in Int /\ 1 \in Int
          /\ Same(p[n], q[n]) /\ Same(u[n], w[n])
      BY <1>1, <1>2, <1>4, <2>1
    <2>3. Same(1, 1)
      BY DEF Same
    <2>4. Same(u[n] + 1 * p[n], w[n] + 1 * q[n])
      BY <2>2, <2>3, SameStep
    <2>5. u[n] + 1 * p[n] = p[n + 1] /\ w[n] + 1 * q[n] = q[n + 1]
      BY <1>1, <1>2, <2>2
    <2>6. QED
      BY <2>4, <2>5
  <1>5. \A n \in Nat : n \in S
    <2> HIDE DEF S
    <2>1. QED
      BY <1>3, <1>4, Induction
  <1>6. QED
    BY <1>5 DEF p, q

\* s is u and X times w.
Combined(s, u, X, w) == \A n \in Nat : s[n] = u[n] + X * w[n]

\* Sums are linear.
LEMMA SumLinear ==
  ASSUME NEW s \in [Nat -> Int], NEW u \in [Nat -> Int], NEW w \in [Nat -> Int],
         NEW X \in Int, Combined(s, u, X, w)
  PROVE  Combined(Sum(s), Sum(u), X, Sum(w))
  <1> DEFINE p == Sum(s)
             q == Sum(u)
             r == Sum(w)
             S == {n \in Nat : p[n] = q[n] + X * r[n]}
  <1>1. p \in [Nat -> Int] /\ p[0] = 0 /\ \A n \in Nat : p[n + 1] = s[n] + p[n]
    BY SumIs
  <1>2. q \in [Nat -> Int] /\ q[0] = 0 /\ \A n \in Nat : q[n + 1] = u[n] + q[n]
    BY SumIs
  <1>3. r \in [Nat -> Int] /\ r[0] = 0 /\ \A n \in Nat : r[n + 1] = w[n] + r[n]
    BY SumIs
  <1> HIDE DEF p, q, r
  <1>4. 0 \in S
    BY <1>1, <1>2, <1>3
  <1>5. ASSUME NEW n \in Nat, n \in S PROVE n + 1 \in S
    <2>1. /\ p[n + 1] = s[n] + p[n] /\ q[n + 1] = u[n] + q[n] /\ r[n + 1] = w[n] + r[n]
          /\ p[n] = q[n] + X * r[n] /\ s[n] = u[n] + X * w[n]
      BY <1>1, <1>2, <1>3, <1>5 DEF Combined
    <2>2. /\ q[n] \in Int /\ r[n] \in Int /\ u[n] \in Int /\ w[n] \in Int
      BY <1>2, <1>3
    <2>3. p[n + 1] = q[n + 1] + X * r[n + 1]
      BY <2>1, <2>2
    <2>4. QED
      BY <2>3
  <1>6. \A n \in Nat : n \in S
    <2> HIDE DEF S
    <2>1. QED
      BY <1>4, <1>5, Induction
  <1>7. QED
    BY <1>6 DEF p, q, r, Combined

\* A sum with one summand that is not 0.
LEMMA SumSingle ==
  ASSUME NEW u \in [Nat -> Int], NEW top \in Nat, NEW k \in Nat, k < top,
         \A n \in Nat : n < top /\ n # k => u[n] = 0
  PROVE  Sum(u)[top] = u[k]
  <1> DEFINE p == Sum(u)
             S == {n \in Nat : n <= top => p[n] = IF k < n THEN u[k] ELSE 0}
  <1>1. p \in [Nat -> Int] /\ p[0] = 0 /\ \A n \in Nat : p[n + 1] = u[n] + p[n]
    BY SumIs
  <1> HIDE DEF p
  <1>2. 0 \in S
    BY <1>1
  <1>3. ASSUME NEW n \in Nat, n \in S PROVE n + 1 \in S
    <2>1. SUFFICES ASSUME n + 1 <= top PROVE p[n + 1] = IF k < n + 1 THEN u[k] ELSE 0
      OBVIOUS
    <2>2. p[n + 1] = u[n] + p[n] /\ p[n] = (IF k < n THEN u[k] ELSE 0) /\ u[k] \in Int
      BY <1>1, <1>3, <2>1
    <2>3. CASE n = k
      BY <2>2, <2>3
    <2>4. CASE n # k
      <3>1. u[n] = 0
        BY <2>1, <2>4
      <3>2. QED
        BY <2>2, <2>4, <3>1
    <2>5. QED
      BY <2>3, <2>4
  <1>4. \A n \in Nat : n \in S
    <2> HIDE DEF S
    <2>1. QED
      BY <1>2, <1>3, Induction
  <1>5. QED
    BY <1>4 DEF p

-----------------------------------------------------------------------------
(***************************************************************************)
(* The recursive functions of the model.                                   *)
(***************************************************************************)
\* The arrays of the model as sequences.
Seqn(f) == [n \in Nat |-> IF n \in Index THEN f[n] ELSE 0]

\* They hold the same numbers.
LEMMA SeqnIs ==
  ASSUME NEW f \in [Index -> Int]
  PROVE  Seqn(f) \in [Nat -> Int] /\ \A n \in Index : Seqn(f)[n] = f[n] /\ n \in Nat
  BY NAssumption DEF Seqn, Index

\* f starts with v and goes on with the step F, up to a bound.
StepsUpTo(f, v, F, top) ==
  /\ f \in [0..top -> Int]
  /\ f = [j \in 0..top |-> IF j = 0 THEN v ELSE F[<<j - 1, f[j - 1]>>]]

\* A function defined by recursion up to a bound exists.
LEMMA UpTo ==
  ASSUME NEW F \in [Nat \X Int -> Int], NEW v \in Int, NEW top \in Nat
  PROVE  \E f : StepsUpTo(f, v, F, top)
  <1>1. PICK h \in [Nat -> Int] : h[0] = v /\ \A n \in Nat : h[n + 1] = F[<<n, h[n]>>]
    BY Recursion
  <1> DEFINE f == [j \in 0..top |-> h[j]]
  <1>2. f \in [0..top -> Int]
    BY <1>1
  <1>3. ASSUME NEW j \in 0..top PROVE f[j] = IF j = 0 THEN v ELSE F[<<j - 1, f[j - 1]>>]
    <2>1. CASE j = 0
      BY <1>1, <2>1
    <2>2. CASE j # 0
      <3>1. j - 1 \in Nat /\ (j - 1) + 1 = j /\ j - 1 \in 0..top
        BY <2>2
      <3>2. f[j] = h[j] /\ f[j - 1] = h[j - 1]
        BY <3>1
      <3>3. h[j] = F[<<j - 1, h[j - 1]>>]
        BY <1>1, <3>1
      <3>4. QED
        BY <2>2, <3>2, <3>3
    <2>3. QED
      BY <2>1, <2>2
  <1>4. f = [j \in 0..top |-> IF j = 0 THEN v ELSE F[<<j - 1, f[j - 1]>>]]
    BY <1>3
  <1> HIDE DEF f
  <1>5. QED
    BY <1>2, <1>4, Zenon DEF StepsUpTo

\* Its values are integers if each is for an integer before it.
LEMMA Typed ==
  ASSUME NEW p, NEW top \in Nat, p[0] \in Int,
         \A n \in Nat : n + 1 <= top /\ p[n] \in Int => p[n + 1] \in Int
  PROVE  \A n \in 0..top : p[n] \in Int
  <1> DEFINE S == {n \in Nat : n <= top => p[n] \in Int}
  <1>1. 0 \in S
    OBVIOUS
  <1>2. ASSUME NEW n \in Nat, n \in S PROVE n + 1 \in S
    BY <1>2
  <1>3. \A n \in Nat : n \in S
    <2> HIDE DEF S
    <2>1. QED
      BY <1>1, <1>2, Induction
  <1>4. QED
    BY <1>3

\* precompute()'s p[k] stands for the product of the differences.
LEMMA DenominatorIs ==
  ASSUME x \in [Index -> Int], NEW k \in Index
  PROVE  Denominator(k) \in Int /\ Same(Denominator(k), Others(Seqn(x), k)[N])
  <1> DEFINE R == Seqn(x)
             F == [q \in Nat \X Int |->
                     IF q[1] = k THEN q[2] ELSE BN_mod(q[2] * (R[k] - R[q[1]]))]
             w == [n \in Nat |-> IF n = k THEN 1 ELSE R[k] - R[n]]
  <1>1. R \in [Nat -> Int] /\ \A n \in Index : R[n] = x[n]
    BY SeqnIs
  <1>2. k \in Nat /\ N \in Nat /\ \A n \in Nat : n + 1 <= N => n \in Index
    BY NAssumption DEF Index
  <1> HIDE DEF R
  <1>3. ASSUME NEW n \in Nat, NEW z \in Int
        PROVE  /\ F[<<n, z>>] = IF n = k THEN z ELSE BN_mod(z * (R[k] - R[n]))
               /\ F[<<n, z>>] \in Int
    <2>1. z * (R[k] - R[n]) \in Int
      BY <1>1, <1>2
    <2>2. QED
      BY <2>1, ModIs
  <1>4. F \in [Nat \X Int -> Int]
    <2>1. ASSUME NEW q \in Nat \X Int PROVE F[q] \in Int
      <3>1. q[1] \in Nat /\ q[2] \in Int /\ q = <<q[1], q[2]>>
        OBVIOUS
      <3> HIDE DEF F
      <3>2. QED
        BY <1>3, <3>1
    <2>2. QED
      BY <2>1
  <1> HIDE DEF F
  <1>5. PICK f : StepsUpTo(f, 1, F, N)
    <2>1. 1 \in Int
      OBVIOUS
    <2>2. QED
      BY <1>2, <1>4, <2>1, UpTo, Zenon
  <1>6. f = [j \in 0..N |-> IF j = 0 THEN 1
                            ELSE IF j - 1 = k THEN f[j - 1]
                            ELSE BN_mod(f[j - 1] * (x[k] - x[j - 1]))]
    <2>1. ASSUME NEW j \in 0..N, j # 0
          PROVE  F[<<j - 1, f[j - 1]>>] = IF j - 1 = k THEN f[j - 1]
                                          ELSE BN_mod(f[j - 1] * (x[k] - x[j - 1]))
      <3>1. j - 1 \in Nat /\ j - 1 \in Index /\ f[j - 1] \in Int
        <4>1. j - 1 \in Nat /\ j - 1 \in Index /\ j - 1 \in 0..N
          BY <1>2, <2>1 DEF Index
        <4>2. QED
          BY <1>5, <4>1 DEF StepsUpTo
      <3>2. R[j - 1] = x[j - 1] /\ R[k] = x[k]
        BY <1>1, <3>1
      <3>3. QED
        BY <1>3, <3>1, <3>2
    <2>2. QED
      BY <1>5, <2>1 DEF StepsUpTo
  <1>7. PICK p : /\ p = [j \in 0..N |-> IF j = 0 THEN 1
                                       ELSE IF j - 1 = k THEN p[j - 1]
                                       ELSE BN_mod(p[j - 1] * (x[k] - x[j - 1]))]
                 /\ Denominator(k) = p[N]
    BY <1>6, Zenon DEF Denominator
  <1>8. /\ p[0] = 1
        /\ \A n \in Nat : n + 1 <= N =>
             p[n + 1] = IF n = k THEN p[n] ELSE BN_mod(p[n] * (R[k] - R[n]))
    <2>1. p[0] = 1
      BY <1>2, <1>7
    <2>2. ASSUME NEW n \in Nat, n + 1 <= N
          PROVE  p[n + 1] = IF n = k THEN p[n] ELSE BN_mod(p[n] * (R[k] - R[n]))
      <3>1. n + 1 \in 0..N /\ (n + 1) - 1 = n /\ n + 1 # 0 /\ R[n] = x[n] /\ R[k] = x[k]
        BY <1>1, <1>2, <2>2
      <3>2. p[n + 1] = IF (n + 1) - 1 = k THEN p[(n + 1) - 1]
                       ELSE BN_mod(p[(n + 1) - 1] * (x[k] - x[(n + 1) - 1]))
        BY <1>7, <3>1
      <3>3. QED
        BY <3>1, <3>2
    <2>3. QED
      BY <2>1, <2>2
  <1>9. \A n \in 0..N : p[n] \in Int
    <2>1. ASSUME NEW n \in Nat, n + 1 <= N, p[n] \in Int PROVE p[n + 1] \in Int
      <3>1. p[n] * (R[k] - R[n]) \in Int
        BY <1>1, <1>2, <2>1
      <3>2. QED
        BY <1>8, <2>1, <3>1, ModIs
    <2>2. p[0] \in Int
      BY <1>8
    <2>3. QED
      BY <1>2, <2>1, <2>2, Typed
  <1>10. /\ w \in [Nat -> Int] /\ All(0) \in [Nat -> Int]
         /\ \A n \in Nat : All(0)[n] = 0 /\ w[n] = IF n = k THEN 1 ELSE R[k] - R[n]
    BY <1>1, <1>2 DEF All
  <1>11. ASSUME NEW n \in Nat, n + 1 <= N PROVE Same(p[n + 1], All(0)[n] + w[n] * p[n])
    <2>1. n \in 0..N /\ p[n] \in Int /\ R[k] \in Int /\ R[n] \in Int
      BY <1>1, <1>2, <1>9, <1>11
    <2>2. CASE n = k
      <3>1. p[n + 1] = All(0)[n] + w[n] * p[n]
        BY <1>8, <1>10, <1>11, <2>1, <2>2
      <3>2. QED
        BY <3>1 DEF Same
    <2>3. CASE n # k
      <3>1. p[n + 1] = BN_mod(p[n] * (R[k] - R[n])) /\ p[n] * (R[k] - R[n]) \in Int
        BY <1>8, <1>11, <2>1, <2>3
      <3>2. p[n] * (R[k] - R[n]) = All(0)[n] + w[n] * p[n]
        BY <1>10, <2>1, <2>3
      <3>3. QED
        BY <3>1, <3>2, ModSame
    <2>4. QED
      BY <2>2, <2>3
  <1>12. Same(p[0], 1)
    BY <1>8 DEF Same
  <1> HIDE DEF w
  <1>13. \A n \in 0..N : Same(p[n], Affine(1, All(0), w)[n])
    BY <1>2, <1>9, <1>10, <1>11, <1>12, Reductions
  <1>14. Affine(1, All(0), w) = Others(R, k)
    BY DEF w, Others
  <1>15. N \in 0..N
    BY <1>2
  <1>16. QED
    BY <1>7, <1>9, <1>13, <1>14, <1>15 DEF R

\* Reduced() gives the same element, in both variants.
LEMMA ReducedIs ==
  ASSUME NEW u \in Int
  PROVE  Reduced(u) \in Int /\ Same(Reduced(u), u)
  <1>1. CASE lazy
    BY <1>1 DEF Reduced, Same
  <1>2. CASE ~lazy
    BY <1>2, ModSame DEF Reduced
  <1>3. QED
    BY <1>1, <1>2

\* precompute()'s b is the quotient of the division by (X - x[k]).
LEMMA QuotientIs ==
  ASSUME x \in [Index -> Int], a \in [Index -> Int], NEW A \in [Nat -> Int],
         \A j \in Index : Same(a[j], A[j]), NEW k \in Index
  PROVE  \A j \in Index : /\ Quotient(k)[j] \in Int
                          /\ Same(Quotient(k)[j], Horner(A, x[k])[j])
  <1> DEFINE B == Seqn(a)
             F == [q \in Nat \X Int |-> Reduced(B[q[1]] + x[k] * q[2])]
             top == N - 1
  <1>1. B \in [Nat -> Int] /\ \A n \in Index : B[n] = a[n]
    BY SeqnIs
  <1>2. /\ top \in Nat /\ Index = 0..top /\ x[k] \in Int
        /\ \A n \in Nat : n + 1 <= top => n \in Index
    BY NAssumption DEF Index
  <1> HIDE DEF B, top
  <1>3. ASSUME NEW n \in Nat, NEW z \in Int
        PROVE  /\ F[<<n, z>>] = Reduced(B[n] + x[k] * z)
               /\ F[<<n, z>>] \in Int
    <2>1. B[n] + x[k] * z \in Int
      <3>1. B[n] \in Int /\ x[k] \in Int
        BY <1>1, <1>2
      <3>2. QED
        BY <3>1
    <2>2. QED
      BY <2>1, ReducedIs
  <1>4. F \in [Nat \X Int -> Int]
    <2>1. ASSUME NEW q \in Nat \X Int PROVE F[q] \in Int
      <3>1. q[1] \in Nat /\ q[2] \in Int /\ q = <<q[1], q[2]>>
        OBVIOUS
      <3> HIDE DEF F
      <3>2. QED
        BY <1>3, <3>1
    <2>2. QED
      BY <2>1
  <1> HIDE DEF F
  <1>5. PICK f : StepsUpTo(f, 1, F, top)
    <2>1. 1 \in Int
      OBVIOUS
    <2>2. QED
      BY <1>2, <1>4, <2>1, UpTo, Zenon
  <1>6. f = [j \in Index |-> IF j = 0 THEN 1 ELSE Reduced(a[j - 1] + x[k] * f[j - 1])]
    <2>1. ASSUME NEW j \in Index, j # 0
          PROVE  F[<<j - 1, f[j - 1]>>] = Reduced(a[j - 1] + x[k] * f[j - 1])
      <3>1. j - 1 \in Nat /\ j - 1 \in Index /\ j - 1 \in 0..top
        BY <1>2, <2>1
      <3>2. B[j - 1] = a[j - 1] /\ f[j - 1] \in Int
        BY <1>1, <1>5, <3>1 DEF StepsUpTo
      <3>3. QED
        BY <1>3, <3>1, <3>2
    <2>2. QED
      BY <1>2, <1>5, <2>1 DEF StepsUpTo
  <1>7. PICK p : /\ p = [j \in Index |-> IF j = 0 THEN 1
                                        ELSE Reduced(a[j - 1] + x[k] * p[j - 1])]
                 /\ Quotient(k) = p
    BY <1>6, Zenon DEF Quotient
  <1>8. /\ p[0] = 1
        /\ \A n \in Nat : n + 1 <= top => p[n + 1] = Reduced(B[n] + x[k] * p[n])
    <2>1. p[0] = 1
      BY <1>2, <1>7
    <2>2. ASSUME NEW n \in Nat, n + 1 <= top PROVE p[n + 1] = Reduced(B[n] + x[k] * p[n])
      <3>1. n + 1 \in Index /\ (n + 1) - 1 = n /\ n + 1 # 0 /\ B[n] = a[n]
        BY <1>1, <1>2, <2>2
      <3>2. p[n + 1] = Reduced(a[(n + 1) - 1] + x[k] * p[(n + 1) - 1])
        BY <1>7, <3>1
      <3>3. QED
        BY <3>1, <3>2
    <2>3. QED
      BY <2>1, <2>2
  <1>9. ASSUME NEW n \in Nat, n + 1 <= top, p[n] \in Int
        PROVE  p[n + 1] \in Int /\ Same(p[n + 1], B[n] + x[k] * p[n])
    <2>1. B[n] + x[k] * p[n] \in Int
      <3>1. B[n] \in Int /\ x[k] \in Int
        BY <1>1, <1>2
      <3>2. QED
        BY <1>9, <3>1
    <2>2. QED
      BY <1>8, <1>9, <2>1, ReducedIs
  <1>10. \A n \in 0..top : p[n] \in Int
    <2>1. p[0] \in Int
      BY <1>8
    <2>2. QED
      BY <1>2, <1>9, <2>1, Typed
  <1>11. All(x[k]) \in [Nat -> Int] /\ \A n \in Nat : All(x[k])[n] = x[k]
    BY <1>2 DEF All
  <1>12. ASSUME NEW n \in Nat, n + 1 <= top
         PROVE  Same(p[n + 1], A[n] + All(x[k])[n] * p[n])
    <2>1. n \in 0..top /\ p[n] \in Int /\ n \in Index
      BY <1>2, <1>10, <1>12
    <2>2. Same(p[n + 1], B[n] + x[k] * p[n]) /\ Same(B[n], A[n])
      BY <1>1, <1>9, <1>12, <2>1
    <2>3. Same(B[n] + x[k] * p[n], A[n] + x[k] * p[n])
      <3>1. Same(p[n], p[n]) /\ Same(x[k], x[k]) /\ B[n] \in Int /\ A[n] \in Int
        BY <1>1 DEF Same
      <3>2. QED
        BY <1>2, <2>1, <2>2, <3>1, SameStep
    <2>4. QED
      BY <1>11, <2>2, <2>3 DEF Same
  <1>13. Same(p[0], 1)
    BY <1>8 DEF Same
  <1>14. \A n \in 0..top : Same(p[n], Affine(1, A, All(x[k]))[n])
    <2>1. 1 \in Int
      OBVIOUS
    <2>2. QED
      BY <1>2, <1>10, <1>11, <1>12, <1>13, <2>1, Reductions, Zenon
  <1>15. QED
    BY <1>2, <1>7, <1>10, <1>14 DEF Horner

\* weave() computes a sum of products.
LEMMA RowIs ==
  ASSUME NEW r, NEW ys, NEW u \in [Nat -> Int],
         \A n \in Index : matrix[r][n] * ys[n] = u[n]
  PROVE  Row(r, ys) \in Field /\ Same(Row(r, ys), Sum(u)[N])
  <1> DEFINE F == [q \in Nat \X Int |-> BN_mod(q[2] + BN_mod(u[q[1]]))]
  <1>1. N \in Nat /\ \A n \in Nat : n + 1 <= N => n \in Index
    BY NAssumption DEF Index
  <1>2. ASSUME NEW n \in Nat, NEW z \in Int
        PROVE  /\ F[<<n, z>>] = BN_mod(z + BN_mod(u[n]))
               /\ BN_mod(z + BN_mod(u[n])) \in Field
               /\ BN_mod(z + BN_mod(u[n])) \in Int
               /\ Same(BN_mod(z + BN_mod(u[n])), u[n] + 1 * z)
    <2>1. u[n] \in Int /\ BN_mod(u[n]) \in Int /\ Same(BN_mod(u[n]), u[n])
      BY ModSame
    <2>2. z + BN_mod(u[n]) \in Int
      BY <2>1
    <2>3. Same(BN_mod(u[n]) + 1 * z, u[n] + 1 * z)
      <3>1. 1 \in Int /\ Same(1, 1) /\ Same(z, z)
        BY DEF Same
      <3>2. QED
        BY <2>1, <3>1, SameStep, Zenon
    <2>4. z + BN_mod(u[n]) = BN_mod(u[n]) + 1 * z
      BY <2>1
    <2>5. Same(BN_mod(z + BN_mod(u[n])), u[n] + 1 * z)
      BY <2>2, <2>3, <2>4, ModSame DEF Same
    <2>6. F[<<n, z>>] = BN_mod(z + BN_mod(u[n]))
      OBVIOUS
    <2>7. QED
      BY <2>2, <2>5, <2>6, ModIs
  <1>3. F \in [Nat \X Int -> Int]
    <2>1. ASSUME NEW q \in Nat \X Int PROVE F[q] \in Int
      <3>1. q[1] \in Nat /\ q[2] \in Int /\ q = <<q[1], q[2]>>
        OBVIOUS
      <3> HIDE DEF F
      <3>2. QED
        BY <1>2, <3>1
    <2>2. QED
      BY <2>1
  <1> HIDE DEF F
  <1>4. PICK f : StepsUpTo(f, 0, F, N)
    <2>1. 0 \in Int
      OBVIOUS
    <2>2. QED
      BY <1>1, <1>3, <2>1, UpTo, Zenon
  <1>5. f = [j \in 0..N |-> IF j = 0 THEN 0
               ELSE BN_mod(f[j - 1] + BN_mod(matrix[r][j - 1] * ys[j - 1]))]
    <2>1. ASSUME NEW j \in 0..N, j # 0
          PROVE  F[<<j - 1, f[j - 1]>>]
                 = BN_mod(f[j - 1] + BN_mod(matrix[r][j - 1] * ys[j - 1]))
      <3>1. j - 1 \in Nat /\ j - 1 \in Index /\ j - 1 \in 0..N
        BY <1>1, <2>1 DEF Index
      <3>2. matrix[r][j - 1] * ys[j - 1] = u[j - 1] /\ f[j - 1] \in Int
        BY <1>4, <3>1 DEF StepsUpTo
      <3>3. QED
        BY <1>2, <3>1, <3>2
    <2>2. QED
      BY <1>4, <2>1 DEF StepsUpTo
  <1>6. PICK p : /\ p = [j \in 0..N |-> IF j = 0 THEN 0
                           ELSE BN_mod(p[j - 1] + BN_mod(matrix[r][j - 1] * ys[j - 1]))]
                 /\ Row(r, ys) = p[N]
    BY <1>5, Zenon DEF Row
  <1>7. /\ p[0] = 0
        /\ \A n \in Nat : n + 1 <= N => p[n + 1] = BN_mod(p[n] + BN_mod(u[n]))
    <2>1. p[0] = 0
      BY <1>1, <1>6
    <2>2. ASSUME NEW n \in Nat, n + 1 <= N PROVE p[n + 1] = BN_mod(p[n] + BN_mod(u[n]))
      <3>1. n + 1 \in 0..N /\ (n + 1) - 1 = n /\ n + 1 # 0
        BY <1>1, <2>2
      <3>2. p[n + 1] = BN_mod(p[(n + 1) - 1]
                              + BN_mod(matrix[r][(n + 1) - 1] * ys[(n + 1) - 1]))
        BY <1>6, <3>1
      <3>3. matrix[r][n] * ys[n] = u[n]
        BY <1>1, <2>2
      <3>4. QED
        BY <3>1, <3>2, <3>3
    <2>3. QED
      BY <2>1, <2>2
  <1>8. \A n \in 0..N : p[n] \in Int
    <2>1. ASSUME NEW n \in Nat, n + 1 <= N, p[n] \in Int PROVE p[n + 1] \in Int
      BY <1>2, <1>7, <2>1
    <2>2. p[0] \in Int
      BY <1>7
    <2>3. QED
      BY <1>1, <2>1, <2>2, Typed
  <1>9. All(1) \in [Nat -> Int] /\ \A n \in Nat : All(1)[n] = 1
    BY DEF All
  <1>10. ASSUME NEW n \in Nat, n + 1 <= N PROVE Same(p[n + 1], u[n] + All(1)[n] * p[n])
    <2>1. p[n] \in Int
      BY <1>1, <1>8, <1>10
    <2>2. QED
      BY <1>2, <1>7, <1>9, <1>10, <2>1
  <1>11. \A n \in 0..N : Same(p[n], Affine(0, u, All(1))[n])
    <2>1. 0 \in Int /\ Same(p[0], 0)
      BY <1>7 DEF Same
    <2>2. QED
      BY <1>1, <1>8, <1>9, <1>10, <2>1, Reductions, Zenon
  <1>12. p[N] \in Field
    <2>1. N - 1 \in Nat /\ (N - 1) + 1 = N /\ N - 1 \in 0..N
      BY NAssumption
    <2>2. p[(N - 1) + 1] = BN_mod(p[N - 1] + BN_mod(u[N - 1])) /\ p[N - 1] \in Int
      BY <1>1, <1>7, <1>8, <2>1
    <2>3. QED
      BY <1>2, <2>1, <2>2
  <1>13. N \in 0..N
    BY <1>1
  <1>14. QED
    BY <1>6, <1>11, <1>12, <1>13 DEF Sum

\* evaluate() is Horner's rule, from the last coefficient down.
LEMMA EvaluateIs ==
  ASSUME NEW poly \in [Index -> Int], NEW X \in Int, NEW H \in [Nat -> Int],
         \A t \in Index : Same(poly[N - 1 - t], H[t])
  PROVE  evaluate(poly, X) = BN_mod(Affine(H[0], [t \in Nat |-> H[t + 1]], All(X))[N - 1])
  <1> DEFINE B == Seqn(poly)
             top == N - 1
             U == [t \in Nat |-> IF t < top THEN poly[top - 1 - t] ELSE 0]
             F == [q \in Nat \X Int |-> Reduced(U[q[1]] + X * q[2])]
             K == [t \in Nat |-> H[t + 1]]
  <1>1. N \in Nat /\ top \in Nat /\ Index = 0..top /\ top = N - 1 /\ poly[top] \in Int
    BY NAssumption DEF Index
  <1> HIDE DEF top
  <1>2. U \in [Nat -> Int] /\ \A t \in Nat : t < top => U[t] = poly[top - 1 - t]
    <2>1. ASSUME NEW t \in Nat PROVE (IF t < top THEN poly[top - 1 - t] ELSE 0) \in Int
      <3>1. CASE t < top
        <4>1. top - 1 - t \in 0..top
          BY <1>1, <3>1
        <4>2. QED
          BY <1>1, <3>1, <4>1
      <3>2. QED
        BY <3>1
    <2>2. QED
      BY <2>1
  <1> HIDE DEF U
  <1>3. ASSUME NEW n \in Nat, NEW z \in Int
        PROVE  F[<<n, z>>] = Reduced(U[n] + X * z) /\ F[<<n, z>>] \in Int
    <2>1. U[n] + X * z \in Int
      BY <1>2
    <2>2. QED
      BY <2>1, ReducedIs
  <1>4. F \in [Nat \X Int -> Int]
    <2>1. ASSUME NEW q \in Nat \X Int PROVE F[q] \in Int
      <3>1. q[1] \in Nat /\ q[2] \in Int /\ q = <<q[1], q[2]>>
        OBVIOUS
      <3> HIDE DEF F
      <3>2. QED
        BY <1>3, <3>1
    <2>2. QED
      BY <2>1
  <1> HIDE DEF F
  <1>5. PICK f : StepsUpTo(f, poly[top], F, top)
    BY <1>1, <1>4, UpTo, Zenon
  <1> DEFINE g == [k \in Index |-> f[top - k]]
  <1>6. g = [k \in Index |-> IF k = N - 1 THEN poly[N - 1]
                             ELSE Reduced(poly[k] + X * g[k + 1])]
    <2>1. ASSUME NEW k \in Index
          PROVE  f[top - k]
                   = IF k = N - 1 THEN poly[N - 1] ELSE Reduced(poly[k] + X * g[k + 1])
      <3>1. CASE k = top
        <4>1. top - k = 0 /\ 0 \in 0..top
          BY <1>1, <3>1
        <4>2. f[0] = poly[top]
          BY <1>5, <4>1 DEF StepsUpTo
        <4>3. QED
          BY <1>1, <3>1, <4>1, <4>2
      <3>2. CASE k # top
        <4>1. /\ k + 1 \in Index /\ (top - k) - 1 \in Nat /\ (top - k) - 1 \in 0..top
              /\ top - k \in 0..top /\ top - k # 0 /\ top - (k + 1) = (top - k) - 1
              /\ (top - k) - 1 < top /\ top - 1 - ((top - k) - 1) = k
          BY <1>1, <3>2
        <4>2. f[top - k] = F[<<(top - k) - 1, f[(top - k) - 1]>>] /\ f[(top - k) - 1] \in Int
          BY <1>5, <4>1 DEF StepsUpTo
        <4>3. U[(top - k) - 1] = poly[k]
          BY <1>2, <4>1
        <4>4. g[k + 1] = f[(top - k) - 1]
          BY <4>1
        <4> HIDE DEF g
        <4>5. f[top - k] = Reduced(poly[k] + X * g[k + 1])
          BY <1>3, <4>1, <4>2, <4>3, <4>4
        <4>6. QED
          BY <1>1, <3>2, <4>5
      <3>3. QED
        BY <3>1, <3>2
    <2>2. QED
      BY <2>1
  <1> HIDE DEF g
  <1>7. PICK p : /\ p = [k \in Index |-> IF k = N - 1 THEN poly[N - 1]
                                         ELSE Reduced(poly[k] + X * p[k + 1])]
                 /\ evaluate(poly, X) = BN_mod(p[0])
    BY <1>6, Zenon DEF evaluate
  <1> DEFINE e == [t \in 0..top |-> p[top - t]]
  <1>8. /\ e[0] = poly[top] /\ e[top] = p[0]
        /\ \A n \in Nat : n + 1 <= top => e[n + 1] = Reduced(U[n] + X * e[n])
    <2>1. top \in Index /\ 0 \in 0..top /\ top \in 0..top /\ top - 0 = top /\ top - top = 0
      BY <1>1
    <2>2. e[0] = poly[top] /\ e[top] = p[0]
      BY <1>1, <1>7, <2>1
    <2>3. ASSUME NEW n \in Nat, n + 1 <= top PROVE e[n + 1] = Reduced(U[n] + X * e[n])
      <3>1. /\ n + 1 \in 0..top /\ n \in 0..top /\ top - (n + 1) \in Index
            /\ top - (n + 1) # N - 1 /\ (top - (n + 1)) + 1 = top - n
            /\ top - (n + 1) = top - 1 - n /\ n < top
        BY <1>1, <2>3
      <3>2. p[top - (n + 1)] = Reduced(poly[top - (n + 1)] + X * p[(top - (n + 1)) + 1])
        BY <1>7, <3>1
      <3>3. U[n] = poly[top - (n + 1)]
        BY <1>2, <3>1
      <3>4. e[n + 1] = p[top - (n + 1)] /\ e[n] = p[top - n]
        BY <3>1
      <3> HIDE DEF e
      <3>5. QED
        BY <3>1, <3>2, <3>3, <3>4
    <2>4. QED
      BY <2>2, <2>3
  <1> HIDE DEF e
  <1>9. ASSUME NEW n \in Nat, n + 1 <= top, e[n] \in Int
        PROVE  e[n + 1] \in Int /\ Same(e[n + 1], U[n] + X * e[n])
    <2>1. U[n] + X * e[n] \in Int
      BY <1>2, <1>9
    <2>2. QED
      BY <1>8, <1>9, <2>1, ReducedIs
  <1>10. \A n \in 0..top : e[n] \in Int
    <2>1. e[0] \in Int
      BY <1>1, <1>8
    <2>2. QED
      BY <1>1, <1>9, <2>1, Typed
  <1>11. /\ All(X) \in [Nat -> Int] /\ \A n \in Nat : All(X)[n] = X
         /\ K \in [Nat -> Int] /\ \A n \in Nat : K[n] = H[n + 1]
    BY DEF All
  <1>12. ASSUME NEW n \in Nat, n + 1 <= top PROVE Same(e[n + 1], K[n] + All(X)[n] * e[n])
    <2>1. /\ n \in 0..top /\ e[n] \in Int /\ n < top /\ n + 1 \in Index
          /\ top - 1 - n = N - 1 - (n + 1)
      BY <1>1, <1>10, <1>12
    <2>2. Same(e[n + 1], U[n] + X * e[n])
      BY <1>9, <1>12, <2>1
    <2>3. Same(U[n], H[n + 1])
      BY <1>2, <2>1
    <2>4. Same(U[n] + X * e[n], H[n + 1] + X * e[n])
      <3>1. Same(e[n], e[n]) /\ Same(X, X) /\ U[n] \in Int /\ H[n + 1] \in Int
        BY <1>2 DEF Same
      <3>2. QED
        BY <2>1, <2>3, <3>1, SameStep, Zenon
    <2>5. QED
      BY <1>11, <2>2, <2>4 DEF Same
  <1> HIDE DEF K
  <1>13. H[0] \in Int /\ Same(e[0], H[0])
    <2>1. 0 \in Index /\ N - 1 - 0 = top
      BY <1>1
    <2>2. QED
      BY <1>8, <2>1
  <1>14. \A n \in 0..top : Same(e[n], Affine(H[0], K, All(X))[n])
    BY <1>1, <1>10, <1>11, <1>12, <1>13, Reductions, Zenon
  <1>15. top \in 0..top
    BY <1>1
  <1>16. Same(p[0], Affine(H[0], K, All(X))[N - 1])
    BY <1>1, <1>8, <1>14, <1>15
  <1>17. QED
    BY <1>7, <1>16 DEF K, Same

\* Two sequences with the same start and the same steps agree.
LEMMA Agree ==
  ASSUME NEW p, NEW q, NEW top \in Nat, p[0] = q[0],
         \A n \in Nat : n + 1 <= top /\ p[n] = q[n] => p[n + 1] = q[n + 1]
  PROVE  \A n \in 0..top : p[n] = q[n]
  <1> DEFINE S == {n \in Nat : n <= top => p[n] = q[n]}
  <1>1. 0 \in S
    OBVIOUS
  <1>2. ASSUME NEW n \in Nat, n \in S PROVE n + 1 \in S
    BY <1>2
  <1>3. \A n \in Nat : n \in S
    <2> HIDE DEF S
    <2>1. QED
      BY <1>1, <1>2, Induction
  <1>4. QED
    BY <1>3

\* The product in the property is that of the roots.
LEMMA ProductIs ==
  ASSUME x \in [Index -> Int], NEW n \in Nat, n <= N, NEW X \in Int
  PROVE  Product(n, X) = Roots(Seqn(x), X)[n]
  <1> DEFINE R == Seqn(x)
             h == Roots(R, X)
             f == [j \in 0..n |-> h[j]]
  <1>1. R \in [Nat -> Int] /\ \A j \in Index : R[j] = x[j]
    BY SeqnIs
  <1> HIDE DEF R
  <1>2. h \in [Nat -> Int] /\ h[0] = 1 /\ \A j \in Nat : h[j + 1] = (X - R[j]) * h[j]
    BY <1>1, RootsIs
  <1> HIDE DEF h
  <1>3. ASSUME NEW j \in Nat, j + 1 <= n PROVE h[j + 1] = h[j] * (X - x[j])
    <2>1. j \in Index
      BY <1>3, NAssumption DEF Index
    <2>2. R[j] \in Int /\ h[j] \in Int /\ R[j] = x[j] /\ h[j + 1] = (X - R[j]) * h[j]
      BY <1>1, <1>2, <2>1
    <2>3. (X - R[j]) * h[j] = h[j] * (X - R[j])
      BY <2>2
    <2>4. QED
      BY <2>2, <2>3
  <1>4. f = [j \in 0..n |-> IF j = 0 THEN 1 ELSE f[j - 1] * (X - x[j - 1])]
    <2>1. ASSUME NEW j \in 0..n PROVE h[j] = IF j = 0 THEN 1 ELSE f[j - 1] * (X - x[j - 1])
      <3>1. CASE j = 0
        BY <1>2, <3>1
      <3>2. CASE j # 0
        <4>1. j - 1 \in Nat /\ (j - 1) + 1 = j /\ (j - 1) + 1 <= n /\ j - 1 \in 0..n
          BY <3>2
        <4>2. h[(j - 1) + 1] = h[j - 1] * (X - x[j - 1])
          BY <1>3, <4>1
        <4>3. f[j - 1] = h[j - 1]
          BY <4>1
        <4> HIDE DEF f
        <4>4. QED
          BY <3>2, <4>1, <4>2, <4>3
      <3>3. QED
        BY <3>1, <3>2
    <2>2. QED
      BY <2>1
  <1> HIDE DEF f
  <1>5. PICK p : /\ p = [j \in 0..n |-> IF j = 0 THEN 1 ELSE p[j - 1] * (X - x[j - 1])]
                 /\ Product(n, X) = p[n]
    BY <1>4, Zenon DEF Product
  <1>6. ASSUME NEW j \in Nat, j + 1 <= n, p[j] = h[j] PROVE p[j + 1] = h[j + 1]
    <2>1. j + 1 \in 0..n /\ (j + 1) - 1 = j /\ j + 1 # 0
      BY <1>6
    <2>2. p[j + 1] = p[(j + 1) - 1] * (X - x[(j + 1) - 1])
      BY <1>5, <2>1
    <2>3. QED
      BY <1>3, <1>6, <2>1, <2>2
  <1>7. p[0] = h[0]
    BY <1>2, <1>5
  <1>8. p[n] = h[n]
    BY <1>6, <1>7, Agree
  <1>9. QED
    BY <1>5, <1>8 DEF h, R

\* The powers of X.
Powers(X) == Horner(All(0), X)

\* The power in the property.
LEMMA PowerIs ==
  ASSUME NEW n \in Nat, NEW X \in Int
  PROVE  /\ Powers(X) \in [Nat -> Int] /\ Powers(X)[0] = 1
         /\ \A j \in Nat : Powers(X)[j + 1] = Powers(X)[j] * X
         /\ Power(X, n) = Powers(X)[n]
  <1> DEFINE h == Powers(X)
             f == [j \in 0..n |-> h[j]]
  <1>1. All(0) \in [Nat -> Int] /\ \A j \in Nat : All(0)[j] = 0
    BY DEF All
  <1>2. h \in [Nat -> Int] /\ h[0] = 1 /\ \A j \in Nat : h[j + 1] = All(0)[j] + X * h[j]
    BY <1>1, HornerIs DEF Powers
  <1> HIDE DEF h
  <1>3. ASSUME NEW j \in Nat PROVE h[j + 1] = h[j] * X
    <2>1. h[j] \in Int /\ h[j + 1] = 0 + X * h[j]
      BY <1>1, <1>2
    <2>2. QED
      BY <2>1
  <1>4. f = [j \in 0..n |-> IF j = 0 THEN 1 ELSE f[j - 1] * X]
    <2>1. ASSUME NEW j \in 0..n PROVE h[j] = IF j = 0 THEN 1 ELSE f[j - 1] * X
      <3>1. CASE j = 0
        BY <1>2, <3>1
      <3>2. CASE j # 0
        <4>1. j - 1 \in Nat /\ (j - 1) + 1 = j /\ j - 1 \in 0..n
          BY <3>2
        <4>2. h[(j - 1) + 1] = h[j - 1] * X
          BY <1>3, <4>1
        <4>3. f[j - 1] = h[j - 1]
          BY <4>1
        <4> HIDE DEF f
        <4>4. QED
          BY <3>2, <4>1, <4>2, <4>3
      <3>3. QED
        BY <3>1, <3>2
    <2>2. QED
      BY <2>1
  <1> HIDE DEF f
  <1>5. PICK p : p = [j \in 0..n |-> IF j = 0 THEN 1 ELSE p[j - 1] * X] /\ Power(X, n) = p[n]
    BY <1>4, Zenon DEF Power
  <1>6. ASSUME NEW j \in Nat, j + 1 <= n, p[j] = h[j] PROVE p[j + 1] = h[j + 1]
    <2>1. j + 1 \in 0..n /\ (j + 1) - 1 = j /\ j + 1 # 0
      BY <1>6
    <2>2. p[j + 1] = p[(j + 1) - 1] * X
      BY <1>5, <2>1
    <2>3. QED
      BY <1>3, <1>6, <2>1, <2>2
  <1>7. p[0] = h[0]
    BY <1>2, <1>5
  <1>8. p[n] = h[n]
    BY <1>6, <1>7, Agree
  <1>9. QED
    BY <1>2, <1>3, <1>5, <1>8 DEF h

\* The value of the polynomial in the property is that of Horner's rule.
LEMMA MasterIs ==
  ASSUME a \in [Index -> Int], NEW n \in Nat, n <= N, NEW X \in Int,
         NEW A \in [Nat -> Int], \A j \in Nat : j < n => Same(a[j], A[j])
  PROVE  Same(Master(n, X), Horner(A, X)[n])
  <1> DEFINE B == Seqn(a)
             h == Horner(B, X)
             w == Powers(X)
             g == [k \in Nat |-> h[k] * w[n - k]]
             f == [k \in 0..n |-> g[k]]
  <1>1. B \in [Nat -> Int] /\ \A j \in Index : B[j] = a[j]
    BY SeqnIs
  <1>2. \A j \in Nat : j + 1 <= n => j \in Index
    BY NAssumption DEF Index
  <1> HIDE DEF B
  <1>3. h \in [Nat -> Int] /\ h[0] = 1 /\ \A j \in Nat : h[j + 1] = B[j] + X * h[j]
    BY <1>1, HornerIs
  <1>4. /\ w \in [Nat -> Int] /\ w[0] = 1 /\ \A j \in Nat : w[j + 1] = w[j] * X
        /\ \A j \in Nat : Power(X, j) = w[j]
    BY PowerIs
  <1> HIDE DEF h, w
  <1>5. g[0] = Power(X, n) /\ g[n] = h[n]
    <2>1. n - 0 = n /\ n - n = 0
      OBVIOUS
    <2>2. w[n] \in Int /\ h[n] \in Int
      BY <1>3, <1>4
    <2>3. g[0] = h[0] * w[n] /\ g[n] = h[n] * w[0]
      BY <2>1
    <2> HIDE DEF g
    <2>4. QED
      BY <1>3, <1>4, <2>2, <2>3
  <1>6. ASSUME NEW j \in Nat, j + 1 <= n PROVE g[j + 1] = g[j] + a[j] * Power(X, n - (j + 1))
    <2>1. n - (j + 1) \in Nat /\ n - j = (n - (j + 1)) + 1 /\ n - j \in Nat
      BY <1>6
    <2>2. g[j + 1] = h[j + 1] * w[n - (j + 1)] /\ g[j] = h[j] * w[n - j]
      OBVIOUS
    <2> HIDE DEF g
    <2> DEFINE v == w[n - (j + 1)]
               z == h[j]
               b == B[j]
    <2>3. v \in Int /\ z \in Int /\ b \in Int /\ b = a[j]
      BY <1>1, <1>2, <1>3, <1>4, <1>6, <2>1
    <2>4. w[n - j] = v * X /\ h[j + 1] = b + X * z
      BY <1>3, <1>4, <2>1
    <2>5. Power(X, n - (j + 1)) = v
      BY <1>4, <2>1
    <2> HIDE DEF v, z, b
    <2>6. (b + X * z) * v = z * (v * X) + b * v
      BY <2>3
    <2>7. g[j + 1] = (b + X * z) * v /\ g[j] = z * (v * X)
      BY <2>2, <2>4 DEF v, z
    <2>8. QED
      BY <2>3, <2>5, <2>6, <2>7
  <1> HIDE DEF g
  <1>7. f = [k \in 0..n |-> IF k = 0 THEN Power(X, n)
                            ELSE f[k - 1] + a[k - 1] * Power(X, n - k)]
    <2>1. ASSUME NEW k \in 0..n
          PROVE  g[k] = IF k = 0 THEN Power(X, n) ELSE f[k - 1] + a[k - 1] * Power(X, n - k)
      <3>1. CASE k = 0
        BY <1>5, <3>1
      <3>2. CASE k # 0
        <4>1. k - 1 \in Nat /\ (k - 1) + 1 = k /\ (k - 1) + 1 <= n /\ k - 1 \in 0..n
          BY <3>2
        <4>2. g[(k - 1) + 1] = g[k - 1] + a[k - 1] * Power(X, n - ((k - 1) + 1))
          BY <1>6, <4>1
        <4>3. f[k - 1] = g[k - 1]
          BY <4>1
        <4> HIDE DEF f
        <4>4. QED
          BY <3>2, <4>1, <4>2, <4>3
      <3>3. QED
        BY <3>1, <3>2
    <2>2. QED
      BY <2>1
  <1> HIDE DEF f
  <1>8. PICK p : /\ p = [k \in 0..n |-> IF k = 0 THEN Power(X, n)
                                        ELSE p[k - 1] + a[k - 1] * Power(X, n - k)]
                 /\ Master(n, X) = p[n]
    BY <1>7, Zenon DEF Master
  <1>9. ASSUME NEW j \in Nat, j + 1 <= n, p[j] = g[j] PROVE p[j + 1] = g[j + 1]
    <2>1. j + 1 \in 0..n /\ (j + 1) - 1 = j /\ j + 1 # 0
      BY <1>9
    <2>2. p[j + 1] = p[(j + 1) - 1] + a[(j + 1) - 1] * Power(X, n - (j + 1))
      BY <1>8, <2>1
    <2>3. QED
      BY <1>6, <1>9, <2>1, <2>2
  <1>10. p[0] = g[0]
    BY <1>5, <1>8
  <1>11. p[n] = g[n]
    <2>1. \A j \in 0..n : p[j] = g[j]
      BY <1>9, <1>10, Agree, Zenon
    <2>2. QED
      BY <2>1
  <1>12. ASSUME NEW j \in Nat, j + 1 <= n PROVE Same(h[j + 1], A[j] + All(X)[j] * h[j])
    <2>1. Same(B[j], A[j]) /\ h[j + 1] = B[j] + X * h[j] /\ All(X)[j] = X
      BY <1>1, <1>2, <1>3, <1>12 DEF All
    <2>2. /\ h[j] \in Int /\ B[j] \in Int /\ A[j] \in Int
          /\ Same(h[j], h[j]) /\ Same(X, X)
      BY <1>1, <1>3 DEF Same
    <2>3. Same(B[j] + X * h[j], A[j] + X * h[j])
      BY <2>1, <2>2, SameStep, Zenon
    <2>4. QED
      BY <2>1, <2>3
  <1>13. \A j \in 0..n : Same(h[j], Affine(1, A, All(X))[j])
    <2>1. 1 \in Int /\ Same(h[0], 1) /\ All(X) \in [Nat -> Int] /\ \A j \in 0..n : h[j] \in Int
      BY <1>3 DEF Same, All
    <2>2. QED
      BY <1>12, <2>1, Reductions, Zenon
  <1>14. n \in 0..n
    OBVIOUS
  <1>15. QED
    BY <1>5, <1>8, <1>11, <1>13, <1>14 DEF Horner

\* The differences with the other x values are not 0, and so is their product.
LEMMA OthersNotZero ==
  ASSUME x \in [Index -> Int], Distinct(x), NEW k \in Index
  PROVE  Others(Seqn(x), k)[N] \in Int /\ ~Same(Others(Seqn(x), k)[N], 0)
  <1> DEFINE R == Seqn(x)
             p == Others(R, k)
             S == {n \in Nat : n <= N => ~Same(p[n], 0)}
  <1>1. R \in [Nat -> Int] /\ (\A n \in Index : R[n] = x[n]) /\ k \in Nat
    BY SeqnIs
  <1> HIDE DEF R
  <1>2. /\ p \in [Nat -> Int] /\ p[0] = 1
        /\ \A n \in Nat : p[n + 1] = IF n = k THEN p[n] ELSE (R[k] - R[n]) * p[n]
    BY <1>1, OthersIs
  <1> HIDE DEF p
  <1>3. N \in Nat /\ 0 \in Int
    BY NAssumption
  <1>4. 0 \in S
    <2>1. 1 \in Field /\ 0 \in Field
      BY PrimeAssumption DEF Field
    <2>2. BN_mod(1) = 1 /\ BN_mod(0) = 0
      BY <2>1, FieldMod
    <2>3. QED
      BY <1>2, <2>2 DEF Same
  <1>5. ASSUME NEW n \in Nat, n \in S PROVE n + 1 \in S
    <2>1. SUFFICES ASSUME n + 1 <= N PROVE ~Same(p[n + 1], 0)
      OBVIOUS
    <2>2. ~Same(p[n], 0) /\ n \in Index /\ R[n] \in Int /\ R[k] \in Int /\ p[n] \in Int
      BY <1>1, <1>2, <1>3, <1>5, <2>1 DEF Index
    <2>3. CASE n = k
      BY <1>2, <2>2, <2>3
    <2>4. CASE n # k
      <3>1. ~Same(x[n], x[k])
        BY <2>2, <2>4 DEF Distinct, Same
      <3>2. ~Same(R[k] - R[n], 0)
        <4>1. SUFFICES ASSUME Same(R[k] - R[n], 0) PROVE FALSE
          OBVIOUS
        <4>2. R[k] - R[n] \in Int
          BY <2>2
        <4>3. PICK q \in Int : R[k] - R[n] = 0 + q * Prime
          BY <1>3, <4>1, <4>2, SameIff
        <4>4. R[k] = R[n] + q * Prime
          BY <2>2, <4>3, PrimeAssumption
        <4>5. Same(R[k], R[n])
          BY <2>2, <4>4, SameIff
        <4>6. QED
          BY <1>1, <2>2, <3>1, <4>5 DEF Same
      <3>3. R[k] - R[n] \in Int
        BY <2>2
      <3>4. ~Same((R[k] - R[n]) * p[n], 0)
        BY <2>2, <3>2, <3>3, NoZeroDivisors
      <3>5. QED
        BY <1>2, <2>4, <3>4
    <2>5. QED
      BY <2>3, <2>4
  <1>6. \A n \in Nat : n \in S
    <2> HIDE DEF S
    <2>1. QED
      BY <1>4, <1>5, Induction
  <1>7. p[N] \in Int /\ ~Same(p[N], 0)
    BY <1>2, <1>3, <1>6
  <1>8. QED
    BY <1>7 DEF p, R

\* So precompute() has an inverse of it to multiply with.
LEMMA InverseIs ==
  ASSUME x \in [Index -> Int], Distinct(x), NEW k \in Index
  PROVE  LET v == BN_mod_inverse(Denominator(k)) IN
         v \in Int /\ Same(Others(Seqn(x), k)[N] * v, 1)
  <1> DEFINE D == Denominator(k)
             O == Others(Seqn(x), k)[N]
             v == BN_mod_inverse(D)
  <1>1. D \in Int /\ Same(D, O)
    BY DenominatorIs
  <1>2. O \in Int /\ ~Same(O, 0)
    BY OthersNotZero
  <1> HIDE DEF D, O
  <1>3. BN_mod(D) # 0
    <2>1. BN_mod(0) = 0
      BY FieldMod, PrimeAssumption DEF Field
    <2>2. QED
      BY <1>1, <1>2, <2>1 DEF Same
  <1>4. \E r \in Field : BN_mod(D * r) = 1
    BY <1>1, <1>3, InverseExists
  <1>5. v \in Field /\ BN_mod(D * v) = 1
    BY <1>4, Zenon DEF BN_mod_inverse
  <1> HIDE DEF v
  <1>6. v \in Int
    BY <1>5, FieldMod
  <1>7. Same(D * v, O * v)
    <2>1. Same(v, v)
      BY DEF Same
    <2>2. QED
      BY <1>1, <1>2, <1>6, <2>1, SameTimes, Zenon
  <1>8. BN_mod(1) = 1
    BY FieldMod, PrimeAssumption DEF Field
  <1>9. QED
    BY <1>5, <1>6, <1>7, <1>8 DEF D, O, v, Same

(***************************************************************************)
(* The invariant.  A is the polynomial that a stands for, with integers    *)
(* that are never reduced: array a has its coefficients up to m, and above *)
(* m already those of the product with (X - x[i]).                         *)
(***************************************************************************)
Types ==
  /\ lazy \in BOOLEAN
  /\ pc \in {"multiply", "columns", "weave", "done"}
  /\ x \in [Index -> Int] /\ Distinct(x)
  /\ a \in [Index -> Int]
  /\ i \in 2..N /\ m \in 0..i
  /\ pc = "multiply" => i < N
  /\ pc # "multiply" => i = N /\ m = N
  /\ matrix \in [Index -> [Index -> Field]]
  /\ y \in [Index -> Field]
  /\ c \in [Index -> Field]

\* The array while the polynomial is multiplied in place.
InPlace(A) ==
  /\ Exact(A, Seqn(x), i)
  /\ \A j \in Nat : j <= m /\ j < i => Same(a[j], A[j])
  /\ \A j \in Nat : m < j /\ j <= i => Same(a[j], A[j] - x[i] * A[j - 1])

\* The columns are the quotients, divided by their values at x[k].
Divided(A, v) ==
  /\ v \in [Nat -> Int]
  /\ \A k \in Index : Same(Others(Seqn(x), k)[N] * v[k], 1)
  /\ \A r, k \in Index : Same(matrix[r][k], Horner(A, x[k])[N - 1 - r] * v[k])

\* The products that weave() adds up.
Products(r) == [n \in Nat |-> IF n \in Index THEN matrix[r][n] * y[n] ELSE 0]

Inv ==
  /\ Types
  /\ \E A : /\ InPlace(A)
            /\ pc \in {"weave", "done"} => \E v : Divided(A, v)
  /\ pc = "done" => \A r \in Index : Same(c[r], Sum(Products(r))[N])

\* The first two x values.
LEMMA InitInv ==
  ASSUME Init
  PROVE  Inv
  <1> DEFINE R == Seqn(x)
             One == [j \in Nat |-> IF j = 0 THEN -R[0] ELSE 0]
             A == Times(One, R[1])
  <1> USE DEF Init
  <1>1. x \in [Index -> Int] /\ Distinct(x) /\ 0 \in Index /\ 1 \in Index
    <2>1. x \in [Index -> XValues] /\ Distinct(x)
      OBVIOUS
    <2>2. XValues \subseteq Int
      BY XValuesAssumption
    <2>3. 0 \in Index /\ 1 \in Index
      BY NAssumption DEF Index
    <2>4. QED
      BY <2>1, <2>2, <2>3
  <1>2. R \in [Nat -> Int] /\ R[0] = x[0] /\ R[1] = x[1] /\ x[0] \in Int /\ x[1] \in Int
    BY <1>1, SeqnIs
  <1> HIDE DEF R
  <1>3. Exact(A, R, 2)
    <2>1. Exact(One, R, 1)
      BY <1>2, ExactOne
    <2> HIDE DEF One
    <2>2. 1 \in Nat /\ 1 >= 1 /\ 1 + 1 = 2
      OBVIOUS
    <2>3. Exact(A, R, 1 + 1)
      BY <1>2, <2>1, <2>2, ExactNext
    <2>4. QED
      BY <2>2, <2>3
  <1>4. A[0] = -(x[0] + x[1]) /\ A[1] = x[0] * x[1]
    <2>1. One[0] = -x[0] /\ One[1] = 0
      BY <1>2
    <2> HIDE DEF One
    <2>2. A[0] = One[0] - R[1] /\ A[1] = One[1] - R[1] * One[1 - 1]
      BY DEF Times
    <2> HIDE DEF A
    <2>3. 1 - 1 = 0
      OBVIOUS
    <2>4. QED
      BY <1>2, <2>1, <2>2, <2>3
  <1> HIDE DEF A
  <1>5. a[0] = -BN_mod(x[0] + x[1]) /\ a[1] = BN_mod(x[0] * x[1])
    BY <1>1
  <1>6. a[0] \in Int /\ Same(a[0], A[0])
    <2> DEFINE u == x[0] + x[1]
    <2>1. u \in Int
      BY <1>2
    <2> HIDE DEF u
    <2>2. BN_mod(u) \in Int /\ Same(BN_mod(u), u)
      BY <2>1, ModSame
    <2>3. -1 \in Int /\ Same(-1, -1)
      BY DEF Same
    <2>4. Same((-1) * BN_mod(u), (-1) * u)
      BY <2>1, <2>2, <2>3, SameTimes, Zenon
    <2>5. (-1) * BN_mod(u) = -BN_mod(u) /\ (-1) * u = -u /\ -BN_mod(u) \in Int
      BY <2>1, <2>2
    <2>6. a[0] = -BN_mod(u) /\ A[0] = -u
      BY <1>4, <1>5 DEF u
    <2>7. QED
      BY <2>4, <2>5, <2>6
  <1>7. a[1] \in Int /\ Same(a[1], A[1])
    <2>1. x[0] * x[1] \in Int
      BY <1>2
    <2>2. QED
      BY <1>4, <1>5, <2>1, ModSame
  <1>8. InPlace(A)
    <2>1. ASSUME NEW j \in Nat, j < 2 PROVE Same(a[j], A[j])
      <3>1. j = 0 \/ j = 1
        BY <2>1
      <3>2. QED
        BY <1>6, <1>7, <3>1
    <2>2. QED
      BY <1>3, <2>1 DEF InPlace, R
  <1>9. Types
    <2>1. a \in [Index -> Int]
      <3>1. ASSUME NEW k \in Index
            PROVE (CASE k = 0 -> -BN_mod(x[0] + x[1])
                     [] k = 1 -> BN_mod(x[0] * x[1])
                     [] OTHER -> 0) \in Int
        BY <1>5, <1>6, <1>7
      <3>2. QED
        BY <3>1
    <2>2. 0 \in Field /\ 2 \in 2..N /\ 2 \in 0..2
      BY PrimeAssumption, NAssumption DEF Field
    <2>3. /\ matrix \in [Index -> [Index -> Field]]
          /\ y \in [Index -> Field] /\ c \in [Index -> Field]
      BY <2>2
    <2>4. /\ pc \in {"multiply", "columns"} /\ lazy \in BOOLEAN /\ i = 2 /\ m = 2
          /\ pc = "multiply" <=> N > 2
      OBVIOUS
    <2>5. QED
      BY <1>1, <2>1, <2>2, <2>3, <2>4, NAssumption DEF Types
  <1>10. pc \notin {"weave", "done"}
    OBVIOUS
  <1>11. QED
    BY <1>8, <1>9, <1>10 DEF Inv

\* The products and sums of the in-place multiplication.
LEMMA SameDifference ==
  ASSUME NEW u \in Int, NEW U \in Int, NEW z \in Int, NEW v \in Int, NEW V \in Int,
         Same(u, U), Same(v, V)
  PROVE  u - z * v \in Int /\ Same(u - z * v, U - z * V)
  <1>1. -z \in Int /\ Same(-z, -z)
    BY DEF Same
  <1>2. Same(u + (-z) * v, U + (-z) * V)
    BY <1>1, SameStep, Zenon
  <1>3. u + (-z) * v = u - z * v /\ U + (-z) * V = U - z * V /\ u - z * v \in Int
    OBVIOUS
  <1>4. QED
    BY <1>2, <1>3

\* What a multiplication step leaves alone.
LEMMA StillTyped ==
  ASSUME Types, UNCHANGED <<lazy, pc, x, i, matrix, y, c>>, pc = "multiply",
         NEW j \in Index, NEW v \in Int, a' = [a EXCEPT ![j] = v], m' \in 0..i
  PROVE  Types' /\ a'[j] = v /\ \A k \in Index : k # j => a'[k] = a[k]
  <1>1. a' \in [Index -> Int] /\ a'[j] = v /\ \A k \in Index : k # j => a'[k] = a[k]
    BY DEF Types
  <1>2. QED
    BY <1>1 DEF Types, Distinct

\* a[i] is set from a[i-1].
LEMMA TopInv ==
  ASSUME Inv, MultiplyTop
  PROVE  Inv'
  <1> USE DEF MultiplyTop
  <1>1. PICK A : InPlace(A)
    BY DEF Inv
  <1>2. /\ Types /\ i \in Nat /\ i < N /\ i >= 2 /\ i \in Index /\ i - 1 \in Index
        /\ i - 1 \in Nat /\ x[i] \in Int /\ a[i - 1] \in Int
    BY NAssumption DEF Inv, Types, Index
  <1>3. /\ A \in [Nat -> Int] /\ A[i] = 0 /\ A[i] \in Int /\ A[i - 1] \in Int
        /\ Same(a[i - 1], A[i - 1])
    BY <1>1, <1>2 DEF InPlace, Exact
  <1> DEFINE u == -x[i] * a[i - 1]
             v == Reduced(u)
  <1>4. u \in Int /\ Same(u, A[i] - x[i] * A[i - 1])
    <2>1. 0 \in Int /\ Same(0, 0)
      BY DEF Same
    <2>2. Same(0 - x[i] * a[i - 1], 0 - x[i] * A[i - 1])
      BY <1>2, <1>3, <2>1, SameDifference, Zenon
    <2>3. u = 0 - x[i] * a[i - 1] /\ u \in Int
      BY <1>2
    <2> HIDE DEF u
    <2>4. QED
      BY <1>3, <2>2, <2>3
  <1> HIDE DEF u
  <1>5. v \in Int /\ Same(v, A[i] - x[i] * A[i - 1])
    BY <1>4, ReducedIs DEF Same
  <1>6. a' = [a EXCEPT ![i] = v] /\ m' = i - 1 /\ m' \in 0..i /\ m = i
    BY <1>2 DEF u
  <1> HIDE DEF v
  <1>7. Types' /\ a'[i] = v /\ \A k \in Index : k # i => a'[k] = a[k]
    BY <1>2, <1>5, <1>6, StillTyped
  <1>8. InPlace(A)'
    <2>1. ASSUME NEW j \in Nat, j < i PROVE Same(a'[j], A[j])
      <3>1. j \in Index /\ j # i /\ j <= m
        BY <1>2, <1>6, <2>1, NAssumption DEF Index
      <3>2. QED
        BY <1>1, <1>7, <2>1, <3>1 DEF InPlace
    <2>2. ASSUME NEW j \in Nat, m' < j, j <= i PROVE Same(a'[j], A[j] - x[i] * A[j - 1])
      <3>1. j = i
        BY <1>2, <1>6, <2>2
      <3>2. QED
        BY <1>5, <1>7, <3>1
    <2>3. Exact(A, Seqn(x), i) /\ x' = x /\ i' = i
      BY <1>1 DEF InPlace
    <2>4. QED
      BY <2>1, <2>2, <2>3 DEF InPlace
  <1>9. pc' = "multiply"
    OBVIOUS
  <1>10. QED
    BY <1>7, <1>8, <1>9 DEF Inv

\* a[m] is set from a[m-1], which still has its old value.
LEMMA InnerInv ==
  ASSUME Inv, MultiplyInner
  PROVE  Inv'
  <1> USE DEF MultiplyInner
  <1>1. PICK A : InPlace(A)
    BY DEF Inv
  <1>2. /\ Types /\ i \in Nat /\ i < N /\ m \in Nat /\ 0 < m /\ m < i
        /\ m \in Index /\ m - 1 \in Index /\ i \in Index
        /\ m - 1 \in Nat /\ x[i] \in Int /\ a[m] \in Int /\ a[m - 1] \in Int
    <2>1. /\ Types /\ N \in Nat /\ i \in 2..N /\ i < N /\ m \in 0..i /\ 0 < m /\ m < i
          /\ x \in [Index -> Int] /\ a \in [Index -> Int]
      BY NAssumption DEF Inv, Types
    <2>2. /\ i \in Nat /\ m \in Nat /\ m \in Index /\ m - 1 \in Index /\ i \in Index
          /\ m - 1 \in Nat
      BY <2>1 DEF Index
    <2>3. QED
      BY <2>1, <2>2
  <1>3. /\ A \in [Nat -> Int] /\ A[m] \in Int /\ A[m - 1] \in Int
        /\ Same(a[m], A[m]) /\ Same(a[m - 1], A[m - 1])
    BY <1>1, <1>2 DEF InPlace, Exact
  <1> DEFINE u == a[m] - x[i] * a[m - 1]
             v == Reduced(u)
  <1>4. u \in Int /\ Same(u, A[m] - x[i] * A[m - 1])
    BY <1>2, <1>3, SameDifference, Zenon
  <1> HIDE DEF u
  <1>5. v \in Int /\ Same(v, A[m] - x[i] * A[m - 1])
    BY <1>4, ReducedIs DEF Same
  <1>6. a' = [a EXCEPT ![m] = v] /\ m' = m - 1 /\ m' \in 0..i
    BY <1>2 DEF u
  <1> HIDE DEF v
  <1>7. Types' /\ a'[m] = v /\ \A k \in Index : k # m => a'[k] = a[k]
    BY <1>2, <1>5, <1>6, StillTyped
  <1>8. InPlace(A)'
    <2>1. ASSUME NEW j \in Nat, j <= m', j < i PROVE Same(a'[j], A[j])
      <3>1. j \in Index /\ j # m /\ j <= m
        BY <1>2, <1>6, <2>1, NAssumption DEF Index
      <3>2. QED
        BY <1>1, <1>7, <2>1, <3>1 DEF InPlace
    <2>2. ASSUME NEW j \in Nat, m' < j, j <= i PROVE Same(a'[j], A[j] - x[i] * A[j - 1])
      <3>1. CASE j = m
        BY <1>5, <1>7, <3>1
      <3>2. CASE j # m
        <4>1. j \in Index /\ m < j
          BY <1>2, <1>6, <2>2, <3>2, NAssumption DEF Index
        <4>2. QED
          BY <1>1, <1>7, <2>2, <3>2, <4>1 DEF InPlace
      <3>3. QED
        BY <3>1, <3>2
    <2>3. Exact(A, Seqn(x), i) /\ x' = x /\ i' = i
      BY <1>1 DEF InPlace
    <2>4. QED
      BY <2>1, <2>2, <2>3 DEF InPlace
  <1>9. pc' = "multiply"
    OBVIOUS
  <1>10. QED
    BY <1>7, <1>8, <1>9 DEF Inv

\* With a[0] the multiplication is complete.
LEMMA LastInv ==
  ASSUME Inv, MultiplyLast
  PROVE  Inv'
  <1> USE DEF MultiplyLast
  <1>1. PICK A : InPlace(A)
    BY DEF Inv
  <1>2. /\ Types /\ i \in Nat /\ i >= 2 /\ i < N /\ m = 0
        /\ 0 \in Index /\ i \in Index /\ x[i] \in Int /\ a[0] \in Int
    BY NAssumption DEF Inv, Types, Index
  <1>3. /\ A \in [Nat -> Int] /\ A[0] \in Int /\ Same(a[0], A[0])
        /\ Exact(A, Seqn(x), i)
    BY <1>1, <1>2 DEF InPlace, Exact
  <1>4. Seqn(x) \in [Nat -> Int] /\ Seqn(x)[i] = x[i]
    BY <1>2, SeqnIs DEF Types
  <1>5. PICK T : T = Times(A, x[i])
    OBVIOUS
  <1> DEFINE v == BN_mod(a[0] - x[i])
  <1>6. Exact(T, Seqn(x), i + 1)
    <2>1. i >= 1
      BY <1>2
    <2>2. Exact(Times(A, Seqn(x)[i]), Seqn(x), i + 1)
      BY <1>2, <1>3, <1>4, <2>1, ExactNext
    <2>3. QED
      BY <1>4, <1>5, <2>2
  <1>7. T[0] = A[0] - x[i] /\ \A j \in Nat : j # 0 => T[j] = A[j] - x[i] * A[j - 1]
    BY <1>5 DEF Times
  <1>8. v \in Int /\ Same(v, T[0])
    <2>1. 1 \in Int /\ Same(1, 1)
      BY DEF Same
    <2>2. a[0] - x[i] * 1 \in Int /\ Same(a[0] - x[i] * 1, A[0] - x[i] * 1)
      BY <1>2, <1>3, <2>1, SameDifference, Zenon
    <2>3. a[0] - x[i] * 1 = a[0] - x[i] /\ A[0] - x[i] * 1 = A[0] - x[i]
      BY <1>2, <1>3
    <2>4. v \in Int /\ Same(v, a[0] - x[i])
      BY <2>2, <2>3, ModSame
    <2> HIDE DEF v
    <2>5. QED
      BY <1>7, <2>2, <2>3, <2>4 DEF Same
  <1>9. a' = [a EXCEPT ![0] = v] /\ i' = i + 1 /\ m' = i + 1
    OBVIOUS
  <1> HIDE DEF v
  <1>10. a' \in [Index -> Int] /\ a'[0] = v /\ \A k \in Index : k # 0 => a'[k] = a[k]
    BY <1>2, <1>8, <1>9 DEF Types
  <1>11. Types'
    <2>1. i + 1 \in 2..N /\ i + 1 \in 0..(i + 1) /\ (~(i + 1 < N) => i + 1 = N)
      BY <1>2, NAssumption
    <2>2. pc' \in {"multiply", "columns"} /\ (pc' = "multiply" <=> i + 1 < N)
      OBVIOUS
    <2>3. QED
      BY <1>2, <1>9, <1>10, <2>1, <2>2 DEF Types, Distinct
  <1>12. InPlace(T)'
    <2>1. ASSUME NEW j \in Nat, j < i + 1 PROVE Same(a'[j], T[j])
      <3>1. CASE j = 0
        BY <1>8, <1>10, <3>1
      <3>2. CASE j # 0
        <4>1. j \in Index /\ m < j /\ j <= i
          BY <1>2, <2>1, <3>2, NAssumption DEF Index
        <4>2. Same(a[j], A[j] - x[i] * A[j - 1])
          BY <1>1, <4>1 DEF InPlace
        <4>3. QED
          BY <1>7, <1>10, <3>2, <4>1, <4>2
      <3>3. QED
        BY <3>1, <3>2
    <2>2. ASSUME NEW j \in Nat, m' < j, j <= i' PROVE FALSE
      BY <1>2, <1>9, <2>2
    <2>3. Exact(T, Seqn(x'), i') /\ \A j \in Nat : j < i' => Same(a'[j], T[j])
      <3>1. x' = x
        OBVIOUS
      <3>2. QED
        BY <1>6, <1>9, <2>1, <3>1
    <2>4. QED
      BY <2>2, <2>3 DEF InPlace
  <1>13. pc' \notin {"weave", "done"}
    OBVIOUS
  <1>14. QED
    BY <1>11, <1>12, <1>13 DEF Inv

\* Each column is a quotient divided by its value.
LEMMA ColumnsInv ==
  ASSUME Inv, Columns
  PROVE  Inv'
  <1> USE DEF Columns
  <1>1. PICK A : InPlace(A)
    BY DEF Inv
  <1>2. /\ Types /\ x \in [Index -> Int] /\ Distinct(x) /\ a \in [Index -> Int]
        /\ i = N /\ m = N /\ N \in Nat
    BY NAssumption DEF Inv, Types
  <1>3. A \in [Nat -> Int] /\ \A j \in Index : Same(a[j], A[j])
    <2>1. \A j \in Index : j \in Nat /\ j <= m /\ j < i
      BY <1>2 DEF Index
    <2>2. QED
      BY <1>1, <2>1 DEF InPlace, Exact
  <1>4. PICK v : v = [k \in Nat |-> IF k \in Index THEN BN_mod_inverse(Denominator(k)) ELSE 0]
    OBVIOUS
  <1>5. \A k \in Index : k \in Nat /\ v[k] = BN_mod_inverse(Denominator(k))
    BY <1>4 DEF Index
  <1>6. \A k \in Index : v[k] \in Int /\ Same(Others(Seqn(x), k)[N] * v[k], 1)
    BY <1>2, <1>5, InverseIs
  <1>7. v \in [Nat -> Int]
    <2>1. ASSUME NEW k \in Nat
          PROVE (IF k \in Index THEN BN_mod_inverse(Denominator(k)) ELSE 0) \in Int
      BY <1>5, <1>6
    <2>2. QED
      BY <1>4, <2>1
  <1>8. ASSUME NEW r \in Index, NEW k \in Index
        PROVE  /\ BN_mod(Quotient(k)[N - 1 - r] * v[k]) \in Field
               /\ Same(BN_mod(Quotient(k)[N - 1 - r] * v[k]),
                       Horner(A, x[k])[N - 1 - r] * v[k])
    <2> DEFINE q == Quotient(k)[N - 1 - r]
               h == Horner(A, x[k])[N - 1 - r]
    <2>1. N - 1 - r \in Index /\ N - 1 - r \in Nat /\ x[k] \in Int
      BY <1>2 DEF Index
    <2>2. q \in Int /\ Same(q, h)
      BY <1>2, <1>3, <2>1, QuotientIs
    <2>3. h \in Int
      BY <1>3, <2>1, HornerIs
    <2> HIDE DEF q, h
    <2>4. v[k] \in Int /\ Same(v[k], v[k])
      BY <1>6 DEF Same
    <2>5. Same(q * v[k], h * v[k])
      BY <2>2, <2>3, <2>4, SameTimes, Zenon
    <2>6. q * v[k] \in Int
      BY <2>2, <2>4
    <2>7. BN_mod(q * v[k]) \in Field /\ Same(BN_mod(q * v[k]), h * v[k])
      BY <2>5, <2>6, ModIs, ModSame DEF Same
    <2>8. QED
      BY <2>7 DEF q, h
  <1>9. ASSUME NEW r \in Index, NEW k \in Index
        PROVE  matrix'[r][k] = BN_mod(Quotient(k)[N - 1 - r] * v[k])
    BY <1>5
  <1>10. matrix' \in [Index -> [Index -> Field]]
    <2>1. ASSUME NEW r \in Index, NEW k \in Index
          PROVE  BN_mod(Quotient(k)[N - 1 - r] * BN_mod_inverse(Denominator(k))) \in Field
      BY <1>5, <1>8
    <2>2. QED
      BY <2>1
  <1>11. Types'
    BY <1>2, <1>10 DEF Types, Distinct
  <1>12. InPlace(A)'
    BY <1>1 DEF InPlace
  <1>13. Divided(A, v)'
    <2>1. \A r, k \in Index : Same(matrix'[r][k], Horner(A, x[k])[N - 1 - r] * v[k])
      BY <1>8, <1>9
    <2>2. x' = x
      OBVIOUS
    <2>3. QED
      BY <1>6, <1>7, <2>1, <2>2, Zenon DEF Divided
  <1>14. pc' = "weave"
    OBVIOUS
  <1>15. QED
    BY <1>11, <1>12, <1>13, <1>14 DEF Inv

\* weave() multiplies the matrix with the values.
LEMMA WeaveInv ==
  ASSUME Inv, NEW ys \in [Index -> Field], weave(ys)
  PROVE  Inv'
  <1> USE DEF weave
  <1>1. PICK A : InPlace(A) /\ \E v : Divided(A, v)
    BY DEF Inv
  <1>2. PICK v : Divided(A, v)
    BY <1>1
  <1>3. Types /\ matrix \in [Index -> [Index -> Field]] /\ Field \subseteq Int
    BY PrimeAssumption DEF Inv, Types, Field
  <1>4. matrix' = matrix /\ y' = ys /\ x' = x /\ pc' = "done"
    OBVIOUS
  <1>5. ASSUME NEW r \in Index
        PROVE  Row(r, ys) \in Field /\ Same(Row(r, ys), Sum(Products(r)')[N])
    <2> DEFINE u == Products(r)'
    <2>1. u = [n \in Nat |-> IF n \in Index THEN matrix[r][n] * ys[n] ELSE 0]
      BY <1>4 DEF Products
    <2>2. \A n \in Index : n \in Nat /\ matrix[r][n] \in Int /\ ys[n] \in Int
      <3>1. \A n \in Index : matrix[r][n] \in Field /\ ys[n] \in Field
        BY <1>3
      <3>2. \A n \in Index : n \in Nat
        BY DEF Index
      <3>3. QED
        BY <1>3, <3>1, <3>2
    <2>3. \A n \in Index : matrix[r][n] * ys[n] \in Int
      BY <2>2
    <2>4. u \in [Nat -> Int] /\ \A n \in Index : matrix[r][n] * ys[n] = u[n]
      BY <2>1, <2>2, <2>3
    <2> HIDE DEF u
    <2>5. Row(r, ys) \in Field /\ Same(Row(r, ys), Sum(u)[N])
      BY <2>4, RowIs
    <2>6. QED
      BY <2>5 DEF u
  <1>6. c' \in [Index -> Field] /\ \A r \in Index : c'[r] = Row(r, ys)
    BY <1>5
  <1>7. \A r \in Index : Same(c'[r], Sum(Products(r)')[N])
    BY <1>5, <1>6
  <1>8. Types'
    BY <1>3, <1>6 DEF Types, Distinct
  <1>9. InPlace(A)' /\ Divided(A, v)'
    BY <1>1, <1>2, <1>4 DEF InPlace, Divided
  <1>10. (\A r \in Index : Same(c[r], Sum(Products(r))[N]))'
    BY <1>7
  <1>11. QED
    BY <1>8, <1>9, <1>10, Zenon DEF Inv

\* Inv is inductive.
LEMMA NextInv ==
  ASSUME Inv, [Next]_vars
  PROVE  Inv'
  <1>1. CASE MultiplyTop
    BY <1>1, TopInv
  <1>2. CASE MultiplyInner
    BY <1>2, InnerInv
  <1>3. CASE MultiplyLast
    BY <1>3, LastInv
  <1>4. CASE Columns
    BY <1>4, ColumnsInv
  <1>5. CASE \E ys \in [Index -> Field] : weave(ys)
    BY <1>5, WeaveInv
  <1>6. CASE UNCHANGED vars
    BY <1>6 DEF vars, Inv, Types, Distinct, InPlace, Divided, Products
  <1>7. QED
    BY <1>1, <1>2, <1>3, <1>4, <1>5, <1>6 DEF Next

\* Inv holds in every state of precompute() and weave().
THEOREM AlwaysInv == Spec => []Inv
  <1>1. Init => Inv
    BY InitInv
  <1>2. Inv /\ [Next]_vars => Inv'
    BY NextInv
  <1>3. QED
    BY <1>1, <1>2, PTL DEF Spec

\* The counters stay in the array, and the matrix and what is sent in the field.
THEOREM TypeOKAlways == Spec => []TypeOK
  <1>1. Inv => TypeOK
    <2>1. ASSUME Inv PROVE TypeOK
      <3>1. Types /\ N \in Nat
        BY <2>1, NAssumption DEF Inv
      <3>2. pc = "multiply" => i \in Index
        BY <3>1 DEF Types, Index
      <3>3. QED
        BY <3>1, <3>2 DEF Types, TypeOK
    <2>2. QED
      BY <2>1
  <1>2. QED
    BY <1>1, AlwaysInv, PTL

\* Between two passes array a has the polynomial with the x values taken so
\* far as its roots: precompute() overwrites no coefficient that it still needs.
THEOREM MasterPolynomialAlways == Spec => []MasterPolynomial
  <1>1. Inv => MasterPolynomial
    <2>1. SUFFICES ASSUME Inv, m = i, NEW X \in Field
                   PROVE  BN_mod(Master(i, X)) = BN_mod(Product(i, X))
      BY DEF MasterPolynomial
    <2>2. PICK A : InPlace(A)
      BY <2>1 DEF Inv
    <2>3. x \in [Index -> Int] /\ a \in [Index -> Int] /\ i \in Nat /\ i <= N
      BY <2>1, NAssumption DEF Inv, Types
    <2>4. X \in Int
      BY FieldMod
    <2>5. /\ A \in [Nat -> Int] /\ \A j \in Nat : j < i => Same(a[j], A[j])
          /\ Horner(A, X)[i] = Roots(Seqn(x), X)[i]
      <3>1. \A j \in Nat : j < i => j <= m
        BY <2>1, <2>3
      <3>2. QED
        BY <2>2, <2>3, <2>4, <3>1 DEF InPlace, Exact
    <2>6. Same(Master(i, X), Horner(A, X)[i])
      BY <2>3, <2>4, <2>5, MasterIs, Zenon
    <2>7. Product(i, X) = Roots(Seqn(x), X)[i]
      BY <2>3, <2>4, ProductIs, Zenon
    <2>8. QED
      BY <2>5, <2>6, <2>7 DEF Same
  <1>2. QED
    BY <1>1, AlwaysInv, PTL

\* The quotient by (X - R[k]) is 0 at the other roots.
LEMMA DeflatedVanishes ==
  ASSUME NEW R \in [Nat -> Int], NEW n \in Nat, n >= 1, NEW A, Exact(A, R, n),
         NEW k \in Nat, NEW l \in Nat, k < n, l < n, R[k] # R[l]
  PROVE  Deflated(A, R[k], R[l])[n - 1] = 0
  <1> DEFINE d == Deflated(A, R[k], R[l])[n - 1]
  <1>1. A \in [Nat -> Int] /\ R[k] \in Int /\ R[l] \in Int /\ n - 1 \in Nat /\ (n - 1) + 1 = n
    BY DEF Exact
  <1>2. d \in Int
    BY <1>1, DeflatedIs
  <1>3. Horner(A, R[l])[n] = 0 /\ Horner(A, R[k])[n] = 0
    BY <1>1, RootsVanish DEF Exact
  <1>4. (R[l] - R[k]) * d = Horner(A, R[l])[(n - 1) + 1] - Horner(A, R[k])[(n - 1) + 1]
    BY <1>1, Division
  <1> HIDE DEF d
  <1>5. (R[l] - R[k]) * d = 0
    BY <1>1, <1>3, <1>4
  <1>6. d = 0
    BY <1>1, <1>2, <1>5
  <1>7. QED
    BY <1>6 DEF d

\* The coefficients of the sum of all quotients, with weights w, and the
\* values of these quotients at X.
Weighted(A, R, w, top) ==
  [t \in Nat |-> Sum([n \in Nat |-> Horner(A, R[n])[t] * w[n]])[top]]
Values(A, R, w, X, t) == [n \in Nat |-> Deflated(A, R[n], X)[t] * w[n]]

\* Horner's rule over these coefficients gives the sum of these values.
Combines(A, R, w, X, top) ==
  LET H == Weighted(A, R, w, top) IN
  /\ H \in [Nat -> Int]
  /\ \A t \in Nat : Affine(H[0], [s \in Nat |-> H[s + 1]], All(X))[t]
                    = Sum(Values(A, R, w, X, t))[top]

\* It does: the value of the sum is the sum of the values.
LEMMA Combination ==
  ASSUME NEW R \in [Nat -> Int], NEW A \in [Nat -> Int], NEW w \in [Nat -> Int],
         NEW X \in Int, NEW top \in Nat
  PROVE  Combines(A, R, w, X, top)
  <1> DEFINE G(t) == [n \in Nat |-> Horner(A, R[n])[t] * w[n]]
             D(t) == Values(A, R, w, X, t)
             H == Weighted(A, R, w, top)
             K == [s \in Nat |-> H[s + 1]]
             E == [t \in Nat |-> Sum(D(t))[top]]
             h == Affine(H[0], K, All(X))
  <1>1. ASSUME NEW n \in Nat
        PROVE  /\ Horner(A, R[n]) \in [Nat -> Int] /\ Horner(A, R[n])[0] = 1
               /\ Deflated(A, R[n], X) \in [Nat -> Int] /\ Deflated(A, R[n], X)[0] = 1
               /\ \A t \in Nat : Deflated(A, R[n], X)[t + 1]
                    = Horner(A, R[n])[t + 1] + X * Deflated(A, R[n], X)[t]
    <2>1. R[n] \in Int
      OBVIOUS
    <2>2. QED
      BY <2>1, HornerIs, DeflatedIs, Zenon
  <1>2. ASSUME NEW t \in Nat PROVE G(t) \in [Nat -> Int] /\ D(t) \in [Nat -> Int]
    <2>1. ASSUME NEW n \in Nat
          PROVE  Horner(A, R[n])[t] * w[n] \in Int /\ Deflated(A, R[n], X)[t] * w[n] \in Int
      <3>1. Horner(A, R[n])[t] \in Int /\ Deflated(A, R[n], X)[t] \in Int /\ w[n] \in Int
        BY <1>1
      <3>2. QED
        BY <3>1
    <2>2. QED
      BY <2>1 DEF Values
  <1>3. \A t \in Nat : H[t] = Sum(G(t))[top] /\ E[t] = Sum(D(t))[top]
    BY DEF Weighted
  <1>4. G(0) = D(0)
    <2>1. ASSUME NEW n \in Nat
          PROVE Horner(A, R[n])[0] * w[n] = Deflated(A, R[n], X)[0] * w[n]
      BY <1>1
    <2>2. QED
      BY <2>1 DEF Values
  <1>5. ASSUME NEW t \in Nat, NEW n \in Nat PROVE D(t + 1)[n] = G(t + 1)[n] + X * D(t)[n]
    <2> DEFINE p == Horner(A, R[n])[t + 1]
               q == Deflated(A, R[n], X)[t]
    <2>1. p \in Int /\ q \in Int /\ w[n] \in Int /\ Deflated(A, R[n], X)[t + 1] = p + X * q
      <3>1. /\ Horner(A, R[n]) \in [Nat -> Int] /\ Deflated(A, R[n], X) \in [Nat -> Int]
            /\ t + 1 \in Nat
        BY <1>1
      <3>2. Deflated(A, R[n], X)[t + 1] = p + X * q
        BY <1>1, Zenon
      <3>3. QED
        BY <3>1, <3>2
    <2>2. D(t + 1)[n] = (p + X * q) * w[n] /\ G(t + 1)[n] = p * w[n] /\ D(t)[n] = q * w[n]
      BY <2>1 DEF Values
    <2> HIDE DEF D, G, p, q
    <2>3. (p + X * q) * w[n] = p * w[n] + X * (q * w[n])
      BY <2>1
    <2>4. QED
      BY <2>2, <2>3
  <1> HIDE DEF D, G
  <1>6. ASSUME NEW t \in Nat PROVE H[t] \in Int /\ E[t] \in Int
    <2> HIDE DEF E, H
    <2>1. G(t) \in [Nat -> Int] /\ D(t) \in [Nat -> Int]
      BY <1>2
    <2>2. Sum(G(t)) \in [Nat -> Int] /\ Sum(D(t)) \in [Nat -> Int]
      BY <2>1, SumIs
    <2>3. QED
      BY <1>3, <2>2
  <1>7. H \in [Nat -> Int] /\ E \in [Nat -> Int]
    BY <1>6 DEF Weighted
  <1> HIDE DEF E, H
  <1>8. E[0] = H[0]
    BY <1>3, <1>4
  <1>9. ASSUME NEW t \in Nat PROVE E[t + 1] = H[t + 1] + X * E[t]
    <2>1. t + 1 \in Nat
      OBVIOUS
    <2>2. /\ D(t + 1) \in [Nat -> Int] /\ G(t + 1) \in [Nat -> Int] /\ D(t) \in [Nat -> Int]
          /\ Combined(D(t + 1), G(t + 1), X, D(t))
      BY <1>2, <1>5, <2>1 DEF Combined
    <2>3. Combined(Sum(D(t + 1)), Sum(G(t + 1)), X, Sum(D(t)))
      BY <2>2, SumLinear, Zenon
    <2>4. /\ E[t + 1] = Sum(D(t + 1))[top] /\ H[t + 1] = Sum(G(t + 1))[top]
          /\ E[t] = Sum(D(t))[top]
      BY <1>3, <2>1, Zenon
    <2>5. QED
      BY <2>3, <2>4 DEF Combined
  <1>10. /\ K \in [Nat -> Int] /\ All(X) \in [Nat -> Int] /\ H[0] \in Int
         /\ \A n \in Nat : K[n] = H[n + 1] /\ All(X)[n] = X
    BY <1>7 DEF All
  <1> HIDE DEF K
  <1>11. IsAffine(h, H[0], K, All(X))
    BY <1>10, AffineIs
  <1> HIDE DEF h
  <1>12. h[0] = H[0] /\ \A n \in Nat : h[n + 1] = H[n + 1] + X * h[n]
    BY <1>10, <1>11 DEF IsAffine
  <1>13. ASSUME NEW t \in Nat PROVE h[t] = E[t]
    <2>1. h[0] = E[0]
      BY <1>8, <1>12
    <2>2. ASSUME NEW n \in Nat, n + 1 <= t, h[n] = E[n] PROVE h[n + 1] = E[n + 1]
      BY <1>9, <1>12, <2>2
    <2>3. \A n \in 0..t : h[n] = E[n]
      BY <2>1, <2>2, Agree, ZenonT(40)
    <2>4. QED
      BY <2>3
  <1>14. QED
    BY <1>3, <1>7, <1>13 DEF h, K, D, H, Combines

\* The coefficients that are sent: each is the sum of the same coefficient of
\* all quotients, with the values to weave in as weights.
LEMMA Coefficients ==
  ASSUME Inv, pc = "done", NEW A, InPlace(A), NEW v, Divided(A, v),
         NEW w \in [Nat -> Int], \A n \in Index : w[n] = v[n] * y[n], NEW t \in Index
  PROVE  Same(c[N - 1 - t], Weighted(A, Seqn(x), w, N)[t])
  <1> DEFINE R == Seqn(x)
             r == N - 1 - t
             G == [n \in Nat |-> Horner(A, R[n])[t] * w[n]]
             P == Products(r)
  <1>1. /\ Types /\ A \in [Nat -> Int] /\ v \in [Nat -> Int] /\ N \in Nat
        /\ \A k \in Index : y[k] \in Int
    <2>1. Field \subseteq Int
      BY PrimeAssumption DEF Field
    <2>2. QED
      BY <2>1, NAssumption DEF Inv, Types, InPlace, Exact, Divided
  <1>2. R \in [Nat -> Int] /\ \A n \in Index : R[n] = x[n] /\ n \in Nat
    BY <1>1, SeqnIs DEF Types
  <1>3. r \in Index /\ N - 1 - r = t /\ t \in Nat
    BY <1>1 DEF Index
  <1> HIDE DEF R, r
  <1>4. G \in [Nat -> Int]
    <2>1. ASSUME NEW n \in Nat PROVE Horner(A, R[n])[t] * w[n] \in Int
      <3>1. R[n] \in Int
        BY <1>2
      <3>2. Horner(A, R[n]) \in [Nat -> Int]
        BY <1>1, <3>1, HornerIs
      <3>3. Horner(A, R[n])[t] \in Int /\ w[n] \in Int
        BY <1>3, <3>2
      <3>4. QED
        BY <3>3
    <2>2. QED
      BY <2>1
  <1>5. ASSUME NEW n \in Index
        PROVE  matrix[r][n] * y[n] \in Int /\ Same(matrix[r][n] * y[n], G[n])
    <2> DEFINE h == Horner(A, R[n])[t]
               e == matrix[r][n]
    <2>1. h \in Int /\ v[n] \in Int /\ y[n] \in Int /\ w[n] = v[n] * y[n]
      <3>1. R[n] \in Int /\ v[n] \in Int /\ y[n] \in Int
        BY <1>1, <1>2
      <3>2. Horner(A, R[n]) \in [Nat -> Int]
        BY <1>1, <3>1, HornerIs
      <3>3. QED
        BY <1>3, <3>1, <3>2
    <2>2. e \in Int
      <3>1. e \in Field
        BY <1>1, <1>3 DEF Types
      <3>2. QED
        BY <3>1, FieldMod
    <2>3. Same(e, h * v[n])
      BY <1>2, <1>3 DEF Divided
    <2>4. G[n] = h * w[n]
      BY <1>2
    <2> HIDE DEF h, e, G
    <2>5. h * v[n] \in Int /\ Same(y[n], y[n])
      BY <2>1 DEF Same
    <2>6. Same(e * y[n], (h * v[n]) * y[n])
      BY <2>1, <2>2, <2>3, <2>5, SameTimes, Zenon
    <2>7. (h * v[n]) * y[n] = h * (v[n] * y[n])
      BY <2>1
    <2>8. e * y[n] \in Int /\ Same(e * y[n], G[n])
      BY <2>1, <2>2, <2>4, <2>6, <2>7
    <2>9. QED
      BY <2>8 DEF e
  <1>6. P \in [Nat -> Int] /\ \A n \in Index : P[n] = matrix[r][n] * y[n]
    <2>1. ASSUME NEW n \in Nat PROVE (IF n \in Index THEN matrix[r][n] * y[n] ELSE 0) \in Int
      <3>1. CASE n \in Index
        <4>1. matrix[r][n] * y[n] \in Int
          BY <1>5, <3>1, Zenon
        <4>2. QED
          BY <3>1, <4>1, Zenon
      <3>2. CASE n \notin Index
        BY <3>2
      <3>3. QED
        BY <3>1, <3>2
    <2>2. P = [n \in Nat |-> IF n \in Index THEN matrix[r][n] * y[n] ELSE 0]
      BY DEF Products
    <2> HIDE DEF P
    <2>3. QED
      BY <1>2, <2>1, <2>2
  <1> HIDE DEF P, G
  <1>7. \A n \in Nat : n < N => Same(P[n], G[n])
    <2>1. \A n \in Nat : n < N => n \in Index
      BY <1>1 DEF Index
    <2>2. QED
      BY <1>5, <1>6, <2>1
  <1>8. Same(Sum(P)[N], Sum(G)[N])
    BY <1>1, <1>4, <1>6, <1>7, SumSame, Zenon
  <1>9. Same(c[r], Sum(P)[N])
    BY <1>3 DEF Inv, P
  <1>10. Same(c[r], Sum(G)[N])
    BY <1>8, <1>9 DEF Same
  <1>11. QED
    BY <1>3, <1>10 DEF G, R, r, Weighted

\* A station that evaluates the coefficients of the AP's Commit at the hash of
\* its password gets the value the AP wove in for it.
THEOREM WovenThroughAlways == Spec => []WovenThrough
  <1>1. Inv => WovenThrough
    <2>1. SUFFICES ASSUME Inv, pc = "done", NEW l \in Index
                   PROVE  evaluate(c, x[l]) = y[l]
      BY DEF WovenThrough
    <2>2. PICK A : InPlace(A) /\ \E v : Divided(A, v)
      BY <2>1 DEF Inv
    <2>3. PICK v : Divided(A, v)
      BY <2>2
    <2>4. /\ x \in [Index -> Int] /\ Distinct(x) /\ y \in [Index -> Field]
          /\ c \in [Index -> Field] /\ i = N /\ N \in Nat /\ N >= 1
          /\ A \in [Nat -> Int] /\ v \in [Nat -> Int] /\ Field \subseteq Int
      BY <2>1, <2>2, <2>3, NAssumption, PrimeAssumption
      DEF Inv, Types, InPlace, Exact, Divided, Field
    <2> DEFINE R == Seqn(x)
               X == x[l]
               w == [n \in Nat |-> IF n \in Index THEN v[n] * y[n] ELSE 0]
               H == Weighted(A, R, w, N)
               D(t) == Values(A, R, w, X, t)
               O == Others(R, l)[N]
    <2>5. /\ R \in [Nat -> Int] /\ \A n \in Index : R[n] = x[n] /\ n \in Nat
          /\ R[l] = X /\ X \in Int /\ l \in Nat /\ l < N
      <3>1. R \in [Nat -> Int] /\ \A n \in Index : R[n] = x[n] /\ n \in Nat
        BY <2>4, SeqnIs
      <3>2. l < N
        BY <2>4 DEF Index
      <3>3. QED
        BY <2>4, <3>1, <3>2
    <2>6. y[l] \in Int /\ y[l] \in Field /\ v[l] \in Int
      BY <2>4, <2>5
    <2>7. w \in [Nat -> Int] /\ \A n \in Index : w[n] = v[n] * y[n]
      <3>1. ASSUME NEW n \in Nat PROVE (IF n \in Index THEN v[n] * y[n] ELSE 0) \in Int
        <4>1. CASE n \in Index
          <5>1. v[n] \in Int /\ y[n] \in Int
            BY <2>4, <4>1
          <5>2. QED
            BY <4>1, <5>1
        <4>2. QED
          BY <4>1
      <3>2. QED
        BY <2>5, <3>1
    <2> HIDE DEF w
    <2>8. \A t \in Index : Same(c[N - 1 - t], H[t])
      BY <2>1, <2>2, <2>3, <2>5, <2>7, Coefficients
    <2> HIDE DEF X, R
    <2>9. /\ H \in [Nat -> Int]
          /\ Affine(H[0], [s \in Nat |-> H[s + 1]], All(X))[N - 1] = Sum(D(N - 1))[N]
      <3>1. N - 1 \in Nat
        BY <2>4
      <3>2. /\ R \in [Nat -> Int] /\ A \in [Nat -> Int] /\ w \in [Nat -> Int]
            /\ X \in Int /\ N \in Nat
        BY <2>4, <2>5, <2>7
      <3>3. /\ H \in [Nat -> Int]
            /\ \A t \in Nat : Affine(H[0], [s \in Nat |-> H[s + 1]], All(X))[t] = Sum(D(t))[N]
        <4>1. Combines(A, R, w, X, N)
          BY <3>2, Combination, Zenon
        <4>2. QED
          BY <4>1, Zenon DEF Combines
      <3>4. QED
        BY <3>1, <3>3, Zenon
    <2> HIDE DEF H
    <2>10. evaluate(c, X) = BN_mod(Sum(D(N - 1))[N])
      <3>1. c \in [Index -> Int]
        BY <2>4
      <3>2. QED
        BY <2>5, <2>8, <2>9, <3>1, EvaluateIs, ZenonT(40)
    <2>11. Sum(D(N - 1))[N] = D(N - 1)[l]
      <3> DEFINE u == D(N - 1)
      <3>1. u \in [Nat -> Int]
        <4>1. ASSUME NEW n \in Nat PROVE Deflated(A, R[n], X)[N - 1] * w[n] \in Int
          <5>1. Deflated(A, R[n], X)[N - 1] \in Int /\ w[n] \in Int
            <6>1. R[n] \in Int /\ N - 1 \in Nat
              BY <2>4, <2>5
            <6>2. QED
              BY <2>4, <2>5, <2>7, <6>1, DeflatedIs
          <5>2. QED
            BY <5>1
        <4>2. QED
          BY <4>1 DEF Values
      <3>2. ASSUME NEW n \in Nat, n < N, n # l PROVE u[n] = 0
        <4>1. n \in Index
          BY <2>4, <3>2 DEF Index
        <4>2. R[n] # R[l]
          BY <2>4, <2>5, <3>2, <4>1 DEF Distinct
        <4>3. Exact(A, R, N)
          BY <2>2, <2>4 DEF InPlace, R
        <4>4. Deflated(A, R[n], R[l])[N - 1] = 0
          BY <2>4, <2>5, <3>2, <4>2, <4>3, DeflatedVanishes
        <4>5. w[n] \in Int /\ 0 * w[n] = 0
          BY <2>7
        <4>6. QED
          BY <2>5, <4>4, <4>5 DEF Values
      <3> HIDE DEF u
      <3>3. Sum(u)[N] = u[l]
        BY <2>4, <2>5, <3>1, <3>2, SumSingle
      <3>4. QED
        BY <3>3 DEF u
    <2>12. D(N - 1)[l] = O * (v[l] * y[l])
      <3>1. Deflated(A, R[l], R[l])[N - 1] = O
        <4>1. Exact(A, R, N)
          BY <2>2, <2>4 DEF InPlace, R
        <4>2. QED
          BY <2>5, <4>1 DEF Exact
      <3>2. D(N - 1)[l] = Deflated(A, R[l], R[l])[N - 1] * w[l]
        BY <2>5 DEF Values
      <3> HIDE DEF D, O
      <3>3. QED
        BY <2>7, <3>1, <3>2
    <2>13. Same(O * (v[l] * y[l]), y[l])
      <3>1. O \in Int
        BY <2>4, OthersNotZero DEF R
      <3>2. Same(O * v[l], 1)
        BY <2>3 DEF Divided, R
      <3> HIDE DEF O
      <3>3. O * v[l] \in Int /\ 1 \in Int /\ Same(y[l], y[l])
        BY <2>6, <3>1 DEF Same
      <3>4. Same((O * v[l]) * y[l], 1 * y[l])
        BY <2>6, <3>2, <3>3, SameTimes, Zenon
      <3>5. (O * v[l]) * y[l] = O * (v[l] * y[l]) /\ 1 * y[l] = y[l]
        BY <2>6, <3>1
      <3>6. QED
        BY <3>4, <3>5
    <2>14. BN_mod(y[l]) = y[l]
      BY <2>6, FieldMod
    <2> HIDE DEF D, O
    <2>15. QED
      BY <2>10, <2>11, <2>12, <2>13, <2>14 DEF Same, X
  <1>2. QED
    BY <1>1, AlwaysInv, PTL
=============================================================================
