------------------------------- MODULE Weaver -------------------------------
(***************************************************************************)
(* How the AP weaves one value per password into the coefficients of a     *)
(* polynomial over the field of the curve, and how a station gets the      *)
(* value for its own password back (hostap/src/crypto/crypto_openssl.c,    *)
(* also in hostap/src/common/weaver.c, and c-prototype/src/weaver.c).      *)
(*                                                                         *)
(* precompute() computes, in place, the polynomial that has all x values   *)
(* as roots (array a), then one column of the interpolation matrix per     *)
(* password; weave() multiplies the matrix with the values.  The prototype *)
(* reduces every intermediate result modulo the prime; hostap only some,   *)
(* the others grow, and some are negative.  The model has both.            *)
(***************************************************************************)
EXTENDS PrimeField

CONSTANTS
  N,         \* num_elements (16 in the code)
  XValues    \* hashes of passwords, as integers: not reduced modulo Prime

ASSUME NAssumption == N \in Nat /\ N >= 2
ASSUME XValuesAssumption == XValues \subseteq Nat

VARIABLES
  lazy,    \* hostap's variant, which reduces only in some places
  pc,      \* "multiply", "columns", "weave" or "done"
  x,       \* x_values
  a,       \* array a of precompute()
  i, m,    \* its loop counters; m = i before the step that sets a[i]
  matrix,  \* matrix[row][column]
  y, c     \* y_values and the result of weave()

vars == <<lazy, pc, x, a, i, m, matrix, y, c>>

Index == 0 .. N - 1

\* Reduced by the prototype, left as it is by hostap.
Reduced(n) == IF lazy THEN n ELSE BN_mod(n)

\* The passwords' hashes are different points of the field.
Distinct(xs) == \A j, k \in Index : BN_mod(xs[j]) = BN_mod(xs[k]) => j = k
-----------------------------------------------------------------------------
\* a[0] = -(x0 + x1 mod p) and a[1] = x0 * x1 mod p.
Init ==
  /\ lazy \in BOOLEAN
  /\ x \in {xs \in [Index -> XValues] : Distinct(xs)}
  /\ a = [k \in Index |-> CASE k = 0 -> -BN_mod(x[0] + x[1])
                            [] k = 1 -> BN_mod(x[0] * x[1])
                            [] OTHER -> 0]
  /\ i = 2 /\ m = 2
  /\ pc = IF N > 2 THEN "multiply" ELSE "columns"
  /\ matrix = [r \in Index |-> [k \in Index |-> 0]]
  /\ y = [k \in Index |-> 0]
  /\ c = [k \in Index |-> 0]

\* Faulty: the inner loop starts one too low.
MultiplyTopSkip ==
  /\ pc = "multiply" /\ m = i
  /\ a' = [a EXCEPT ![i] = Reduced(-x[i] * a[i - 1])]
  /\ m' = i - 2
  /\ UNCHANGED <<lazy, pc, x, i, matrix, y, c>>

\* a[i] = -x[i] * a[i-1], before a[i-1] is changed.
MultiplyTop ==
  /\ pc = "multiply" /\ m = i
  /\ a' = [a EXCEPT ![i] = Reduced(-x[i] * a[i - 1])]
  /\ m' = i - 1
  /\ UNCHANGED <<lazy, pc, x, i, matrix, y, c>>

\* One pass of the inner loop, from i-1 down to 1.
MultiplyInner ==
  /\ pc = "multiply" /\ 0 < m /\ m < i
  /\ a' = [a EXCEPT ![m] = Reduced(@ - x[i] * a[m - 1])]
  /\ m' = m - 1
  /\ UNCHANGED <<lazy, pc, x, i, matrix, y, c>>

\* a[0] last, and on to the next x value.
MultiplyLast ==
  /\ pc = "multiply" /\ m = 0
  /\ a' = [a EXCEPT ![0] = BN_mod(@ - x[i])]
  /\ i' = i + 1 /\ m' = i + 1
  /\ pc' = IF i + 1 < N THEN "multiply" ELSE "columns"
  /\ UNCHANGED <<lazy, x, matrix, y, c>>

\* p[k], the product of the differences with the other x values.
Denominator(k) ==
  LET p[j \in 0..N] == IF j = 0 THEN 1
                       ELSE IF j - 1 = k THEN p[j - 1]
                       ELSE BN_mod(p[j - 1] * (x[k] - x[j - 1]))
  IN p[N]

\* b[j+1] = a[j] + x[k] * b[j]: division of the polynomial by (X - x[k]).
Quotient(k) ==
  LET b[j \in Index] == IF j = 0 THEN 1
                        ELSE Reduced(a[j - 1] + x[k] * b[j - 1])
  IN b

\* Faulty: the rows are filled from the highest coefficient down.
ColumnsUpsideDown ==
  /\ pc = "columns"
  /\ matrix' = [r \in Index |-> [k \in Index |->
       BN_mod(Quotient(k)[r] * BN_mod_inverse(Denominator(k)))]]
  /\ pc' = "weave"
  /\ UNCHANGED <<lazy, x, a, i, m, y, c>>

\* matrix[r][k] for all passwords k.
Columns ==
  /\ pc = "columns"
  /\ matrix' = [r \in Index |-> [k \in Index |->
       BN_mod(Quotient(k)[N - 1 - r] * BN_mod_inverse(Denominator(k)))]]
  /\ pc' = "weave"
  /\ UNCHANGED <<lazy, x, a, i, m, y, c>>

\* Faulty: the products are reduced but not their sum.
weaveUnreduced(ys) ==
  /\ pc = "weave"
  /\ y' = ys
  /\ c' = [r \in Index |->
       LET sum[j \in 0..N] == IF j = 0 THEN 0
             ELSE sum[j - 1] + BN_mod(matrix[r][j - 1] * ys[j - 1])
       IN sum[N]]
  /\ pc' = "done"
  /\ UNCHANGED <<lazy, x, a, i, m, matrix>>

\* c[r] is the sum of matrix[r][j] * y[j].
Row(r, ys) ==
  LET sum[j \in 0..N] == IF j = 0 THEN 0
        ELSE BN_mod(sum[j - 1] + BN_mod(matrix[r][j - 1] * ys[j - 1]))
  IN sum[N]

weave(ys) ==
  /\ pc = "weave"
  /\ y' = ys
  /\ c' = [r \in Index |-> Row(r, ys)]
  /\ pc' = "done"
  /\ UNCHANGED <<lazy, x, a, i, m, matrix>>

Next ==
  \/ MultiplyTop \/ MultiplyInner \/ MultiplyLast
  \/ Columns
  \/ \E ys \in [Index -> Field] : weave(ys)

Spec == Init /\ [][Next]_vars
-----------------------------------------------------------------------------
\* Horner's rule over the coefficients of a Commit, reduced at the end.
evaluate(poly, point) ==
  LET result[k \in Index] == IF k = N - 1 THEN poly[N - 1]
                             ELSE Reduced(poly[k] + point * result[k + 1])
  IN BN_mod(result[0])

\* The product of (X - x[j]) for j < n.
Product(n, X) ==
  LET p[j \in 0..n] == IF j = 0 THEN 1 ELSE p[j - 1] * (X - x[j - 1])
  IN p[n]

Power(X, n) ==
  LET p[j \in 0..n] == IF j = 0 THEN 1 ELSE p[j - 1] * X
  IN p[n]

\* X^n + a[0] X^(n-1) + ... + a[n-1].
Master(n, X) ==
  LET sum[k \in 0..n] == IF k = 0 THEN Power(X, n)
                         ELSE sum[k - 1] + a[k - 1] * Power(X, n - k)
  IN sum[n]

\* The counters stay in the array and what is sent is in the field, although
\* hostap reduces neither a nor b on the way.
TypeOK ==
  /\ pc \in {"multiply", "columns", "weave", "done"}
  /\ i \in 2..N /\ m \in 0..i
  /\ pc = "multiply" => i \in Index
  /\ \A r, k \in Index : matrix[r][k] \in Field
  /\ \A k \in Index : c[k] \in Field

\* After each pass of the in-place multiplication, a holds the coefficients
\* of the polynomial whose roots are the x values taken so far: no coefficient
\* is overwritten before it was used.
MasterPolynomial ==
  m = i => \A X \in Field : BN_mod(Master(i, X)) = BN_mod(Product(i, X))

\* The polynomial goes through the value of every password: a station that
\* evaluates the coefficients at the hash of its own password gets the value
\* the AP wove in for it, also if the hash is larger than the prime.
WovenThrough ==
  pc = "done" => \A k \in Index : evaluate(c, x[k]) = y[k]
=============================================================================
