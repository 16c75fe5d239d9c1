--------------------------- MODULE PointEncoding ---------------------------
(***************************************************************************)
(* How a point of the curve becomes two field elements, which the AP       *)
(* weaves, and two field elements a point, which the station uses          *)
(* (Elligator squared; c-prototype/src/encode.c and the same code in       *)
(* hostap/src/crypto/crypto_openssl.c).                                    *)
(*                                                                         *)
(* The curve is y^2 = x^3 + A x + B over a field whose prime is 3 mod 4,   *)
(* as are the primes of groups 19, 20 and 21.                              *)
(***************************************************************************)
EXTENDS PrimeField

CONSTANTS
  A, B,         \* the curve
  MaxTries,     \* passes of the sampling loop (1000 in the code)
  NULL          \* a null pointer

ASSUME RootAssumption == Prime % 4 = 3
ASSUME CurveAssumption == A \in 1..(Prime - 1) /\ B \in 1..(Prime - 1)
ASSUME TriesAssumption == MaxTries \in Nat \ {0}
ASSUME NullAssumption == NULL \notin Field \cup ((0..Prime) \X (0..Prime))

VARIABLES
  phase,   \* "encoding", "gaveup", "encoded", "decoded" or "decoy"
  point,   \* the point to encode
  tries,   \* passes of the loop so far
  uv,      \* its encoding, or what a station with another password has
  decoded  \* what the station makes of uv

vars == <<phase, point, tries, uv, decoded>>

Infinity == <<Prime, Prime>>
Neg(n)   == IF n = 0 THEN 0 ELSE Prime - n
Squares  == {BN_mod(r * r) : r \in Field}

\* BN_mod_sqrt(): n^((p+1)/4), the root that is a square itself.
Sqrt(n) ==
  IF BN_mod(n) \notin Squares THEN NULL
  ELSE CHOOSE r \in Squares : BN_mod(r * r) = BN_mod(n)

g(x) == BN_mod(BN_mod(BN_mod(x * x) * x) + A * x + B)

Curve == {P \in Field \X Field : BN_mod(P[2] * P[2]) = g(P[1])}

\* The prime order of the group: nothing but Infinity is its own inverse.
ASSUME OrderAssumption == \A x \in Field : g(x) # 0

\* Two values of x are not on the curve: the one that calc_v() has to divide
\* by zero for (omega = 0), and the one for which its inner root is 0, so that
\* both signs give the same (omega = 4).  Both hold for groups 19 and 21;
\* group 20 has points with either.
ASSUME PoleAssumption   == \A P \in Curve : BN_mod(A * P[1] + B) # 0
ASSUME BranchAssumption == \A P \in Curve : BN_mod(A * P[1] - 3 * B) # 0
-----------------------------------------------------------------------------
\* EC_POINT_invert() and EC_POINT_add().
Invert(P) == IF P = Infinity THEN P ELSE <<P[1], Neg(P[2])>>

Chord(P, Q, slope) ==
  LET x == BN_mod(slope * slope - P[1] - Q[1])
  IN <<x, BN_mod(slope * (P[1] - x) - P[2])>>

Add(P, Q) ==
  CASE P = Infinity  -> Q
    [] Q = Infinity  -> P
    [] P # Infinity /\ P = Invert(Q) -> Infinity
    [] P # Infinity /\ P = Q /\ P # Invert(Q) ->
         Chord(P, Q, BN_mod((3 * P[1] * P[1] + A) * BN_mod_inverse(2 * P[2])))
    [] OTHER -> Chord(P, Q, BN_mod((Q[2] - P[2]) * BN_mod_inverse(Q[1] - P[1])))
-----------------------------------------------------------------------------
Exceptional == {0, 1, Prime - 1}

X_0(u) ==
  LET s == BN_mod(u * u)
  IN BN_mod(-BN_mod(B * BN_mod_inverse(A)) * (1 + BN_mod_inverse(s * s - s)))

X_1(u) == BN_mod(-BN_mod(u * u) * X_0(u))

\* The point of a field element.
f(u) ==
  LET y0 == Sqrt(g(X_0(u)))
      y1 == Sqrt(g(X_1(u)))
  IN CASE u \in Exceptional -> Infinity
       [] u \notin Exceptional /\ y0 # NULL -> <<X_0(u), y0>>
       [] u \notin Exceptional /\ y0 = NULL /\ y1 # NULL -> <<X_1(u), Neg(y1)>>
       [] OTHER -> NULL

\* Faulty: the sign of the inner root is not used.
calc_vOneRoot(Q, j) ==
  LET omega == BN_mod(BN_mod(A * BN_mod_inverse(B)) * Q[1] + 1)
      root  == Sqrt(omega * omega - 4 * omega)
      mult  == IF Sqrt(Q[2]) # NULL THEN BN_mod_inverse(2 * omega) ELSE BN_mod_inverse(2)
      v     == Sqrt(BN_mod(omega + root) * mult)
  IN IF root = NULL \/ v = NULL THEN NULL
     ELSE IF j \in {0, 2} THEN v ELSE Neg(v)

\* One of the field elements whose point is Q, by the choice of two signs, or
\* NULL if there is none with these signs.
calc_v(Q, j) ==
  LET omega == BN_mod(BN_mod(A * BN_mod_inverse(B)) * Q[1] + 1)
      root  == Sqrt(omega * omega - 4 * omega)
      s     == IF j \in {0, 1} THEN root ELSE Neg(root)
      mult  == IF Sqrt(Q[2]) # NULL THEN BN_mod_inverse(2 * omega) ELSE BN_mod_inverse(2)
      v     == Sqrt(BN_mod(omega + s) * mult)
  IN IF root = NULL \/ v = NULL THEN NULL
     ELSE IF j \in {0, 2} THEN v ELSE Neg(v)
-----------------------------------------------------------------------------
\* What j is drawn from.
Signs == 0..3

Init ==
  /\ phase = "encoding"
  /\ point \in Curve
  /\ tries = 0
  /\ uv = NULL
  /\ decoded = NULL

\* Faulty: f(u) is added to the point, not subtracted.
es_encodeAdded(u, j) ==
  LET rest == Add(point, f(u))
      v    == IF u \in Exceptional \/ rest = Infinity THEN NULL ELSE calc_v(rest, j)
  IN /\ phase = "encoding" /\ tries < MaxTries
     /\ tries' = tries + 1
     /\ uv' = IF v = NULL THEN NULL ELSE <<u, v>>
     /\ phase' = IF v = NULL THEN "encoding" ELSE "encoded"
     /\ UNCHANGED <<point, decoded>>

\* One pass of es_encode(): random u and j, and what is left of the point.
es_encode(u, j) ==
  LET rest == Add(point, Invert(f(u)))
      v    == IF u \in Exceptional \/ rest = Infinity THEN NULL ELSE calc_v(rest, j)
  IN /\ phase = "encoding" /\ tries < MaxTries
     /\ tries' = tries + 1
     /\ uv' = IF v = NULL THEN NULL ELSE <<u, v>>
     /\ phase' = IF v = NULL THEN "encoding" ELSE "encoded"
     /\ UNCHANGED <<point, decoded>>

\* The loop ends without a result; the C function has no return statement
\* after it.
GiveUp ==
  /\ phase = "encoding" /\ tries = MaxTries
  /\ phase' = "gaveup"
  /\ UNCHANGED <<point, tries, uv, decoded>>

\* Faulty: an element that stands for the point at infinity is an error.
es_decodeFinite(p) ==
  LET P == f(p[1])
      Q == f(p[2])
  IN IF {P, Q} \cap {NULL, Infinity} # {} THEN NULL ELSE Add(P, Q)

es_decode(p) ==
  LET P == f(p[1])
      Q == f(p[2])
  IN IF NULL \in {P, Q} THEN NULL ELSE Add(P, Q)

\* A station with the password decodes what was encoded.
Decode ==
  /\ phase = "encoded"
  /\ decoded' = es_decode(uv)
  /\ phase' = "decoded"
  /\ UNCHANGED <<point, tries, uv>>

\* One with another password has any two field elements.
DecodeDecoy(u, v) ==
  /\ phase = "encoded"
  /\ uv' = <<u, v>>
  /\ decoded' = es_decode(<<u, v>>)
  /\ phase' = "decoy"
  /\ UNCHANGED <<point, tries>>

Next ==
  \/ \E u \in Field, j \in Signs : es_encode(u, j)
  \/ GiveUp
  \/ Decode
  \/ \E u, v \in Field : DecodeDecoy(u, v)

Spec == Init /\ [][Next]_vars
-----------------------------------------------------------------------------
\* The station with the password gets the AP's point back, whichever u and j
\* the AP drew.
RoundTrip == phase = "decoded" => decoded = point

\* Any two field elements stand for a point: a station with a wrong password
\* cannot tell from the decoding that its password is wrong.
DecoysLookReal == phase = "decoy" => decoded \in Curve \cup {Infinity}

\* The four choices of j give every field element that stands for the point
\* exactly once, so that drawing j at random favours none of them.
AllPreimages ==
  /\ {calc_v(point, j) : j \in 0..3} \ {NULL} = {v \in Field : f(v) = point}
  /\ \A j, k \in 0..3 :
       calc_v(point, j) = calc_v(point, k) /\ calc_v(point, j) # NULL => j = k
=============================================================================
