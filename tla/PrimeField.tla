----------------------------- MODULE PrimeField -----------------------------
(***************************************************************************)
(* Arithmetic modulo the prime of a curve, as Weaver and PointEncoding use *)
(* it of OpenSSL's big numbers.                                            *)
(***************************************************************************)
EXTENDS Integers

CONSTANT Prime  \* the prime of the curve

ASSUME PrimeAssumption ==
  Prime \in Nat /\ Prime > 1 /\ \A d \in 2..(Prime - 1) : Prime % d # 0

Field == 0 .. Prime - 1

BN_mod(n) == n % Prime
BN_mod_inverse(n) == CHOOSE r \in Field : BN_mod(n * r) = 1
=============================================================================
