-------------------------- MODULE MCPointEncoding --------------------------
(* PointEncoding on a curve of prime order over a field of 19 elements, with *)
(* a = -3 as on the curves of groups 19, 20 and 21.                          *)
EXTENDS PointEncoding
=============================================================================
