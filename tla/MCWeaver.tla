------------------------------ MODULE MCWeaver ------------------------------
(* Weaver over a small field; some hashes are not reduced. *)
EXTENDS Weaver

Hashes == 0 .. Prime
=============================================================================
