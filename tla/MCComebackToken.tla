-------------------------- MODULE MCComebackToken --------------------------
(***************************************************************************)
(* ComebackToken with two entries, for pairs of stations that do much and  *)
(* for three that do less.                                                 *)
(***************************************************************************)
EXTENDS ComebackToken

CONSTANTS s1, s2, p

Networks ==
  {[sta |-> {s1, s2}, events |-> 3], [sta |-> {s1, p}, events |-> 3],
   [sta |-> {s1, s2, p}, events |-> 1]}
=============================================================================
