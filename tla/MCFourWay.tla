------------------------------ MODULE MCFourWay ------------------------------
(***************************************************************************)
(* Small instances of FourWay: many events when every message is sent      *)
(* once, fewer when it is sent twice.                                      *)
(***************************************************************************)
EXTENDS FourWay

EventsByCount == <<4, 2>>
=============================================================================
