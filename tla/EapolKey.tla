------------------------------ MODULE EapolKey ------------------------------
(***************************************************************************)
(* The EAPOL-Key frames that WpaAuth and WpaSupp exchange, and the air     *)
(* between them.  The air never forgets a frame: one that is not received  *)
(* is lost, one received again is duplicated or retransmitted, and any     *)
(* order is possible, also across associations.                            *)
(*                                                                         *)
(* All associations use one PMK (a PMKSA is cached), which leaves only the *)
(* nonces to tell keys apart; a PTK is therefore the pair of its nonces,   *)
(* and a MIC is represented by the PTK it was computed with.               *)
(***************************************************************************)
EXTENDS Naturals

CONSTANT NULL     \* no key, no nonce, no counter

ASSUME NullAssumption == NULL \notin Nat

VARIABLE eapol     \* the EAPOL-Key frames sent so far

\* wpa_derive_ptk() of both ends.
PTK(anonce, snonce) == [anonce |-> anonce, snonce |-> snonce]

Frame(t, ctr, nonce, mic, gtk) ==
  [t |-> t, ctr |-> ctr, nonce |-> nonce, mic |-> mic, gtk |-> gtk]
=============================================================================
