---------------------------- MODULE MCDecoyAuth ----------------------------
(***************************************************************************)
(* The surroundings in which the runs put DecoyAuth.  Calm is a station    *)
(* with the first password and a network that treats it well.              *)
(***************************************************************************)
EXTENDS DecoyAuth

AnyState == {"NOTHING", "COMMITTED", "CONFIRMED", "ACCEPTED"}

Calm ==
  [duplicates |-> FALSE, immediate |-> {FALSE}, vlan |-> FALSE,
   clogged |-> FALSE, tokensLost |-> FALSE, sendMayFail |-> FALSE,
   removals |-> {}, pw |-> 0, groups |-> <<19>>, attempts |-> 2,
   timeouts |-> TRUE]

\* Late and repeated frames, and an entry that may be removed at any time.
Faults ==
  {[Calm EXCEPT !.duplicates = TRUE, !.immediate = BOOLEAN, !.removals = AnyState]}

\* Group 20 is refused, tokens are asked for, and what the AP needs may fail.
Negotiation ==
  {[Calm EXCEPT !.vlan = TRUE, !.clogged = TRUE, !.sendMayFail = TRUE,
                !.removals = AnyState \ {"NOTHING"}, !.pw = 1,
                !.groups = <<20, 19>>, !.attempts = 3]}

\* A station with a password among others, undisturbed, and one without a
\* password, disturbed.
Attempts ==
  {[Calm EXCEPT !.clogged = TRUE, !.removals = {"ACCEPTED"}, !.groups = <<20, 19>>,
                !.pw = 1, !.attempts = 4, !.timeouts = FALSE],
   [Calm EXCEPT !.clogged = TRUE, !.removals = AnyState, !.groups = <<20, 19>>,
                !.pw = NumPasswords, !.immediate = BOOLEAN, !.tokensLost = TRUE]}

\* A station that authenticates again.
Repeats == {[Calm EXCEPT !.attempts = 3]}

\* An AP that asks for tokens and may forget the station.
Forgets == {[Calm EXCEPT !.clogged = TRUE, !.removals = AnyState]}
=============================================================================
