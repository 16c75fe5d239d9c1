------------------------------ MODULE SaeFrames ------------------------------
(***************************************************************************)
(* What the AP and the station of a DecoyAuth network exchange, and the    *)
(* algebra of it, symbolically.                                            *)
(*                                                                         *)
(* Scalars are fresh and compared only for equality.  An element is known  *)
(* by the scalar it was generated with and the password whose PWE it is a  *)
(* multiple of.  The AP's Commit carries one polynomial pair woven through *)
(* one element per password; a station evaluates it at the hash of its own *)
(* password.  Both sides obtain the same key exactly when the element each *)
(* one holds of the other is under its own password.                       *)
(***************************************************************************)
EXTENDS Naturals, Sequences, FiniteSets

CONSTANTS
  NumPasswords,   \* passwords the AP accepts (num_passwords, 16 in the code)
  Worlds,         \* the configurations and surroundings considered
  NULL            \* a null pointer or an absent value

\* duplicates: a frame may be received again, later; immediate: the values
\* conf->sae_confirm_immediate takes; vlan: the password entry has a vlan_id;
\* clogged: use_anti_clogging() may say yes; tokensLost: a pending token may be
\* lost to other stations; sendMayFail: the driver may refuse to send;
\* removals: SAE states in which the station's entry may be removed; pw: the
\* station's password, an index or a number that is none; groups: the station's
\* sae_groups, in order of preference; attempts: how often it authenticates;
\* timeouts: SME_AUTH_TIMEOUT may pass without an answer.
World ==
  [duplicates : BOOLEAN, immediate : SUBSET BOOLEAN, vlan : BOOLEAN,
   clogged : BOOLEAN, tokensLost : BOOLEAN, sendMayFail : BOOLEAN,
   removals : SUBSET {"NOTHING", "COMMITTED", "CONFIRMED", "ACCEPTED"},
   pw : Nat, groups : Seq(Nat), attempts : Nat, timeouts : BOOLEAN]

ASSUME NumPasswordsAssumption == NumPasswords \in Nat \ {0}
ASSUME WorldsAssumption == \A w \in Worlds : w \in World

VARIABLES
  world,    \* which of them it is
  air       \* the frames on their way, in no order

\* A frame is received and others are sent.  A retransmission with a new
\* sequence number is not recognised as one, so it is received again.
Exchange(f, out) ==
  \/ air' = (air \ {f}) \cup out
  \/ world.duplicates /\ air' = air \cup out

\* The passwords PASSWORD_0 .. of sae_ap_prepare_commit(), by index.
Passwords == 0 .. NumPasswords - 1
-----------------------------------------------------------------------------
Scalar(who, n) == [by |-> who, n |-> n]

\* COMMIT-ELEMENT = -mask * PWE, generated together with the scalar.
Element(scalar, pw) == [scalar |-> scalar, pw |-> pw]

\* The element a station with password pw obtains from the coefficients of a
\* Commit: the AP's element for its own password, or a decoy that belongs to
\* none (pw not woven in, or the coefficients are not what was woven).
Evaluate(f, pw) ==
  Element(f.scalar, IF f.woven /\ pw \in Passwords THEN pw ELSE NULL)

\* K = rand * (peer_scalar * PWE + PEER_ELEMENT), then KCK and PMK from K and
\* the two scalars.  Symmetric if the peer's element is under the same
\* password; otherwise nobody else can arrive at the same value.
Key(own, pw, peer, elem) ==
  [pw      |-> pw,
   scalars |-> {own, peer},
   off     |-> IF elem = Element(peer, pw) THEN NULL
               ELSE [by |-> own, elem |-> elem]]
-----------------------------------------------------------------------------
StaCommit(group, scalar, elem, token) ==
  [to |-> "ap", type |-> "commit", group |-> group, scalar |-> scalar,
   elem |-> elem, token |-> token]

ApCommit(group, scalar, woven) ==
  [to |-> "sta", type |-> "commit", group |-> group, scalar |-> scalar,
   woven |-> woven]

\* CN(kck, send_confirm, own scalar, own element, peer scalar, peer element):
\* equal exactly if all arguments are.  The elements are those of the key.
Confirm(to, sc, kck, own, peer) ==
  [to |-> to, type |-> "confirm", sc |-> sc, kck |-> kck, own |-> own,
   peer |-> peer]

\* An answer with a status other than success, from the AP.
Status(trans, code, group) ==
  [to |-> "sta", type |-> "status", trans |-> trans, code |-> code,
   group |-> group]
=============================================================================
