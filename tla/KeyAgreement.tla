---------------------------- MODULE KeyAgreement ----------------------------
(***************************************************************************)
(* What an AP and a station get from SAE: keys that the station offers,    *)
(* that the AP accepts only if they were offered and both can have derived *)
(* them, each at most once, and that the station uses only after the AP    *)
(* has accepted them.                                                      *)
(***************************************************************************)
EXTENDS Naturals, Sequences

CONSTANTS Keys, Shared, None

VARIABLES
  offered,   \* the keys the station has proved to know
  accepted,  \* the keys the AP has accepted, in order
  using      \* the key the station uses, or None

vars == <<offered, accepted, using>>

AcceptedSet == {accepted[i] : i \in DOMAIN accepted}

Offer(k) ==
  /\ offered' = offered \cup {k}
  /\ UNCHANGED <<accepted, using>>

Accept(k) ==
  /\ k \in offered /\ k \in Shared /\ k \notin AcceptedSet
  /\ accepted' = Append(accepted, k)
  /\ UNCHANGED <<offered, using>>

Use(k) ==
  /\ k \in offered /\ k \in AcceptedSet
  /\ using' = k
  /\ UNCHANGED <<offered, accepted>>

Stop ==
  /\ using' = None
  /\ UNCHANGED <<offered, accepted>>

Init == offered = {} /\ accepted = << >> /\ using = None

Next == \/ \E k \in Keys : Offer(k) \/ Accept(k) \/ Use(k)
        \/ Stop

Spec == Init /\ [][Next]_vars
=============================================================================
