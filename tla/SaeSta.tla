------------------------------- MODULE SaeSta -------------------------------
(***************************************************************************)
(* SAE in the SME of wpa_supplicant with DecoyAuth                         *)
(* (hostap/wpa_supplicant/sme.c over hostap/src/common/sae.c), one station *)
(* that authenticates with one AP, hunting-and-pecking.                    *)
(***************************************************************************)
EXTENDS SaeFrames

CONSTANTS
  MaxScalars     \* bound: Commits the station generates

ASSUME MaxScalarsAssumption == MaxScalars \in Nat

VARIABLES
  wpa,       \* wpa_state: "idle", "authenticating", "disconnected", "completed"
  sme,       \* wpa_s->sme and its struct sae_data
  attempts,  \* authentication attempts begun
  scalars,   \* Commits generated
  offered    \* history: the keys the station has sent a Confirm for

staVars == <<wpa, sme, attempts, scalars, offered>>

\* struct sae_data of a station; own, elem and key belong to its tmp.
StaCleared ==
  [state |-> "NOTHING", group |-> 0, send_confirm |-> 0, own |-> NULL,
   peer |-> NULL, key |-> NULL]
-----------------------------------------------------------------------------
\* The first group from index i that the AP has not rejected.
Candidates(i, rejected) ==
  {j \in DOMAIN world.groups : j >= i /\ world.groups[j] \notin rejected}

\* The data with a new Commit generated for group g.
Committed(g, own) ==
  [StaCleared EXCEPT !.state = "COMMITTED", !.group = g, !.own = own]

First(S) == CHOOSE j \in S : \A k \in S : j <= k

\* sme_auth_build_sae_commit() without reuse, then state COMMITTED.  m is sme
\* as the caller left it; without a group left to try the attempt fails.
SendNewCommit(m) ==
  LET cand == Candidates(m.groupIndex, m.rejected)
      i    == First(cand)
      own  == Scalar("sta", scalars + 1)
      g    == world.groups[i]
  IN \/ /\ cand = {}
        /\ sme' = [m EXCEPT !.groupIndex = Len(world.groups) + 1]
        /\ wpa' = "disconnected"
        /\ UNCHANGED <<air, scalars>>
     \/ /\ cand # {}
        /\ scalars < MaxScalars
        /\ scalars' = scalars + 1
        /\ sme' = [m EXCEPT !.groupIndex = i, !.timer = TRUE,
                            !.sae = Committed(g, own)]
        /\ wpa' = "authenticating"
        /\ air' = air \cup {StaCommit(g, own, Element(own, world.pw), m.token)}

\* sme_authenticate(): a new attempt, from any state.
sme_authenticate ==
  /\ attempts < world.attempts
  /\ wpa # "authenticating"
  /\ attempts' = attempts + 1
  /\ SendNewCommit([sme EXCEPT !.sae.state = "NOTHING",
                               !.sae.send_confirm = 0, !.groupIndex = 1])
  /\ UNCHANGED offered

Received(f) ==
  /\ wpa = "authenticating" /\ f \in air /\ f.to = "sta"

\* sme_event_auth() cancels the timer before it looks at the frame; only a
\* frame sent in answer sets it again.
Untimed == [sme EXCEPT !.timer = FALSE]

\* sme_event_auth() when sme_sae_auth() returns an error, leaving m.  The
\* rejected groups are forgotten if the network is disabled by then.
Rejected(f, m) ==
  /\ wpa' = "disconnected"
  /\ sme' \in {m, [m EXCEPT !.rejected = {}]}
  /\ Exchange(f, {})
  /\ UNCHANGED <<attempts, scalars, offered>>

\* Faulty: the token is stored but the Commit goes out as it was.
StaRxTokenReqUnused(f) ==
  /\ Received(f) /\ f.type = "status" /\ f.trans = 1 /\ f.code = "token"
  /\ sme.sae.state = "COMMITTED"
  /\ sme' = [sme EXCEPT !.token = TRUE, !.timer = TRUE]
  /\ Exchange(f, {StaCommit(sme.sae.group, sme.sae.own,
                            Element(sme.sae.own, world.pw), FALSE)})
  /\ UNCHANGED <<wpa, attempts, scalars, offered>>

\* Faulty: the timer is not set for the second Commit.
StaRxTokenReqUntimed(f) ==
  /\ Received(f) /\ f.type = "status" /\ f.trans = 1 /\ f.code = "token"
  /\ sme.sae.state = "COMMITTED"
  /\ sme' = [Untimed EXCEPT !.token = TRUE]
  /\ Exchange(f, {StaCommit(sme.sae.group, sme.sae.own,
                            Element(sme.sae.own, world.pw), TRUE)})
  /\ UNCHANGED <<wpa, attempts, scalars, offered>>

\* The token request: the same Commit again, with the token.
StaRxTokenReq(f) ==
  /\ Received(f) /\ f.type = "status" /\ f.trans = 1 /\ f.code = "token"
  /\ sme.sae.state = "COMMITTED"
  /\ \/ /\ f.group # sme.sae.group
        /\ Rejected(f, Untimed)
     \/ /\ f.group = sme.sae.group
        /\ sme' = [sme EXCEPT !.token = TRUE, !.timer = TRUE]
        /\ Exchange(f, {StaCommit(sme.sae.group, sme.sae.own,
                                  Element(sme.sae.own, world.pw), TRUE)})
        /\ UNCHANGED <<wpa, attempts, scalars, offered>>

\* The group is refused: the next one.  The group of the answer is not looked
\* at: the current one is taken to be refused.
StaRxGroupRefused(f) ==
  /\ Received(f) /\ f.type = "status" /\ f.trans = 1 /\ f.code = "group"
  /\ sme.sae.state = "COMMITTED"
  /\ LET rej  == sme.rejected \cup {sme.sae.group}
         next == sme.groupIndex + 1
         cand == Candidates(next, rej)
         own  == Scalar("sta", scalars + 1)
         g    == world.groups[First(cand)]
     IN \/ /\ cand = {}
           /\ Rejected(f, [Untimed EXCEPT !.rejected = rej,
                                          !.groupIndex = Len(world.groups) + 1])
        \/ /\ cand # {} /\ scalars < MaxScalars
           /\ scalars' = scalars + 1
           /\ sme' = [sme EXCEPT !.rejected = rej, !.groupIndex = First(cand),
                        !.timer = TRUE, !.sae = Committed(g, own)]
           /\ Exchange(f, {StaCommit(g, own, Element(own, world.pw), sme.token)})
           /\ UNCHANGED <<wpa, attempts, offered>>

\* Any other status, or one of the two above in another state.
StaRxStatus(f) ==
  /\ Received(f) /\ f.type = "status"
  /\ f.trans = 1 /\ f.code \in {"token", "group"} => sme.sae.state # "COMMITTED"
  /\ Rejected(f, Untimed)

\* The AP's Commit: the element for the own password is evaluated from it,
\* the key is derived and the Confirm sent.
StaRxCommit(f) ==
  /\ Received(f) /\ f.type = "commit"
  /\ \/ /\ sme.sae.state # "COMMITTED"
        /\ sme' = Untimed
        /\ Exchange(f, {})
        /\ UNCHANGED <<wpa, attempts, scalars, offered>>
     \/ /\ sme.sae.state = "COMMITTED" /\ f.group # sme.sae.group
        /\ Rejected(f, Untimed)
     \/ /\ sme.sae.state = "COMMITTED" /\ f.group = sme.sae.group
        /\ LET own == sme.sae.own
               key == Key(own, world.pw, f.scalar, Evaluate(f, world.pw))
               sc  == sme.sae.send_confirm + 1
           IN /\ sme' = [sme EXCEPT !.token = FALSE, !.timer = TRUE,
                           !.sae = [@ EXCEPT !.state = "CONFIRMED",
                                             !.peer = f.scalar, !.key = key,
                                             !.send_confirm = sc]]
              /\ offered' = offered \cup {key}
              /\ Exchange(f, {Confirm("ap", sc, key, own, f.scalar)})
        /\ UNCHANGED <<wpa, attempts, scalars>>

\* Faulty: the received hash is not compared with the verifier.
ConfirmVerifiesAny(f) == sme.sae.state = "CONFIRMED"

\* sae_check_confirm(), in the one state that expects a Confirm.
ConfirmVerifies(f) ==
  /\ sme.sae.state = "CONFIRMED"
  /\ f.kck = sme.sae.key /\ f.own = sme.sae.peer /\ f.peer = sme.sae.own

\* The AP's Confirm.  Success clears the temporary data and the rejected
\* groups, and hands the PMK to the 4-way handshake.
StaRxConfirm(f) ==
  /\ Received(f) /\ f.type = "confirm"
  /\ \/ ~ConfirmVerifies(f) /\ Rejected(f, Untimed)
     \/ /\ ConfirmVerifies(f)
        /\ sme' = [Untimed EXCEPT !.sae.state = "ACCEPTED",
                                   !.sae.own = NULL, !.rejected = {}]
        /\ wpa' = "completed"
        /\ Exchange(f, {})
        /\ UNCHANGED <<attempts, scalars, offered>>

\* sme_auth_timer() or the driver's timeout: everything but the rejected
\* groups is cleared.
sme_auth_timer ==
  /\ world.timeouts /\ wpa = "authenticating" /\ sme.timer
  /\ wpa' = "disconnected"
  /\ sme' = [Untimed EXCEPT !.sae = StaCleared, !.token = FALSE]
  /\ UNCHANGED <<air, attempts, scalars, offered>>

StaInit ==
  /\ wpa = "idle"
  /\ sme = [sae |-> StaCleared, token |-> FALSE, groupIndex |-> 1,
            rejected |-> {}, timer |-> FALSE]
  /\ attempts = 0
  /\ scalars = 0
  /\ offered = {}
=============================================================================
