------------------------------ MODULE DecoyAuth ------------------------------
(***************************************************************************)
(* An AP and a station of a DecoyAuth network, connected by the air.       *)
(*                                                                         *)
(* Frames are delivered in any order and arbitrarily late (so the queue of *)
(* SaeCommitQueue, which only delays and reorders, needs no state here),   *)
(* may be received again where world.duplicates holds, and may never       *)
(* arrive.                                                                 *)
(***************************************************************************)
EXTENDS SaeAp, SaeSta

vars == <<world, air, apVars, staVars>>

Init == world \in Worlds /\ air = {} /\ ApInit /\ StaInit

\* A step of one end leaves the other alone.
ApOnly  == UNCHANGED <<world, staVars>>
StaOnly == UNCHANGED <<world, apVars>>

ApReceives == \E f \in air, e \in Environment : ApRxCommit(f, e) \/ ApRxConfirm(f, e)

StaReceives ==
  \E f \in air : \/ StaRxTokenReq(f) \/ StaRxGroupRefused(f) \/ StaRxStatus(f)
                  \/ StaRxCommit(f) \/ StaRxConfirm(f)

Next ==
  \/ \E f \in air, e \in Environment :
       \/ ApRxCommit(f, e) /\ ApOnly
       \/ ApRxConfirm(f, e) /\ ApOnly
  \/ DisabledExpires /\ ApOnly
  \/ ap_free_sta /\ ApOnly
  \/ sme_authenticate /\ StaOnly
  \/ \E f \in air :
       \/ StaRxTokenReq(f) /\ StaOnly
       \/ StaRxGroupRefused(f) /\ StaOnly
       \/ StaRxStatus(f) /\ StaOnly
       \/ StaRxCommit(f) /\ StaOnly
       \/ StaRxConfirm(f) /\ StaOnly
  \/ sme_auth_timer /\ StaOnly

Spec == Init /\ [][Next]_vars

\* Both ends handle what they receive, timers expire, and the station is asked
\* to connect.
FairSpec ==
  /\ Spec
  /\ WF_vars(ApReceives /\ ApOnly)
  /\ WF_vars(StaReceives /\ StaOnly)
  /\ WF_vars(sme_authenticate /\ StaOnly)
  /\ WF_vars(sme_auth_timer /\ StaOnly)
-----------------------------------------------------------------------------
AcceptedKeys == {accepted[i] : i \in DOMAIN accepted}

\* Until freed memory with other content is used, statements about the AP's
\* data mean something.
Sane == freedUse # "corrupt"

\* The variables of both ends are well formed.
TypeOK ==
  /\ sae # NULL =>
       /\ sae.state \in {"NOTHING", "COMMITTED", "CONFIRMED", "ACCEPTED"}
       /\ sae.group \in AllowedGroups \cup {0}
       /\ sae.sync \in 0..(SaeSync + 1) /\ sae.send_confirm \in 0..MaxConfirm
       /\ sae.tmp # NULL =>
            /\ sae.tmp.coeffs \in {"null", "live", "freed"}
            /\ sae.tmp.points \in {"empty", "live", "freed"}
            /\ sae.tmp.keys \in {"null", "live", "freed"}
  /\ pending \in BOOLEAN /\ alive \in BOOLEAN
  /\ freedUse \in {"none", "used", "corrupt"}
  /\ ownScalars \in 0..MaxOwnScalars
  /\ wpa \in {"idle", "authenticating", "disconnected", "completed"}
  /\ sme.sae.state \in {"NOTHING", "COMMITTED", "CONFIRMED", "ACCEPTED"}
  /\ sme.groupIndex \in 1..(Len(world.groups) + 1)
  /\ attempts \in 0..world.attempts /\ scalars \in 0..MaxScalars

\* The AP only accepts, and hands to the PMKSA cache, a key that the station
\* derived itself, under a password of the AP: the confirm of a station
\* without one, an old Confirm and a Confirm for another exchange never pass
\* sae_ap_check_confirm(), whichever of the passwords it tries.
AcceptsOnlyShared ==
  Sane => \A k \in AcceptedKeys : k \in offered /\ k.off = NULL /\ k.pw \in Passwords

\* While the session is accepted, sta->sae->pmk, which the 4-way handshake
\* reads, is the PMK that went into the PMKSA cache: late or repeated Confirm
\* frames never let sae_ap_check_confirm() overwrite it, and a VLAN or a driver
\* that fails never leaves a session accepted whose PMK is not in the cache.
PmkStable ==
  Sane /\ sae # NULL /\ sae.state = "ACCEPTED" =>
    accepted # << >> /\ sae.pmk = accepted[Len(accepted)]

-----------------------------------------------------------------------------
\* The keys a station can offer, and those of them both ends can derive.
Keys ==
  UNION {{Key(Scalar("sta", i), w.pw, Scalar("ap", j), Element(Scalar("ap", j), pw)) :
            i \in 1..MaxScalars, j \in 1..MaxOwnScalars, pw \in {w.pw, NULL}} :
         w \in Worlds}

Shared == {k \in Keys : k.off = NULL /\ k.pw \in Passwords}

Agreement == INSTANCE KeyAgreement WITH
  None <- NULL, using <- IF wpa = "completed" THEN sme.sae.key ELSE NULL

\* The station takes a key into use.
Completes == wpa # "completed" /\ wpa' = "completed"

\* The two state machines, whatever the air does with their frames, agree on
\* keys: a key is proved by the station, then accepted by the AP, once and
\* only if both can derive it, and used by the station only after that.  Two
\* things take the last part away: memory that was freed and holds something
\* else (the answer to a repeated Commit may then carry a valid Confirm that
\* the AP has no session for), and a VLAN that cannot be assigned after the
\* Confirm was sent.
Agrees ==
  /\ Agreement!Init
  /\ [][(Completes => Sane /\ ~world.vlan) => Agreement!Next]_(Agreement!vars)

\* The AP has crashed or has used memory it had freed.
Damaged == ~alive \/ freedUse # "none"

\* Answers come in time, no token is lost, every frame can be sent, and the
\* AP waits for the station's Confirm.
Favourable ==
  /\ ~world.timeouts /\ ~world.tokensLost /\ ~world.sendMayFail
  /\ ~world.vlan /\ world.immediate = {FALSE} /\ world.removals \subseteq {"ACCEPTED"}

\* A station with a password of the AP gets through group negotiation and
\* anti-clogging at every attempt, also after the AP removed its entry, and
\* both ends then have the same PMK, unless reauthentication has made the AP
\* use freed memory (NoFreedUse).
Connects ==
  Favourable /\ world.pw \in Passwords /\ wpa = "authenticating"
    ~> (wpa = "completed" /\ sme.sae.key \in AcceptedKeys) \/ Damaged

\* An attempt with a password the AP does not have fails, and does not hang,
\* whatever the AP drops, refuses or forgets meanwhile; except that the AP may
\* die while the station, having ignored a second Commit, has no timer running.
DecoyFails ==
  world.timeouts /\ world.pw \notin Passwords /\ wpa = "authenticating"
    ~> wpa = "disconnected" \/ (Damaged /\ ~sme.timer)
-----------------------------------------------------------------------------
\* "Do not waste resources deriving the same PWE again since the same group is
\* reused": what is reused is there to be used.  The AP never reads or writes
\* memory it has freed.
NoFreedUse == freedUse = "none"

\* "Unexpected continuation of the connection attempt with confirm": a
\* Confirm in any state is refused or accepted, and the AP lives on.
Survives == alive \/ freedUse # "none"
=============================================================================
