--------------------------- MODULE DecoyAuthProofs ---------------------------
(***************************************************************************)
(* The AP only accepts keys it shares with the station, keeps the key it   *)
(* accepted, and both ends implement KeyAgreement, for any number of       *)
(* passwords, any groups, surroundings and bounds.                         *)
(***************************************************************************)
EXTENDS DecoyAuth, WellFoundedInduction, TLAPS

-----------------------------------------------------------------------------
(***************************************************************************)
(* The AP: what the functions behind handle_auth_sae() preserve, for any   *)
(* frames of the kinds a station sends.                                    *)
(*                                                                         *)
(* n stands for the number of Commits the AP has generated: the types of   *)
(* its scalars and keys grow with it, so that a new scalar is in no key    *)
(* the AP has derived before.                                              *)
(***************************************************************************)

States == {"NOTHING", "COMMITTED", "CONFIRMED", "ACCEPTED"}
Counts == 0..MaxConfirm
Syncs  == 0..(SaeSync + 1)
Groups == AllowedGroups \cup {0}

Ap(n) == [by : {"ap"}, n : 1..n]
Sta   == [by : {"sta"}, n : Nat]
StaElements == [scalar : Sta, pw : Nat]

\* The keys the AP can derive.
ApKeys(n) ==
  [pw : Passwords, scalars : SUBSET (Ap(n) \cup Sta),
   off : {NULL} \cup [by : Ap(n), elem : StaElements]]

Bases(n) == [own : Ap(n), elem : StaElements, peer : Sta]

Tmp(n) ==
  [own : Ap(n) \cup {NULL}, peerElem : StaElements \cup {NULL},
   coeffs : {"null", "live", "freed"}, points : {"empty", "live", "freed"},
   keys : {"null", "live", "freed"}, base : Bases(n) \cup {NULL},
   kck : ApKeys(n) \cup {NULL}, vlan : BOOLEAN, disabled : BOOLEAN]

Data(n) ==
  [state : States, group : Groups, sync : Syncs, rc : Nat, send_confirm : Counts,
   pmk : ApKeys(n) \cup {NULL}, peer_commit_scalar : Sta \cup {NULL},
   peer_commit_scalar_accepted : Sta \cup {NULL}, tmp : Tmp(n) \cup {NULL}]

Results == {"success", "fail", "group", "token", "drop", "challenge"}
FreedUses == {"none", "used", "corrupt"}

ApCommits(n) ==
  [to : {"sta"}, type : {"commit"}, group : Groups, scalar : Ap(n), woven : BOOLEAN]

ApConfirms(n) ==
  [to : {"sta"}, type : {"confirm"}, sc : Nat, kck : ApKeys(n), own : Ap(n), peer : Sta]

ToSta(n) == ApCommits(n) \cup ApConfirms(n)

Ctx(n) ==
  [data : Data(n), out : SUBSET ToSta(n), ret : Results, alive : BOOLEAN,
   freedUse : FreedUses, accepted : Seq(ApKeys(n)), pending : BOOLEAN,
   ownScalars : {n}]

Env ==
  [mem : {"intact", "junk", "error", "crash"},
   sent : SUBSET {"commit", "confirm", "status"}, clogged : BOOLEAN,
   tokenOk : BOOLEAN, immediate : BOOLEAN, vlanOk : BOOLEAN]
-----------------------------------------------------------------------------
\* The largest counter is a number.
LEMMA MaxConfirmNat == MaxConfirm \in Nat
  BY DEF MaxConfirm

\* Nothing that was well formed stops being so when a Commit is generated.
LEMMA ApGrows == ASSUME NEW n \in Nat PROVE Ap(n) \subseteq Ap(n + 1)
  BY DEF Ap

\* The same for keys.
LEMMA KeysGrow == ASSUME NEW n \in Nat PROVE ApKeys(n) \subseteq ApKeys(n + 1)
  BY ApGrows DEF ApKeys

\* The same for what keys are derived from.
LEMMA BasesGrow == ASSUME NEW n \in Nat PROVE Bases(n) \subseteq Bases(n + 1)
  BY ApGrows DEF Bases

\* The same for the temporary data.
LEMMA TmpGrows == ASSUME NEW n \in Nat PROVE Tmp(n) \subseteq Tmp(n + 1)
  BY ApGrows, KeysGrow, BasesGrow DEF Tmp

\* The same for the SAE data.
LEMMA DataGrows == ASSUME NEW n \in Nat PROVE Data(n) \subseteq Data(n + 1)
  BY TmpGrows, KeysGrow DEF Data

\* The same for the accepted keys.
LEMMA SeqsGrow == ASSUME NEW n \in Nat PROVE Seq(ApKeys(n)) \subseteq Seq(ApKeys(n + 1))
  BY KeysGrow

\* The same for the frames to the station.
LEMMA FramesGrow == ASSUME NEW n \in Nat PROVE ToSta(n) \subseteq ToSta(n + 1)
  <1>1. ApCommits(n) \subseteq ApCommits(n + 1)
    BY ApGrows DEF ApCommits
  <1>2. ApConfirms(n) \subseteq ApConfirms(n + 1)
    BY ApGrows, KeysGrow DEF ApConfirms
  <1>3. QED
    BY <1>1, <1>2 DEF ToSta

\* A new scalar is in no key derived before.
LEMMA NewScalar ==
  ASSUME NEW n \in Nat, NEW k \in ApKeys(n)
  PROVE  Scalar("ap", n + 1) \in Ap(n + 1) /\ Scalar("ap", n + 1) \notin k.scalars
  BY DEF Scalar, Ap, Sta, ApKeys
-----------------------------------------------------------------------------
\* The context with other SAE data, more frames, another result.
LEMMA NewData ==
  ASSUME NEW n \in Nat, NEW c \in Ctx(n), NEW d \in Data(n)
  PROVE  LET r == [c EXCEPT !.data = d] IN
         /\ r \in Ctx(n) /\ r.data = d /\ r.out = c.out /\ r.ret = c.ret
         /\ r.alive = c.alive /\ r.freedUse = c.freedUse
         /\ r.accepted = c.accepted
  BY DEF Ctx

\* A failure changes the result alone.
LEMMA Failed ==
  ASSUME NEW n \in Nat, NEW c \in Ctx(n), NEW res \in Results
  PROVE  /\ Fail(c, res) \in Ctx(n) /\ Fail(c, res).ret = res
         /\ Fail(c, res).data = c.data /\ Fail(c, res).out = c.out
         /\ Fail(c, res).accepted = c.accepted
         /\ Fail(c, res).freedUse = c.freedUse
  BY DEF Ctx, Fail

\* A frame is sent, or nothing is and the run has failed.
LEMMA Sends ==
  ASSUME NEW n \in Nat, NEW c \in Ctx(n), NEW f \in ToSta(n), NEW e \in Env
  PROVE  /\ Send(c, f, e) \in Ctx(n)
         /\ Send(c, f, e).data = c.data
         /\ Send(c, f, e).out \in {c.out, c.out \cup {f}}
         /\ Send(c, f, e).accepted = c.accepted
         /\ Send(c, f, e).freedUse = c.freedUse
         /\ \/ Send(c, f, e).out = c.out
            \/ Send(c, f, e).ret = c.ret /\ Send(c, f, e).alive = c.alive
  <1>1. CASE f.type \in e.sent
    <2> DEFINE r == [c EXCEPT !.out = @ \cup {f}]
    <2>1. c.out \cup {f} \in SUBSET ToSta(n)
      BY DEF Ctx
    <2>2. r \in Ctx(n)
      BY <2>1 DEF Ctx
    <2>3. r.data = c.data /\ r.out = c.out \cup {f} /\ r.accepted = c.accepted
          /\ r.freedUse = c.freedUse /\ r.ret = c.ret /\ r.alive = c.alive
      BY DEF Ctx
    <2>4. QED
      BY <1>1, <2>2, <2>3 DEF Send
  <1>2. CASE f.type \notin e.sent
    BY <1>2, Failed DEF Send, Results
  <1>3. QED
    BY <1>1, <1>2

\* The use of freed memory changes no data, and is never forgotten.
LEMMA FreedUsed ==
  ASSUME NEW n \in Nat, NEW c \in Ctx(n), NEW e \in Env
  PROVE  /\ UseFreed(c, e) \in Ctx(n)
         /\ UseFreed(c, e).data = c.data /\ UseFreed(c, e).out = c.out
         /\ UseFreed(c, e).accepted = c.accepted
         /\ c.freedUse = "corrupt" => UseFreed(c, e).freedUse = "corrupt"
         /\ UseFreed(c, e).ret \in {c.ret, "fail"}
         /\ e.mem = "error" => UseFreed(c, e).ret = "fail"
         /\ e.mem = "crash" => ~UseFreed(c, e).alive
         /\ e.mem = "junk" => UseFreed(c, e).freedUse = "corrupt"
  <1>1. UseFreed(c, e) \in Ctx(n)
    BY DEF UseFreed, Ctx, Env, Results, FreedUses
  <1>2. /\ UseFreed(c, e).data = c.data /\ UseFreed(c, e).out = c.out
        /\ UseFreed(c, e).accepted = c.accepted
    BY DEF UseFreed, Ctx
  <1>3. UseFreed(c, e).freedUse = IF e.mem = "junk" \/ c.freedUse = "corrupt"
                                  THEN "corrupt" ELSE "used"
    BY DEF UseFreed, Ctx
  <1>4. UseFreed(c, e).ret = IF e.mem = "error" THEN "fail" ELSE c.ret
    BY DEF UseFreed, Ctx
  <1>5. UseFreed(c, e).alive = (e.mem # "crash")
    BY DEF UseFreed, Ctx
  <1>6. QED
    BY <1>1, <1>2, <1>3, <1>4, <1>5

\* So does the use of memory that may have been freed.
LEMMA Touched ==
  ASSUME NEW n \in Nat, NEW c \in Ctx(n), NEW e \in Env, NEW what
  PROVE  /\ Touch(c, what, e) \in Ctx(n)
         /\ Touch(c, what, e).data = c.data /\ Touch(c, what, e).out = c.out
         /\ Touch(c, what, e).accepted = c.accepted
         /\ c.freedUse = "corrupt" => Touch(c, what, e).freedUse = "corrupt"
  BY FreedUsed DEF Touch
-----------------------------------------------------------------------------
(***************************************************************************)
(* The invariant of the AP's data.                                         *)
(***************************************************************************)
\* Keys were derived from three known values, and only a password entry with
\* a VLAN leads to one.
TmpInv(t, n) ==
  /\ t \in Tmp(n)
  /\ t.keys # "null" => t.base \in Bases(n)
  /\ t.vlan => world.vlan

\* The scalar is in none of the accepted keys.
Unaccepted(s, acc) == \A i \in DOMAIN acc : s \notin acc[i].scalars

\* While an exchange is under way the AP's scalar is one it has not accepted a
\* key for; its coefficients were sent and freed; and an accepted session has
\* the key accepted last.
StateInv(d, acc, n) ==
  /\ d.state \in {"COMMITTED", "CONFIRMED"} =>
       TmpInv(d.tmp, n) /\ d.tmp.own \in Ap(n) /\ Unaccepted(d.tmp.own, acc)
  /\ d.state = "COMMITTED" => d.tmp.coeffs = "freed"
  /\ d.state = "ACCEPTED" => d.rc >= 1 /\ acc # << >> /\ d.pmk = acc[Len(acc)]

DataInv(d, acc, n) ==
  /\ d \in Data(n)
  /\ d.tmp # NULL => TmpInv(d.tmp, n)
  /\ StateInv(d, acc, n)

\* A Confirm sent while a Commit is handled is for no key that could verify.
Vain(c) ==
  c.freedUse # "corrupt" =>
    \A f \in c.out : f.type = "confirm" => f.own \notin f.kck.scalars

\* The context of a handler run for a Commit that was parsed.
CommitInv(c, n) ==
  /\ c \in Ctx(n) /\ c.accepted = accepted
  /\ TmpInv(c.data.tmp, n) /\ c.data.tmp.peerElem \in StaElements
  /\ c.data.peer_commit_scalar \in Sta
  /\ StateInv(c.data, accepted, n)
  /\ Vain(c)

\* The AP's scalar is in no accepted key, and it can be sent again only with
\* coefficients that were freed.
Usable(c, n) ==
  /\ c.data.tmp.own \in Ap(n) /\ Unaccepted(c.data.tmp.own, accepted)
  /\ c.data.tmp.coeffs = "freed"

\* Once its Commit has been sent, the AP's KCK is of an earlier exchange.
Fresh(c, n) ==
  /\ Usable(c, n)
  /\ \/ c.freedUse = "corrupt" \/ c.data.tmp.kck = NULL
     \/ c.data.tmp.own \notin c.data.tmp.kck.scalars

Goes(c) == c.alive /\ c.ret = "success"

\* The temporary data stay good when a Commit is generated.
LEMMA TmpInvGrows ==
  ASSUME NEW n \in Nat, NEW t, TmpInv(t, n)
  PROVE  TmpInv(t, n + 1)
  BY TmpGrows, BasesGrow DEF TmpInv

\* A new scalar, with which the exchange starts afresh.
LEMMA Prepares ==
  ASSUME NEW n \in Nat, NEW c, CommitInv(c, n), NEW e \in Env,
         c.data.state # "COMMITTED", accepted \in Seq(ApKeys(n))
  PROVE  LET r == sae_ap_prepare_commit(c, e) IN
         \/ CommitInv(r, n) /\ ~Goes(r)
         \/ /\ CommitInv(r, n + 1) /\ r.data.state = c.data.state
            /\ r.data.tmp.own = Scalar("ap", n + 1)
            /\ Unaccepted(r.data.tmp.own, accepted)
            /\ r.data.tmp.kck = NULL \/ r.data.tmp.own \notin r.data.tmp.kck.scalars
  <1> DEFINE t == Touch(c, c.data.tmp.points, e)
             r == sae_ap_prepare_commit(c, e)
             own == Scalar("ap", n + 1)
  <1>1. t \in Ctx(n) /\ t.data = c.data /\ t.out = c.out /\ t.accepted = accepted
        /\ (c.freedUse = "corrupt" => t.freedUse = "corrupt")
    BY Touched DEF CommitInv
  <1>2. CommitInv(t, n)
    BY <1>1 DEF CommitInv, Vain
  <1>3. CASE ~Goes(t)
    <2>1. r = t
      BY <1>3 DEF sae_ap_prepare_commit, Then, Goes
    <2>2. QED
      BY <2>1, <1>2, <1>3
  <1>4. CASE Goes(t)
    <2> DEFINE tmp == [c.data.tmp EXCEPT !.own = Scalar("ap", c.ownScalars + 1),
                                !.points = Written(c.data.tmp.points), !.coeffs = "live"]
               d == [t.data EXCEPT !.tmp = tmp]
    <2>0. c.ownScalars = n /\ t.ownScalars = n /\ own \in Ap(n + 1)
      BY <1>1 DEF CommitInv, Ctx, Scalar, Ap
    <2>1. r = [t EXCEPT !.data = d, !.ownScalars = c.ownScalars + 1]
      BY <1>4 DEF sae_ap_prepare_commit, Then, Goes
    <2>2. TmpInv(tmp, n + 1) /\ tmp.own = own /\ tmp.kck = c.data.tmp.kck
          /\ tmp.peerElem \in StaElements
      <3>1. TmpInv(c.data.tmp, n + 1) /\ c.data.tmp.peerElem \in StaElements
        BY TmpInvGrows DEF CommitInv
      <3>2. QED
        BY <3>1, <1>1, <2>0 DEF TmpInv, Tmp, Written
    <2>3. d \in Data(n + 1) /\ d.tmp = tmp /\ d.state = c.data.state
          /\ d.peer_commit_scalar = c.data.peer_commit_scalar
          /\ d.rc = c.data.rc /\ d.pmk = c.data.pmk
      <3>1. c.data \in Data(n + 1)
        BY DataGrows DEF CommitInv, Ctx
      <3>2. QED
        BY <1>1, <3>1, <2>2 DEF Data, TmpInv
    <2>4. r \in Ctx(n + 1) /\ r.data = d /\ r.out = c.out /\ r.accepted = accepted
          /\ r.freedUse = t.freedUse
      <3>1. t \in Ctx(n) /\ t.accepted \in Seq(ApKeys(n + 1)) /\ t.out \in SUBSET ToSta(n + 1)
        BY <1>1, SeqsGrow, FramesGrow DEF Ctx
      <3>2. r \in Ctx(n + 1)
        BY <2>0, <2>1, <2>3, <3>1 DEF Ctx
      <3>3. QED
        BY <1>1, <2>1, <3>2 DEF Ctx
    <2>5. Unaccepted(own, accepted)
      BY NewScalar DEF Unaccepted
    <2>6. tmp.kck = NULL \/ own \notin tmp.kck.scalars
      BY <2>2, NewScalar DEF CommitInv, TmpInv, Tmp
    <2>7. StateInv(d, accepted, n + 1)
      BY <2>0, <2>2, <2>3, <2>5 DEF StateInv, CommitInv
    <2>8. Vain(r)
      BY <1>1, <2>4 DEF Vain, CommitInv
    <2>9. CommitInv(r, n + 1)
      BY <2>2, <2>3, <2>4, <2>7, <2>8 DEF CommitInv
    <2>10. QED
      BY <2>2, <2>3, <2>4, <2>5, <2>6, <2>9
  <1>5. QED
    BY <1>3, <1>4

\* The coefficients are sent and freed; if they had been freed before, what is
\* sent are other values.
LEMMA Writes ==
  ASSUME NEW n \in Nat, NEW c, CommitInv(c, n), NEW e \in Env,
         c.data.tmp.own \in Ap(n)
  PROVE  LET r == sae_ap_write_commit(c, e) IN
         /\ CommitInv(r, n)
         /\ Goes(r) => /\ r.data.tmp = [c.data.tmp EXCEPT !.coeffs = "freed"]
                       /\ c.data.tmp.coeffs = "freed" => r.freedUse = "corrupt"
  <1> DEFINE wiped == [e EXCEPT !.mem = IF @ = "intact" THEN "junk" ELSE @]
             t == Touch(c, c.data.tmp.coeffs, wiped)
             f == ApCommit(c.data.group, c.data.tmp.own, c.data.tmp.coeffs = "live")
             r == sae_ap_write_commit(c, e)
  <1>0. wiped \in Env /\ wiped.mem # "intact"
    BY DEF Env
  <1>1. t \in Ctx(n) /\ t.data = c.data /\ t.out = c.out /\ t.accepted = accepted
        /\ (c.freedUse = "corrupt" => t.freedUse = "corrupt")
    BY <1>0, Touched DEF CommitInv
  <1>2. CommitInv(t, n)
    BY <1>1 DEF CommitInv, Vain
  <1>3. CASE ~Goes(t)
    <2>1. r = t
      BY <1>3 DEF sae_ap_write_commit, Then, Goes
    <2>2. QED
      BY <2>1, <1>2, <1>3
  <1>4. CASE Goes(t)
    <2> DEFINE x == [t EXCEPT !.data.tmp.coeffs = "freed"]
               tmp == [t.data.tmp EXCEPT !.coeffs = "freed"]
               d == [t.data EXCEPT !.tmp = tmp]
    <2>1. r = Send(x, f, e)
      BY <1>4 DEF sae_ap_write_commit, Then, Goes
    <2>2. TmpInv(tmp, n) /\ tmp.own = c.data.tmp.own /\ tmp.coeffs = "freed"
          /\ tmp.peerElem \in StaElements
      BY <1>1 DEF CommitInv, TmpInv, Tmp
    <2>3. d \in Data(n) /\ d.tmp = tmp /\ d.state = c.data.state
          /\ d.peer_commit_scalar = c.data.peer_commit_scalar
          /\ d.rc = c.data.rc /\ d.pmk = c.data.pmk
      <3>1. t.data \in Data(n)
        BY <1>1 DEF Ctx
      <3>2. QED
        BY <1>1, <3>1, <2>2 DEF Data, TmpInv
    <2>4. x \in Ctx(n) /\ x.data = d /\ x.out = c.out /\ x.accepted = accepted
          /\ x.freedUse = t.freedUse
      BY <1>1, <2>3, NewData
    <2>5. f \in ToSta(n) /\ f.type = "commit"
      <3>1. c.data.group \in Groups
        BY DEF CommitInv, Ctx, Data
      <3>2. QED
        BY <3>1 DEF ApCommit, ToSta, ApCommits
    <2> HIDE DEF x, d, tmp, f, t
    <2>6. r \in Ctx(n) /\ r.data = d /\ r.accepted = accepted
          /\ r.freedUse = t.freedUse /\ r.out \in {c.out, c.out \cup {f}}
      BY <2>1, <2>4, <2>5, Sends
    <2>7. StateInv(d, accepted, n)
      BY <2>2, <2>3 DEF StateInv, CommitInv
    <2>8. Vain(r)
      BY <1>1, <2>5, <2>6 DEF Vain, CommitInv
    <2>9. CommitInv(r, n)
      BY <2>2, <2>3, <2>6, <2>7, <2>8 DEF CommitInv
    <2>10. c.data.tmp.coeffs = "freed" => t.freedUse = "corrupt"
      <3>1. wiped.mem \in {"junk", "error", "crash"}
        BY <1>0 DEF Env
      <3>2. c.data.tmp.coeffs = "freed" => t = UseFreed(c, wiped)
        BY DEF t, Touch
      <3> HIDE DEF wiped
      <3>3. c \in Ctx(n)
        BY DEF CommitInv
      <3>4. QED
        BY <1>0, <1>4, <3>1, <3>2, <3>3, FreedUsed DEF Goes
    <2>11. QED
      BY <1>1, <2>3, <2>6, <2>9, <2>10 DEF tmp
  <1>5. QED
    BY <1>3, <1>4

\* The AP's Commit leaves it with a scalar whose exchange can be completed,
\* and with no KCK for it.
LEMMA SendsCommit ==
  ASSUME NEW n \in Nat, NEW c, CommitInv(c, n), NEW e \in Env,
         NEW update \in BOOLEAN, ~update => Usable(c, n),
         world \in World, c.data.state # "COMMITTED", accepted \in Seq(ApKeys(n))
  PROVE  LET r == auth_sae_send_commit(c, update, e) IN
         \E m \in {n, n + 1} : CommitInv(r, m) /\ (Goes(r) => Fresh(r, m))
  <1> DEFINE p == IF update THEN sae_ap_prepare_commit(c, e) ELSE c
             r == auth_sae_send_commit(c, update, e)
  <1>1. CASE ~Goes(p)
    <2>1. r = p
      BY <1>1 DEF auth_sae_send_commit, Then, Goes
    <2>2. \E m \in {n, n + 1} : CommitInv(p, m)
      BY Prepares
    <2>3. QED
      BY <1>1, <2>1, <2>2
  <1>2. CASE Goes(p)
    <2> DEFINE x == [p EXCEPT !.data.tmp.vlan = world.vlan]
    <2>1. r = sae_ap_write_commit(x, e)
      BY <1>2 DEF auth_sae_send_commit, Then, Goes
    <2>2. PICK m \in {n, n + 1} :
            /\ CommitInv(p, m) /\ p.data.tmp.own \in Ap(m)
            /\ Unaccepted(p.data.tmp.own, accepted)
            /\ \/ p.data.tmp.kck = NULL \/ p.data.tmp.own \notin p.data.tmp.kck.scalars
               \/ p.data.tmp.coeffs = "freed"
      <3>1. CASE update
        <4>1. Scalar("ap", n + 1) \in Ap(n + 1)
          BY DEF Scalar, Ap
        <4>2. QED
          BY <1>2, <3>1, <4>1, Prepares
      <3>2. CASE ~update
        BY <3>2 DEF Usable
      <3>3. QED
        BY <3>1, <3>2
    <2> DEFINE tmp == [p.data.tmp EXCEPT !.vlan = world.vlan]
               d == [p.data EXCEPT !.tmp = tmp]
    <2>3. TmpInv(tmp, m) /\ tmp.own = p.data.tmp.own /\ tmp.kck = p.data.tmp.kck
          /\ tmp.coeffs = p.data.tmp.coeffs /\ tmp.peerElem \in StaElements
      <3>1. world.vlan \in BOOLEAN
        BY DEF World
      <3>2. QED
        BY <2>2, <3>1 DEF CommitInv, TmpInv, Tmp
    <2>4. d \in Data(m) /\ d.tmp = tmp /\ d.state = p.data.state
          /\ d.peer_commit_scalar = p.data.peer_commit_scalar
          /\ d.rc = p.data.rc /\ d.pmk = p.data.pmk
      <3>1. p.data \in Data(m)
        BY <2>2 DEF CommitInv, Ctx
      <3>2. QED
        BY <3>1, <2>3 DEF Data, TmpInv
    <2>5. x \in Ctx(m) /\ x.data = d /\ x.out = p.out /\ x.accepted = accepted
          /\ x.freedUse = p.freedUse
      BY <2>2, <2>4, NewData DEF CommitInv
    <2>6. StateInv(d, accepted, m)
      BY <2>2, <2>3, <2>4 DEF StateInv, CommitInv
    <2>7. CommitInv(x, m)
      BY <2>2, <2>3, <2>4, <2>5, <2>6 DEF CommitInv, Vain
    <2> HIDE DEF x, d, tmp, p
    <2>8. CommitInv(r, m)
          /\ (Goes(r) => /\ r.data.tmp = [tmp EXCEPT !.coeffs = "freed"]
                         /\ tmp.coeffs = "freed" => r.freedUse = "corrupt")
      BY <2>1, <2>2, <2>3, <2>4, <2>5, <2>7, Writes
    <2>9. ASSUME Goes(r) PROVE Fresh(r, m)
      <3>1. r.data.tmp.own = tmp.own /\ r.data.tmp.kck = tmp.kck /\ r.data.tmp.coeffs = "freed"
        BY <2>3, <2>8, <2>9 DEF TmpInv, Tmp
      <3>2. QED
        BY <2>2, <2>3, <2>8, <2>9, <3>1 DEF Fresh, Usable
    <2>10. QED
      BY <2>8, <2>9
  <1>3. QED
    BY <1>1, <1>2

\* Other data in the context of a Commit.
LEMMA CommitData ==
  ASSUME NEW n \in Nat, NEW c, CommitInv(c, n), NEW d \in Data(n), TmpInv(d.tmp, n),
         d.tmp.peerElem \in StaElements, d.peer_commit_scalar \in Sta,
         StateInv(d, accepted, n)
  PROVE  LET r == [c EXCEPT !.data = d] IN
         CommitInv(r, n) /\ r.data = d /\ r.freedUse = c.freedUse
  <1> DEFINE r == [c EXCEPT !.data = d]
  <1>1. r \in Ctx(n) /\ r.data = d /\ r.out = c.out /\ r.accepted = accepted
        /\ r.freedUse = c.freedUse
    BY NewData DEF CommitInv
  <1> HIDE DEF r
  <1>2. CommitInv(r, n)
    BY <1>1 DEF CommitInv, Vain
  <1>3. QED
    BY <1>1, <1>2 DEF r

\* The keys of all passwords are derived from the AP's scalar and what the
\* station's Commit contained.
LEMMA Processes ==
  ASSUME NEW n \in Nat, NEW c, CommitInv(c, n), Fresh(c, n), NEW e \in Env
  PROVE  LET r == sae_ap_process_commit(c, e) IN CommitInv(r, n) /\ Fresh(r, n)
  <1> DEFINE t == c.data.tmp
             base == [own |-> t.own, elem |-> t.peerElem, peer |-> c.data.peer_commit_scalar]
             x == Touch(c, IF t.points = "freed" THEN "freed" ELSE t.keys, e)
             r == sae_ap_process_commit(c, e)
  <1>1. x \in Ctx(n) /\ x.data = c.data /\ x.out = c.out /\ x.accepted = accepted
        /\ (c.freedUse = "corrupt" => x.freedUse = "corrupt")
    BY Touched DEF CommitInv
  <1>2. CommitInv(x, n) /\ Fresh(x, n)
    BY <1>1 DEF CommitInv, Vain, Fresh, Usable
  <1>3. CASE ~Goes(x)
    <2>1. r = x
      BY <1>3 DEF sae_ap_process_commit, Then, Goes
    <2>2. QED
      BY <1>2, <2>1
  <1>4. CASE Goes(x)
    <2> DEFINE tmp == [t EXCEPT !.base = base, !.keys = Written(t.keys)]
               d == [x.data EXCEPT !.tmp = tmp]
    <2>1. r = [x EXCEPT !.data = d]
      BY <1>4 DEF sae_ap_process_commit, Then, Goes
    <2>2. base \in Bases(n)
      BY DEF Bases, CommitInv, Fresh, Usable
    <2>3. TmpInv(tmp, n) /\ tmp.own = t.own /\ tmp.kck = t.kck /\ tmp.coeffs = t.coeffs
          /\ tmp.peerElem = t.peerElem
      <3> HIDE DEF base
      <3>1. QED
        BY <2>2 DEF CommitInv, TmpInv, Tmp, Written
    <2> HIDE DEF tmp
    <2>4. d \in Data(n) /\ d.tmp = tmp /\ d.state = c.data.state
          /\ d.peer_commit_scalar = c.data.peer_commit_scalar
          /\ d.rc = c.data.rc /\ d.pmk = c.data.pmk
      <3>1. x.data \in Data(n)
        BY <1>1 DEF Ctx
      <3>2. QED
        BY <1>1, <3>1, <2>3 DEF Data, TmpInv
    <2> HIDE DEF d, x
    <2>5. StateInv(d, accepted, n)
      BY <2>3, <2>4 DEF StateInv, CommitInv
    <2>6. CommitInv(r, n) /\ r.data = d /\ r.freedUse = x.freedUse
      BY <1>2, <2>1, <2>3, <2>4, <2>5, CommitData DEF CommitInv
    <2>7. QED
      BY <1>1, <2>3, <2>4, <2>6 DEF Fresh, Usable
  <1>5. QED
    BY <1>3, <1>4

\* Only the send-confirm counter differs.
SameData(d, x) ==
  /\ d.tmp = x.tmp /\ d.state = x.state /\ d.rc = x.rc /\ d.pmk = x.pmk
  /\ d.peer_commit_scalar = x.peer_commit_scalar

\* The AP's Confirm is for the KCK and the scalar it has.
LEMMA ConfirmSent ==
  ASSUME NEW n \in Nat, NEW c \in Ctx(n), NEW e \in Env, TmpInv(c.data.tmp, n),
         c.data.tmp.own \in Ap(n), c.data.peer_commit_scalar \in Sta
  PROVE  LET r == auth_sae_send_confirm(c, e) IN
         /\ r \in Ctx(n) /\ r.accepted = c.accepted /\ r.freedUse = c.freedUse
         /\ SameData(r.data, c.data)
         /\ \A f \in r.out :
              \/ f \in c.out
              \/ /\ f.own = c.data.tmp.own /\ f.kck = c.data.tmp.kck
                 /\ c.data.tmp.kck # NULL
         /\ r.out = c.out \/ (r.ret = c.ret /\ r.alive = c.alive)
  <1> DEFINE t  == c.data.tmp
             sc == IF c.data.send_confirm < MaxConfirm THEN c.data.send_confirm + 1
                   ELSE MaxConfirm
             d  == [c.data EXCEPT !.send_confirm = sc]
             x  == [c EXCEPT !.data = d]
             f  == Confirm("sta", sc, t.kck, t.own, c.data.peer_commit_scalar)
             r  == auth_sae_send_confirm(c, e)
  <1>1. sc \in Counts /\ sc \in Nat
    <2>1. c.data.send_confirm \in Counts
      BY DEF Ctx, Data
    <2>2. \A s \in Counts : (IF s < MaxConfirm THEN s + 1 ELSE MaxConfirm) \in Counts
      BY MaxConfirmNat DEF Counts
    <2>3. sc \in Counts
      BY <2>1, <2>2
    <2> HIDE DEF sc
    <2>4. QED
      BY <2>3, MaxConfirmNat DEF Counts
  <1>2. r = IF t = NULL THEN Fail(c, "fail") ELSE IF t.kck = NULL THEN Fail(x, "fail")
            ELSE Send(x, f, e)
    BY DEF auth_sae_send_confirm
  <1> HIDE DEF sc
  <1>3. d \in Data(n) /\ SameData(d, c.data)
    BY <1>1 DEF Ctx, Data, SameData
  <1>4. t.kck # NULL => f \in ToSta(n) /\ f.own = t.own /\ f.kck = t.kck
    <2>1. t.kck # NULL => t.kck \in ApKeys(n)
      BY DEF TmpInv, Tmp
    <2>2. QED
      BY <1>1, <2>1 DEF Confirm, ToSta, ApConfirms
  <1> HIDE DEF d, f
  <1>5. x \in Ctx(n) /\ x.data = d /\ x.out = c.out /\ x.freedUse = c.freedUse
        /\ x.accepted = c.accepted /\ x.ret = c.ret /\ x.alive = c.alive
    BY <1>3, NewData
  <1> HIDE DEF x
  <1>6. "fail" \in Results
    BY DEF Results
  <1>7. CASE t = NULL
    BY <1>2, <1>6, <1>7, Failed DEF SameData
  <1>8. CASE t # NULL /\ t.kck = NULL
    BY <1>2, <1>3, <1>5, <1>6, <1>8, Failed
  <1>9. CASE t # NULL /\ t.kck # NULL
    <2>1. r \in Ctx(n) /\ r.data = d /\ r.out \in {x.out, x.out \cup {f}}
          /\ r.accepted = x.accepted /\ r.freedUse = x.freedUse
          /\ (r.out = x.out \/ (r.ret = x.ret /\ r.alive = x.alive))
      BY <1>2, <1>4, <1>5, <1>9, Sends
    <2> HIDE DEF r
    <2>2. \A g \in r.out : g \in c.out \/ (g.own = t.own /\ g.kck = t.kck /\ t.kck # NULL)
      BY <1>4, <1>5, <1>9, <2>1
    <2>3. /\ r \in Ctx(n) /\ r.accepted = c.accepted /\ r.freedUse = c.freedUse
          /\ SameData(r.data, c.data) /\ (r.out = c.out \/ (r.ret = c.ret /\ r.alive = c.alive))
      BY <1>3, <1>5, <2>1
    <2>4. QED
      BY <2>2, <2>3 DEF r
  <1>10. QED
    BY <1>7, <1>8, <1>9

\* While a Commit is handled, that is no key that could verify.
LEMMA SendsConfirm ==
  ASSUME NEW n \in Nat, NEW c, CommitInv(c, n), Fresh(c, n), NEW e \in Env
  PROVE  LET r == auth_sae_send_confirm(c, e) IN CommitInv(r, n) /\ Fresh(r, n)
  <1> DEFINE r == auth_sae_send_confirm(c, e)
  <1>1. /\ r \in Ctx(n) /\ r.accepted = accepted /\ r.freedUse = c.freedUse
        /\ SameData(r.data, c.data)
        /\ \A f \in r.out :
              f \in c.out \/ (/\ f.own = c.data.tmp.own /\ f.kck = c.data.tmp.kck
                              /\ c.data.tmp.kck # NULL)
    BY ConfirmSent DEF CommitInv, Fresh, Usable
  <1> HIDE DEF r
  <1>2. Vain(r)
    BY <1>1 DEF Vain, CommitInv, Fresh
  <1>3. StateInv(r.data, accepted, n)
    BY <1>1 DEF StateInv, CommitInv, SameData
  <1>4. CommitInv(r, n)
    BY <1>1, <1>2, <1>3 DEF CommitInv, SameData
  <1>5. QED
    BY <1>1, <1>4 DEF Fresh, Usable, SameData, r

\* The state and the synchronisation counter are set; the scalar stays.
LEMMA SetsState ==
  ASSUME NEW n \in Nat, NEW c, CommitInv(c, n), Fresh(c, n),
         NEW s \in {"COMMITTED", "CONFIRMED"}
  PROVE  CommitInv(SetState(c, s), n) /\ Fresh(SetState(c, s), n)
  <1> DEFINE d == [c.data EXCEPT !.state = s]
  <1>1. /\ d \in Data(n) /\ d.tmp = c.data.tmp /\ d.state = s
        /\ d.peer_commit_scalar = c.data.peer_commit_scalar
    BY DEF CommitInv, Ctx, Data, States
  <1> HIDE DEF d
  <1>2. StateInv(d, accepted, n)
    BY <1>1 DEF StateInv, CommitInv, Fresh, Usable
  <1>3. SetState(c, s) = [c EXCEPT !.data = d]
    BY DEF SetState, d
  <1>4. QED
    BY <1>1, <1>2, <1>3, CommitData DEF CommitInv, Fresh, Usable

\* The sync counter, grown or reset, leaves the rest alone.
LEMMA SetsSync ==
  ASSUME NEW n \in Nat, NEW c, CommitInv(c, n), NEW r, NEW k \in Syncs,
         r = [c EXCEPT !.data.sync = k]
  PROVE  CommitInv(r, n) /\ r.data.state = c.data.state /\ (Fresh(c, n) => Fresh(r, n))
  <1> DEFINE d == [c.data EXCEPT !.sync = k]
  <1>1. /\ d \in Data(n) /\ d.tmp = c.data.tmp /\ d.state = c.data.state
        /\ d.peer_commit_scalar = c.data.peer_commit_scalar
        /\ d.rc = c.data.rc /\ d.pmk = c.data.pmk
    BY DEF CommitInv, Ctx, Data
  <1> DEFINE q == [c EXCEPT !.data = d]
  <1>2. r = q
    OBVIOUS
  <1> HIDE DEF d
  <1>3. StateInv(d, accepted, n)
    BY <1>1 DEF StateInv, CommitInv
  <1>4. CommitInv(q, n) /\ q.data = d /\ q.freedUse = c.freedUse
    BY <1>1, <1>3, CommitData DEF CommitInv
  <1> HIDE DEF q
  <1>5. QED
    BY <1>1, <1>2, <1>4 DEF Fresh, Usable

\* sae_check_big_sync() leaves good data, in NOTHING.
LEMMA BigSync ==
  ASSUME NEW n \in Nat, NEW c, CommitInv(c, n)
  PROVE  CommitInv(sae_check_big_sync(c), n)
  <1> DEFINE t == c.data.tmp
             u == IF t = NULL THEN NULL ELSE [t EXCEPT !.disabled = TRUE]
             d == [c.data EXCEPT !.state = "NOTHING", !.sync = 0, !.tmp = u]
  <1>1. TmpInv(u, n) /\ u.peerElem = t.peerElem
    BY DEF CommitInv, TmpInv, Tmp
  <1> HIDE DEF u
  <1>2. /\ d \in Data(n) /\ d.tmp = u /\ d.state = "NOTHING"
        /\ d.peer_commit_scalar = c.data.peer_commit_scalar
    <2>1. c.data \in Data(n) /\ u \in Tmp(n)
      BY <1>1 DEF CommitInv, Ctx, TmpInv
    <2>2. 0 \in Syncs /\ "NOTHING" \in States
      BY SaeSyncAssumption DEF Syncs, States
    <2>3. QED
      BY <2>1, <2>2 DEF Data
  <1>3. sae_check_big_sync(c) = [c EXCEPT !.data = d]
    BY DEF sae_check_big_sync, u
  <1> HIDE DEF d
  <1>4. StateInv(d, accepted, n)
    BY <1>2 DEF StateInv
  <1>5. QED
    BY <1>1, <1>2, <1>3, <1>4, CommitData DEF CommitInv

\* In the middle of a handler run for a Commit: at most one Commit has been
\* generated, and if nothing has failed yet it was sent.
Stage(c, n) ==
  \E m \in {n, n + 1} : CommitInv(c, m) /\ (Goes(c) => Fresh(c, m))

\* The stages of sm_step_commit, each made only if the one before went well.
LEMMA StageSetsState ==
  ASSUME NEW n \in Nat, NEW c, Stage(c, n), Goes(c), NEW s \in {"COMMITTED", "CONFIRMED"}
  PROVE  Stage(SetState(c, s), n)
  BY SetsState DEF Stage

\* The keys are derived.
LEMMA StageProcesses ==
  ASSUME NEW n \in Nat, NEW c, Stage(c, n), Goes(c), NEW e \in Env
  PROVE  Stage(sae_ap_process_commit(c, e), n)
  BY Processes DEF Stage

\* The Confirm is sent.
LEMMA StageSendsConfirm ==
  ASSUME NEW n \in Nat, NEW c, Stage(c, n), Goes(c), NEW e \in Env
  PROVE  Stage(auth_sae_send_confirm(c, e), n)
  BY SendsConfirm DEF Stage

\* The sync counter is reset.
LEMMA StageSyncZero ==
  ASSUME NEW n \in Nat, NEW c, Stage(c, n), Goes(c)
  PROVE  Stage(SyncZero(c), n)
  <1>1. 0 \in Syncs
    BY SaeSyncAssumption DEF Syncs
  <1>2. QED
    BY <1>1, SetsSync DEF Stage, SyncZero

\* sae_sm_step() for a Commit.
LEMMA StepsCommit ==
  ASSUME NEW n \in Nat, NEW c, CommitInv(c, n), NEW e \in Env, NEW reuse \in BOOLEAN,
         reuse => Usable(c, n) /\ c.data.state = "NOTHING",
         c.data.state # "COMMITTED", world \in World, accepted \in Seq(ApKeys(n))
  PROVE  \E m \in {n, n + 1} : CommitInv(sm_step_commit(c, reuse, e), m)
  <1> DEFINE r  == sm_step_commit(c, reuse, e)
             s1 == auth_sae_send_commit(c, ~reuse, e)
             s2 == IF Goes(s1) THEN SetState(s1, "COMMITTED") ELSE s1
             s3 == IF Goes(s2) THEN sae_ap_process_commit(s2, e) ELSE s2
  <1>1. Stage(s1, n)
    <2> DEFINE update == ~reuse
    <2>1. update \in BOOLEAN /\ (~update => Usable(c, n))
      OBVIOUS
    <2> HIDE DEF update
    <2>2. s1 = auth_sae_send_commit(c, update, e)
      BY DEF update
    <2> HIDE DEF s1
    <2>3. QED
      BY <2>1, <2>2, SendsCommit DEF Stage
  <1> HIDE DEF s1
  <1>2. Stage(s2, n)
    BY <1>1, StageSetsState
  <1> HIDE DEF s2
  <1>3. Stage(s3, n)
    BY <1>2, StageProcesses
  <1> HIDE DEF s3
  <1>4. c.data.state \in States /\ c.data.sync \in Syncs
    BY DEF CommitInv, Ctx, Data
  <1>5. CASE c.data.state = "NOTHING" /\ e.immediate
    <2> DEFINE s4 == IF Goes(s3) THEN auth_sae_send_confirm(s3, e) ELSE s3
               s5 == IF Goes(s4) THEN SetState(s4, "CONFIRMED") ELSE s4
               s6 == IF Goes(s5) THEN SyncZero(s5) ELSE s5
    <2>1. Stage(s4, n)
      BY <1>3, StageSendsConfirm
    <2> HIDE DEF s4
    <2>2. Stage(s5, n)
      BY <2>1, StageSetsState
    <2> HIDE DEF s5
    <2>3. Stage(s6, n)
      BY <2>2, StageSyncZero
    <2>4. r = s6
      BY <1>5, Zenon DEF sm_step_commit, Then, Goes, s1, s2, s3, s4, s5
    <2>5. QED
      BY <2>3, <2>4 DEF Stage
  <1>6. CASE c.data.state \in {"NOTHING", "ACCEPTED"} /\ ~(c.data.state = "NOTHING" /\ e.immediate)
    <2> DEFINE s4 == IF Goes(s3) THEN SyncZero(s3) ELSE s3
    <2>1. Stage(s4, n)
      BY <1>3, StageSyncZero
    <2>2. r = s4
      BY <1>6 DEF sm_step_commit, Then, Goes, s1, s2, s3, Env
    <2>3. QED
      BY <2>1, <2>2 DEF Stage
  <1>7. CASE c.data.state = "CONFIRMED" /\ TooBigSync(c)
    <2>1. r = sae_check_big_sync(c)
      BY <1>7 DEF sm_step_commit
    <2>2. QED
      BY <2>1, BigSync
  <1>8. CASE c.data.state = "CONFIRMED" /\ ~TooBigSync(c)
    <2> DEFINE x  == Synced(c)
               t1 == auth_sae_send_commit(x, TRUE, e)
               t2 == IF Goes(t1) THEN sae_ap_process_commit(t1, e) ELSE t1
               t3 == IF Goes(t2) THEN auth_sae_send_confirm(t2, e) ELSE t2
    <2>1. CommitInv(x, n) /\ x.data.state = c.data.state
      <3>1. c.data.sync + 1 \in Syncs
        BY <1>4, <1>8, SaeSyncAssumption DEF Syncs, TooBigSync
      <3>2. QED
        BY <3>1, SetsSync DEF Synced
    <2> HIDE DEF x
    <2>2. Stage(t1, n)
      BY <1>8, <2>1, SendsCommit DEF Stage
    <2> HIDE DEF t1
    <2>3. Stage(t2, n)
      BY <2>2, StageProcesses
    <2> HIDE DEF t2
    <2>4. Stage(t3, n)
      BY <2>3, StageSendsConfirm
    <2>5. r = t3
      BY <1>8 DEF sm_step_commit, Then, Goes, x, t1, t2
    <2>6. QED
      BY <2>4, <2>5 DEF Stage
  <1>9. QED
    BY <1>4, <1>5, <1>6, <1>7, <1>8 DEF States
-----------------------------------------------------------------------------
(***************************************************************************)
(* handle_auth_sae() for a Commit.                                         *)
(***************************************************************************)
\* The AP's other variables, after n Commits of its own.
ApTypes(n) ==
  /\ n \in Nat /\ ownScalars = n /\ freedUse \in FreedUses /\ pending \in BOOLEAN
  /\ accepted \in Seq(ApKeys(n)) /\ world \in World

\* A Commit of a station, as far as the AP looks at it.
StaCommits ==
  [to : {"ap"}, type : {"commit"}, group : Nat, scalar : Sta, elem : StaElements,
   token : BOOLEAN]

\* The context a handler run starts with.
LEMMA Contexts ==
  ASSUME NEW n, ApTypes(n), NEW d \in Data(n)
  PROVE  /\ Context(d) \in Ctx(n) /\ Context(d).data = d /\ Context(d).out = {}
         /\ Context(d).ret = "success" /\ Context(d).alive
         /\ Context(d).accepted = accepted /\ Context(d).freedUse = freedUse
  BY DEF Context, Ctx, ApTypes, Results

\* Cleared data are good.
LEMMA Cleared ==
  ASSUME NEW n, ApTypes(n)
  PROVE  DataInv(ClearedData, accepted, n)
  BY SaeSyncAssumption, MaxConfirmNat
  DEF ClearedData, DataInv, Data, StateInv, States, Groups, Syncs, Counts

\* So are data with a group just set.
LEMMA GroupSet ==
  ASSUME NEW n, ApTypes(n), NEW g \in AllowedGroups
  PROVE  LET d == sae_set_group(g) IN
         DataInv(d, accepted, n) /\ TmpInv(d.tmp, n) /\ d.state = "NOTHING"
  <1> DEFINE d == sae_set_group(g)
  <1>1. TmpInv(NewTmp, n)
    BY DEF NewTmp, TmpInv, Tmp
  <1>2. d = [ClearedData EXCEPT !.group = g, !.tmp = NewTmp]
    BY DEF sae_set_group
  <1>3. NewTmp \in Tmp(n) /\ g \in Groups
    BY <1>1 DEF TmpInv, Groups
  <1>4. d \in Data(n) /\ d.tmp = NewTmp /\ d.state = "NOTHING"
    <2>1. ClearedData \in Data(n) /\ ClearedData.state = "NOTHING"
      BY Cleared DEF DataInv, ClearedData
    <2>2. QED
      BY <1>2, <1>3, <2>1 DEF Data
  <1>5. QED
    BY <1>1, <1>4 DEF DataInv, StateInv

\* sae_group_allowed() leaves good data, and temporary data if it succeeds.
LEMMA GroupAllowed ==
  ASSUME NEW n, ApTypes(n), NEW d, DataInv(d, accepted, n), NEW g
  PROVE  LET r == sae_group_allowed(d, g) IN
         /\ r.res \in {"group", "fail", "success"} /\ DataInv(r.data, accepted, n)
         /\ r.res = "success" => TmpInv(r.data.tmp, n)
         /\ r.data.state \in {d.state, "NOTHING"}
         /\ r.res = "success" /\ d.state = "COMMITTED" => g = d.group /\ d.tmp # NULL
         /\ g = d.group => r.data = d
  <1> DEFINE r == sae_group_allowed(d, g)
  <1>1. CASE g \notin AllowedGroups \/ (d.state = "COMMITTED" /\ g # d.group)
    <2>1. r = [res |-> "group", data |-> d]
      BY <1>1 DEF sae_group_allowed
    <2>2. QED
      BY <2>1
  <1>2. CASE g \in AllowedGroups /\ d.state # "COMMITTED" /\ g # d.group
    <2>1. r = [res |-> "success", data |-> sae_set_group(g)]
      BY <1>2 DEF sae_group_allowed
    <2>2. QED
      BY <1>2, <2>1, GroupSet
  <1>3. CASE g \in AllowedGroups /\ g = d.group
    <2>1. r = [res |-> IF d.tmp = NULL THEN "fail" ELSE "success", data |-> d]
      BY <1>3 DEF sae_group_allowed
    <2>2. QED
      BY <1>3, <2>1 DEF DataInv
  <1>4. QED
    BY <1>1, <1>2, <1>3

\* What a Commit that was parsed leaves in the context.
LEMMA Parses ==
  ASSUME NEW n, ApTypes(n), NEW d, DataInv(d, accepted, n), d.state # "COMMITTED",
         NEW f \in StaCommits
  PROVE  LET r == sae_parse_commit(Context(d), f) IN
         /\ r \in Ctx(n) /\ r.accepted = accepted /\ r.out = {}
         /\ DataInv(r.data, accepted, n) /\ r.data.state # "COMMITTED"
         /\ r.ret = "success" =>
              /\ CommitInv(r, n)
              /\ f.group = d.group => /\ r.data.state = d.state
                                      /\ r.data.tmp.own = d.tmp.own
                                      /\ r.data.tmp.coeffs = d.tmp.coeffs
  <1> DEFINE c == Context(d)
             g == sae_group_allowed(d, f.group)
             r == sae_parse_commit(c, f)
             x == [c EXCEPT !.data = g.data]
             p == [g.data EXCEPT !.peer_commit_scalar = f.scalar, !.tmp.peerElem = f.elem]
  <1>1. /\ c \in Ctx(n) /\ c.data = d /\ c.out = {} /\ c.ret = "success"
        /\ c.accepted = accepted
    BY Contexts DEF DataInv
  <1>2. /\ g.res \in {"group", "fail", "success"} /\ DataInv(g.data, accepted, n)
        /\ g.data.state # "COMMITTED" /\ (g.res = "success" => TmpInv(g.data.tmp, n))
        /\ (f.group = d.group => g.data = d)
    BY GroupAllowed
  <1>3. \/ g.res # "success" /\ r = Fail(x, g.res)
        \/ r = Fail(x, "fail")
        \/ g.res = "success" /\ r = [c EXCEPT !.data = p]
    <2> HIDE DEF c
    <2>1. QED
      BY <1>1 DEF sae_parse_commit
  <1> HIDE DEF c, g
  <1>4. n \in Nat /\ g.data \in Data(n)
    BY <1>2 DEF DataInv, ApTypes
  <1>5. x \in Ctx(n) /\ x.data = g.data /\ x.out = {} /\ x.accepted = accepted
    BY <1>1, <1>4, NewData
  <1> HIDE DEF x
  <1>6. ASSUME NEW res \in {"group", "fail"}, r = Fail(x, res)
        PROVE  /\ r \in Ctx(n) /\ r.accepted = accepted /\ r.out = {}
               /\ r.data = g.data /\ r.ret # "success"
    BY <1>4, <1>5, <1>6, Failed DEF Results
  <1>7. CASE r = Fail(x, "fail") \/ (g.res # "success" /\ r = Fail(x, g.res))
    BY <1>2, <1>6, <1>7 DEF c
  <1>8. CASE g.res = "success" /\ r = [c EXCEPT !.data = p]
    <2> DEFINE tmp == [g.data.tmp EXCEPT !.peerElem = f.elem]
    <2>0. f.elem \in StaElements /\ f.scalar \in Sta
      BY DEF StaCommits
    <2>1. TmpInv(tmp, n) /\ tmp.peerElem \in StaElements /\ tmp.own = g.data.tmp.own
          /\ tmp.coeffs = g.data.tmp.coeffs
      BY <1>2, <1>8, <2>0 DEF TmpInv, Tmp
    <2>2. p.tmp = tmp /\ p.peer_commit_scalar = f.scalar /\ p.state = g.data.state
          /\ p.rc = g.data.rc /\ p.pmk = g.data.pmk
      BY <1>4 DEF Data
    <2>3. p \in Data(n)
      <3>1. tmp \in Tmp(n)
        BY <2>1 DEF TmpInv
      <3>2. p = [g.data EXCEPT !.peer_commit_scalar = f.scalar, !.tmp = tmp]
        BY <1>4 DEF Data
      <3> HIDE DEF tmp, p
      <3>3. QED
        BY <1>4, <2>0, <3>1, <3>2 DEF Data
    <2> HIDE DEF tmp, p
    <2>4. StateInv(p, accepted, n)
      BY <1>2, <2>1, <2>2 DEF DataInv, StateInv
    <2>5. DataInv(p, accepted, n)
      BY <2>1, <2>2, <2>3, <2>4 DEF DataInv
    <2>6. r \in Ctx(n) /\ r.data = p /\ r.out = {} /\ r.accepted = accepted
      BY <1>1, <1>4, <1>8, <2>3, NewData
    <2> HIDE DEF r
    <2>7. CommitInv(r, n)
      BY <2>0, <2>1, <2>2, <2>4, <2>6 DEF CommitInv, Vain
    <2>8. QED
      BY <1>2, <2>1, <2>2, <2>5, <2>6, <2>7 DEF r, c
  <1>9. QED
    BY <1>3, <1>7, <1>8

\* The token check changes no data.
LEMMA ChecksToken ==
  ASSUME NEW n \in Nat, NEW c \in Ctx(n), NEW f, NEW e
  PROVE  LET r == check_comeback_token(c, f, e) IN
         /\ r \in Ctx(n) /\ r.data = c.data /\ r.out = c.out
         /\ r.accepted = c.accepted /\ r.freedUse = c.freedUse
         /\ r.ret \in {c.ret, "drop"}
  <1> DEFINE x == [c EXCEPT !.pending = FALSE]
  <1>1. x \in Ctx(n)
    BY DEF Ctx
  <1>2. /\ x.data = c.data /\ x.out = c.out /\ x.ret = c.ret
        /\ x.accepted = c.accepted /\ x.freedUse = c.freedUse
    BY DEF Ctx
  <1> HIDE DEF x
  <1>3. check_comeback_token(c, f, e) \in {c, x, Fail(c, "drop")}
    BY DEF check_comeback_token, x
  <1>4. "drop" \in Results
    BY DEF Results
  <1>5. QED
    BY <1>1, <1>2, <1>3, <1>4, Failed

\* What a handler run for a Commit leaves behind.
CommitDone(r, m) ==
  /\ r \in Ctx(m) /\ r.accepted = accepted
  /\ DataInv(r.data, accepted, m)
  /\ Vain(r)

\* The invariant of a parsed Commit is enough at the end.
LEMMA CommitsDone ==
  ASSUME NEW m, NEW r, CommitInv(r, m)
  PROVE  CommitDone(r, m)
  BY DEF CommitInv, CommitDone, DataInv, Ctx

\* A run for a Commit generates at most one of the AP's, accepts nothing, and
\* leaves data that satisfy their invariant.
LEMMA HandlesCommit ==
  ASSUME NEW n, ApTypes(n), NEW f \in StaCommits, NEW e \in Env,
         sae # NULL => DataInv(sae, accepted, n)
  PROVE  LET r == HandleCommit(f, e) IN
         (\E m \in {n, n + 1} : CommitDone(r, m)) /\ r.freedUse \in FreedUses
  <1> DEFINE r  == HandleCommit(f, e)
             d0 == IF sae = NULL THEN ClearedData ELSE sae
             reuse == d0.state = "COMMITTED"
                      /\ sae_group_allowed(d0, f.group).res = "success"
             d1 == IF d0.state # "COMMITTED" THEN d0
                   ELSE IF reuse THEN [d0 EXCEPT !.state = "NOTHING"]
                   ELSE ClearedData
             p  == sae_parse_commit(Context(d1), f)
             c  == check_comeback_token(p, f, e)
  <1>1. n \in Nat /\ DataInv(d0, accepted, n)
    BY Cleared DEF ApTypes
  <1>2. SUFFICES \E m \in {n, n + 1} : CommitDone(r, m)
    BY <1>1 DEF CommitDone, Ctx
  <1> HIDE DEF d0
  <1>3. CASE sae_proto_instance_disabled(d0)
    <2>1. r = Context(d0)
      BY <1>3 DEF HandleCommit, d0
    <2>2. CommitDone(Context(d0), n)
      <3>1. d0 \in Data(n)
        BY <1>1 DEF DataInv
      <3>2. QED
        BY <1>1, <3>1, Contexts DEF CommitDone, Vain
    <2>3. QED
      BY <2>1, <2>2
  <1>4. CASE ~sae_proto_instance_disabled(d0)
    <2>1. reuse => /\ f.group = d0.group /\ d0.tmp.own \in Ap(n) /\ d0.tmp.coeffs = "freed"
                   /\ Unaccepted(d0.tmp.own, accepted) /\ TmpInv(d0.tmp, n)
      BY <1>1, GroupAllowed DEF DataInv, StateInv
    <2>2. /\ DataInv(d1, accepted, n) /\ d1.state # "COMMITTED"
          /\ reuse => d1.state = "NOTHING" /\ d1.tmp = d0.tmp /\ d1.group = d0.group
      <3>1. CASE d0.state # "COMMITTED"
        BY <1>1, <3>1
      <3>2. CASE reuse
        <4> DEFINE d2 == [d0 EXCEPT !.state = "NOTHING"]
        <4>1. d2 \in Data(n) /\ d2.tmp = d0.tmp /\ d2.group = d0.group /\ d2.state = "NOTHING"
          BY <1>1 DEF DataInv, Data, States
        <4>2. d1 = d2
          BY <3>2
        <4> HIDE DEF d2, d1
        <4>3. DataInv(d2, accepted, n)
          BY <1>1, <4>1 DEF DataInv, StateInv
        <4>4. QED
          BY <4>1, <4>2, <4>3
      <3>3. CASE d0.state = "COMMITTED" /\ ~reuse
        <4>1. d1 = ClearedData /\ ClearedData.state = "NOTHING"
          BY <3>3 DEF ClearedData
        <4> HIDE DEF d1
        <4>2. QED
          BY <3>3, <4>1, Cleared
      <3>4. QED
        BY <3>1, <3>2, <3>3
    <2> DEFINE decide(x) == IF ~f.token /\ e.clogged /\ ~reuse THEN auth_build_token_req(x)
                            ELSE sm_step_commit(x, reuse, e)
    <2>3. r = IF c.alive /\ c.ret = "success" THEN decide(c) ELSE c
      BY <1>4 DEF HandleCommit, Then, d0
    <2>4. reuse \in BOOLEAN
      OBVIOUS
    <2> HIDE DEF reuse, d1
    <2>5. /\ p \in Ctx(n) /\ p.accepted = accepted /\ p.out = {}
          /\ DataInv(p.data, accepted, n) /\ p.data.state # "COMMITTED"
          /\ p.ret = "success" =>
               /\ CommitInv(p, n)
               /\ reuse => p.data.state = "NOTHING" /\ Usable(p, n)
      <3>1. p.ret = "success" /\ reuse => p.data.tmp.own = d0.tmp.own
                              /\ p.data.tmp.coeffs = d0.tmp.coeffs /\ p.data.state = "NOTHING"
        BY <2>1, <2>2, Parses
      <3>2. /\ p \in Ctx(n) /\ p.accepted = accepted /\ p.out = {}
            /\ DataInv(p.data, accepted, n) /\ p.data.state # "COMMITTED"
            /\ p.ret = "success" => CommitInv(p, n)
        BY <2>2, Parses
      <3>3. QED
        BY <2>1, <3>1, <3>2 DEF Usable
    <2> HIDE DEF p
    <2>6. /\ c \in Ctx(n) /\ c.data = p.data /\ c.out = {} /\ c.accepted = accepted
          /\ c.freedUse = p.freedUse /\ c.ret \in {p.ret, "drop"}
      BY <1>1, <2>5, ChecksToken
    <2> HIDE DEF c
    <2>7. CommitDone(c, n)
      BY <2>5, <2>6 DEF CommitDone, Vain
    <2>8. CASE ~(c.alive /\ c.ret = "success")
      BY <2>3, <2>7, <2>8
    <2>9. CASE c.alive /\ c.ret = "success"
      <3>1. CommitInv(p, n) /\ (reuse => p.data.state = "NOTHING" /\ Usable(p, n))
        BY <2>5, <2>6, <2>9
      <3>2. CommitInv(c, n) /\ (reuse => c.data.state = "NOTHING" /\ Usable(c, n))
        BY <2>6, <3>1 DEF CommitInv, Vain, Usable
      <3>3. CASE r = auth_build_token_req(c)
        <4> DEFINE x == [c EXCEPT !.pending = TRUE]
        <4>1. x \in Ctx(n) /\ x.data = c.data /\ x.out = {} /\ x.accepted = accepted
          BY <2>6 DEF Ctx
        <4> HIDE DEF x
        <4>2. r = Fail(x, "token")
          BY <3>3 DEF auth_build_token_req, x
        <4> HIDE DEF r
        <4>3. r \in Ctx(n) /\ r.data = c.data /\ r.out = {} /\ r.accepted = accepted
          BY <1>1, <4>1, <4>2, Failed DEF Results
        <4>4. CommitDone(r, n)
          BY <2>7, <4>3 DEF CommitDone, Vain
        <4>5. QED
          BY <4>4 DEF r
      <3>4. CASE r = sm_step_commit(c, reuse, e)
        <4>1. c.data.state # "COMMITTED" /\ world \in World /\ accepted \in Seq(ApKeys(n))
          BY <2>5, <2>6 DEF ApTypes
        <4>2. \E m \in {n, n + 1} : CommitInv(sm_step_commit(c, reuse, e), m)
          BY <1>1, <2>4, <3>2, <4>1, StepsCommit
        <4>3. QED
          BY <3>4, <4>2, CommitsDone
      <3>5. QED
        BY <2>3, <2>9, <3>3, <3>4
    <2>10. QED
      BY <2>8, <2>9
  <1>5. QED
    BY <1>3, <1>4
-----------------------------------------------------------------------------
(***************************************************************************)
(* handle_auth_sae() for a Confirm.                                        *)
(***************************************************************************)
\* A station sends one Confirm per exchange, for a key of its own scalar and
\* the AP's.  If that key is not shared it is the station's alone.
GoodConfirm(f) ==
  /\ f.sc = 1 /\ f.kck.scalars = {f.own, f.peer}
  /\ f.kck.off = NULL \/ f.kck.off.by \in Sta

\* A key the AP derives is one of ApKeys, and off, if at all, on its side.
LEMMA KeyTypes ==
  ASSUME NEW n \in Nat, NEW base \in Bases(n), NEW i \in Passwords
  PROVE  /\ KeyOf(base, i) \in ApKeys(n)
         /\ KeyOf(base, i).off = NULL \/ KeyOf(base, i).off.by \in Ap(n)
  <1> DEFINE off == IF base.elem = Element(base.peer, i) THEN NULL
                    ELSE [by |-> base.own, elem |-> base.elem]
  <1>1. base.own \in Ap(n) /\ base.elem \in StaElements /\ base.peer \in Sta
    BY DEF Bases
  <1>2. /\ off \in {NULL} \cup [by : Ap(n), elem : StaElements]
        /\ off = NULL \/ off.by \in Ap(n)
    BY <1>1
  <1>3. KeyOf(base, i) = [pw |-> i, scalars |-> {base.own, base.peer}, off |-> off]
    BY DEF KeyOf, Key
  <1> HIDE DEF off
  <1>4. QED
    BY <1>1, <1>2, <1>3 DEF ApKeys

\* A key that both ends have is shared.
LEMMA SharedKey ==
  ASSUME NEW n \in Nat, NEW base \in Bases(n), NEW i \in Passwords, NEW f,
         GoodConfirm(f), f.kck = KeyOf(base, i)
  PROVE  f.kck \in ApKeys(n) /\ f.kck.off = NULL
  BY KeyTypes DEF GoodConfirm, Ap, Sta

\* The AP has found the password under which the station's Confirm verifies.
Verified(c, f, n) ==
  /\ TmpInv(c.data.tmp, n) /\ c.data.peer_commit_scalar \in Sta
  /\ c.data.tmp.own = f.peer /\ c.data.tmp.kck = f.kck /\ c.data.pmk = f.kck
  /\ f.kck \in ApKeys(n) /\ f.kck.off = NULL

\* What sae_ap_check_confirm() does on derived keys, for the data D.
Tries(c, D, f, e) ==
  LET t       == D.tmp
      matches == Matching(D, f)
      freed   == IF "freed" \in {t.keys, t.points} THEN "freed" ELSE "live"
      found   == matches # {} /\ ~(freed = "freed" /\ e.mem \in {"junk", "error"})
      key     == KeyOf(t.base, IF found THEN CHOOSE i \in matches : TRUE
                                        ELSE NumPasswords - 1)
      x       == [Touch(c, freed, e) EXCEPT !.ret = "success"]
      tmp     == [t EXCEPT !.kck = key, !.keys = IF found THEN "freed" ELSE t.keys,
                           !.points = IF found THEN "freed" ELSE t.points]
  IN IF x.alive /\ x.ret = "success"
     THEN [x EXCEPT !.data = [x.data EXCEPT !.pmk = key, !.tmp = tmp],
                    !.ret = IF found THEN "success" ELSE "challenge"]
     ELSE x

\* sae_ap_check_confirm() outside of ACCEPTED: all is well if it succeeds.
LEMMA ChecksConfirm ==
  ASSUME NEW n, ApTypes(n), NEW d, DataInv(d, accepted, n), d.state # "ACCEPTED",
         NEW f, GoodConfirm(f), NEW e \in Env
  PROVE  LET r == sae_ap_check_confirm(Context(d), f, e) IN
         /\ r \in Ctx(n) /\ r.accepted = accepted /\ r.out = {}
         /\ DataInv(r.data, accepted, n) /\ r.data.state # "ACCEPTED"
         /\ Goes(r) => Verified(r, f, n)
  <1> DEFINE c == Context(d)
             t == d.tmp
             r == sae_ap_check_confirm(c, f, e)
             matches == Matching(d, f)
             freed == IF "freed" \in {t.keys, t.points} THEN "freed" ELSE "live"
             found == matches # {} /\ ~(freed = "freed" /\ e.mem \in {"junk", "error"})
             key   == KeyOf(t.base, IF found THEN CHOOSE i \in matches : TRUE
                                    ELSE NumPasswords - 1)
             y == Touch(c, freed, e)
             x == [y EXCEPT !.ret = "success"]
  <1>0. n \in Nat /\ d \in Data(n)
    BY DEF ApTypes, DataInv
  <1>1. /\ c \in Ctx(n) /\ c.data = d /\ c.out = {} /\ c.accepted = accepted
    BY <1>0, Contexts
  <1>2. CASE t = NULL \/ t.keys = "null"
    <2>1. r = Crash(c)
      BY <1>1, <1>2 DEF sae_ap_check_confirm
    <2>2. r \in Ctx(n) /\ r.data = d /\ r.out = {} /\ r.accepted = accepted /\ ~r.alive
      <3> HIDE DEF c
      <3>1. QED
        BY <1>1, <2>1 DEF Crash, Ctx
    <2>3. QED
      BY <2>2 DEF Goes
  <1>3. CASE t # NULL /\ t.keys # "null"
    <2>1. TmpInv(t, n) /\ t.base \in Bases(n)
      BY <1>3 DEF DataInv, TmpInv
    <2>2. y \in Ctx(n) /\ y.data = d /\ y.out = {} /\ y.accepted = accepted
      <3> HIDE DEF c, freed
      <3>1. QED
        BY <1>0, <1>1, Touched
    <2>3. x \in Ctx(n) /\ x.data = d /\ x.out = {} /\ x.accepted = accepted
      <3> HIDE DEF y
      <3>1. QED
        BY <2>2 DEF Ctx, Results
    <2> DEFINE tmp == [t EXCEPT !.kck = key, !.keys = IF found THEN "freed" ELSE t.keys,
                                !.points = IF found THEN "freed" ELSE t.points]
               d2 == [x.data EXCEPT !.pmk = key, !.tmp = tmp]
               z == [x EXCEPT !.data = d2, !.ret = IF found THEN "success" ELSE "challenge"]
    <2>4. r = IF x.alive /\ x.ret = "success" THEN z ELSE x
      <3> HIDE DEF c
      <3>1. c.data = d /\ ~(c.data.tmp = NULL \/ c.data.tmp.keys = "null")
        BY <1>1, <1>3
      <3>2. r = Tries(c, c.data, f, e)
        BY <3>1, Zenon DEF sae_ap_check_confirm, Then, Tries
      <3>3. r = Tries(c, d, f, e)
        BY <3>1, <3>2, Zenon
      <3>4. QED
        BY <3>3, Zenon DEF Tries
    <2>5. key \in ApKeys(n) /\ (found => key = f.kck /\ f.kck.off = NULL)
      <3>1. matches \subseteq Passwords /\ \A i \in matches : f.kck = KeyOf(t.base, i)
        BY DEF Matching
      <3>2. NumPasswords - 1 \in Passwords
        BY NumPasswordsAssumption DEF Passwords
      <3>3. CASE found
        <4>1. PICK i \in matches : key = KeyOf(t.base, i)
          BY <3>3
        <4>2. QED
          BY <1>0, <2>1, <3>1, <4>1, SharedKey
      <3>4. CASE ~found
        <4>1. key = KeyOf(t.base, NumPasswords - 1)
          BY <3>4
        <4> HIDE DEF key, found
        <4>2. QED
          BY <1>0, <2>1, <3>2, <3>4, <4>1, KeyTypes
      <3>5. QED
        BY <3>3, <3>4
    <2>6. found => d.peer_commit_scalar \in Sta /\ t.own = f.peer
      <3>1. found => d.peer_commit_scalar # NULL /\ t.own = f.peer
        BY DEF Matching
      <3>2. d.peer_commit_scalar \in Sta \cup {NULL}
        BY <1>0 DEF Data
      <3>3. QED
        BY <3>1, <3>2
    <2> HIDE DEF key, found, x
    <2>7. TmpInv(tmp, n) /\ tmp.kck = key /\ tmp.own = t.own /\ tmp.coeffs = t.coeffs
      BY <2>1, <2>5 DEF TmpInv, Tmp
    <2> HIDE DEF tmp
    <2>8. /\ d2 \in Data(n) /\ d2.tmp = tmp /\ d2.pmk = key /\ d2.state = d.state
          /\ d2.peer_commit_scalar = d.peer_commit_scalar
      <3>1. tmp \in Tmp(n)
        BY <2>7 DEF TmpInv
      <3>2. QED
        BY <1>0, <2>3, <2>5, <3>1 DEF Data
    <2> HIDE DEF d2
    <2>9. DataInv(d2, accepted, n)
      BY <2>7, <2>8 DEF DataInv, StateInv
    <2>10. /\ z \in Ctx(n) /\ z.data = d2 /\ z.out = {} /\ z.accepted = accepted
           /\ z.ret = IF found THEN "success" ELSE "challenge"
      BY <2>3, <2>8 DEF Ctx, Results
    <2> HIDE DEF z
    <2>11. CASE x.alive /\ x.ret = "success"
      <3>1. Goes(z) => found
        BY <2>10 DEF Goes
      <3>2. found => Verified(z, f, n)
        BY <2>5, <2>6, <2>7, <2>8, <2>10 DEF Verified
      <3>3. QED
        BY <2>4, <2>8, <2>9, <2>10, <2>11, <3>1, <3>2
    <2>12. CASE ~(x.alive /\ x.ret = "success")
      BY <2>3, <2>4, <2>12 DEF Goes
    <2>13. QED
      BY <2>11, <2>12
  <1>4. QED
    BY <1>2, <1>3

\* What a handler run for a Confirm leaves behind: it accepts the key of the
\* Confirm or nothing, and the AP's own Confirm is for an accepted key.
ConfirmDone(r, f, n) ==
  /\ r \in Ctx(n) /\ DataInv(r.data, r.accepted, n)
  /\ \/ r.accepted = accepted
     \/ /\ r.accepted = Append(accepted, f.kck) /\ f.kck \in ApKeys(n)
        /\ f.kck.off = NULL /\ Unaccepted(f.peer, accepted)
  /\ \A g \in r.out :
       g.type = "confirm" => world.vlan \/ \E i \in DOMAIN r.accepted : r.accepted[i] = g.kck

\* sae_accept_sta(), which may fail to assign the VLAN.
LEMMA AcceptsSta ==
  ASSUME NEW n, ApTypes(n), NEW c \in Ctx(n), NEW f, NEW e \in Env,
         c.accepted = accepted, Verified(c, f, n), DataInv(c.data, accepted, n),
         c.data.state = "CONFIRMED", c.data.rc = 1,
         \A g \in c.out : g.type = "confirm" => g.kck = f.kck
  PROVE  ConfirmDone(sae_accept_sta([c EXCEPT !.data.send_confirm = MaxConfirm], e), f, n)
  <1> DEFINE d == [c.data EXCEPT !.send_confirm = MaxConfirm]
             x == [c EXCEPT !.data = d]
             r == sae_accept_sta(x, e)
             a == [d EXCEPT !.state = "ACCEPTED",
                            !.peer_commit_scalar_accepted = d.peer_commit_scalar,
                            !.peer_commit_scalar = NULL]
  <1>0. n \in Nat /\ c.data \in Data(n) /\ MaxConfirm \in Counts
    BY MaxConfirmNat DEF ApTypes, DataInv, Counts
  <1>1. d \in Data(n) /\ SameData(d, c.data)
    BY <1>0 DEF Data, SameData
  <1>2. a \in Data(n) /\ a.tmp = d.tmp /\ a.state = "ACCEPTED" /\ a.rc = d.rc /\ a.pmk = d.pmk
    <2> HIDE DEF d
    <2>1. d.peer_commit_scalar \in Sta \cup {NULL}
      BY <1>1 DEF Data
    <2>2. QED
      BY <1>1, <2>1 DEF Data, States
  <1> HIDE DEF d, a
  <1>3. x \in Ctx(n) /\ x.data = d /\ x.out = c.out /\ x.accepted = accepted
    BY <1>0, <1>1, NewData
  <1>4. CASE d.tmp # NULL /\ d.tmp.vlan /\ ~e.vlanOk
    <2>1. r = x
      <3> HIDE DEF x
      <3>1. QED
        BY <1>3, <1>4 DEF sae_accept_sta
    <2>2. DataInv(d, accepted, n)
      BY <1>1 DEF DataInv, StateInv, SameData
    <2>3. world.vlan
      BY <1>1, <1>4 DEF SameData, Verified, TmpInv
    <2> HIDE DEF x
    <2>4. QED
      BY <1>3, <2>1, <2>2, <2>3 DEF ConfirmDone, d, x
  <1>5. CASE ~(d.tmp # NULL /\ d.tmp.vlan /\ ~e.vlanOk)
    <2> DEFINE acc == Append(accepted, f.kck)
               z == [x EXCEPT !.data = a, !.accepted = acc]
    <2>1. x.data.pmk = f.kck
      BY <1>1, <1>3 DEF SameData, Verified
    <2>2. r = z
      <3> HIDE DEF x
      <3>1. QED
        BY <1>3, <1>5, <2>1 DEF sae_accept_sta, a
    <2>3. /\ f.kck \in ApKeys(n) /\ f.kck.off = NULL /\ Unaccepted(f.peer, accepted)
      BY DEF Verified, DataInv, StateInv
    <2>4. /\ acc \in Seq(ApKeys(n)) /\ acc # << >> /\ acc[Len(acc)] = f.kck
          /\ Len(acc) \in DOMAIN acc
      BY <2>3 DEF ApTypes
    <2> HIDE DEF acc, x
    <2>5. z \in Ctx(n) /\ z.data = a /\ z.accepted = acc /\ z.out = c.out
      BY <1>2, <1>3, <2>4 DEF Ctx
    <2>6. DataInv(a, acc, n)
      BY <1>1, <1>2, <2>1, <1>3, <2>4 DEF DataInv, StateInv, SameData
    <2> HIDE DEF z
    <2>7. ConfirmDone(z, f, n)
      BY <2>3, <2>4, <2>5, <2>6 DEF ConfirmDone, acc
    <2>8. QED
      BY <2>2, <2>7 DEF x, d
  <1>6. QED
    BY <1>4, <1>5

\* sae_sm_step() for a Confirm that verified.
LEMMA StepsConfirm ==
  ASSUME NEW n, ApTypes(n), NEW c \in Ctx(n), NEW f, NEW e \in Env, GoodConfirm(f),
         c.accepted = accepted, Goes(c), Verified(c, f, n), c.out = {},
         DataInv(c.data, accepted, n), c.data.state # "ACCEPTED"
  PROVE  ConfirmDone(sm_step_confirm([c EXCEPT !.data.rc = f.sc], e), f, n)
  <1> DEFINE d == [c.data EXCEPT !.rc = f.sc]
             x == [c EXCEPT !.data = d]
             r == sm_step_confirm(x, e)
  <1>1. n \in Nat /\ c.data \in Data(n) /\ f.sc = 1
    BY DEF ApTypes, DataInv, GoodConfirm
  <1>2. /\ d \in Data(n) /\ d.rc = 1 /\ d.tmp = c.data.tmp /\ d.state = c.data.state
        /\ d.pmk = c.data.pmk /\ d.peer_commit_scalar = c.data.peer_commit_scalar
    BY <1>1 DEF Data
  <1> HIDE DEF d
  <1>3. x \in Ctx(n) /\ x.data = d /\ x.out = {} /\ x.accepted = accepted
        /\ x.ret = c.ret /\ x.alive = c.alive
    BY <1>1, <1>2, NewData
  <1> HIDE DEF x
  <1>4. DataInv(d, accepted, n)
    BY <1>2 DEF DataInv, StateInv
  <1>5. Verified(x, f, n)
    BY <1>2, <1>3 DEF Verified
  <1>6. SUFFICES ConfirmDone(r, f, n)
    BY DEF x, d
  <1>7. CASE d.state = "NOTHING"
    <2>1. r = x
      BY <1>3, <1>7 DEF sm_step_confirm
    <2>2. QED
      BY <1>3, <1>4, <2>1 DEF ConfirmDone
  <1>8. CASE d.state = "CONFIRMED"
    <2>1. r = sae_accept_sta([x EXCEPT !.data.send_confirm = MaxConfirm], e)
      BY <1>3, <1>8 DEF sm_step_confirm
    <2>2. QED
      BY <1>2, <1>3, <1>4, <1>5, <1>8, <2>1, AcceptsSta
  <1>9. CASE d.state = "COMMITTED"
    <2> DEFINE y == auth_sae_send_confirm(x, e)
               z == SetState(y, "CONFIRMED")
               w == IF Goes(y) THEN z ELSE y
    <2>1. r = IF Goes(w) THEN sae_accept_sta([w EXCEPT !.data.send_confirm = MaxConfirm], e)
              ELSE w
      BY <1>3, <1>9 DEF sm_step_confirm, Then, Goes
    <2>2. d.tmp.own \in Ap(n) /\ d.peer_commit_scalar \in Sta /\ TmpInv(d.tmp, n)
      BY <1>3, <1>4, <1>5, <1>9 DEF DataInv, StateInv, Verified
    <2>3. /\ y \in Ctx(n) /\ y.accepted = accepted /\ SameData(y.data, d)
          /\ \A g \in y.out : g.kck = f.kck
          /\ ~Goes(y) => y.out = {}
      <3>1. d.tmp.kck = f.kck
        BY <1>3, <1>5 DEF Verified
      <3>2. x.ret = "success" /\ x.alive
        BY <1>3 DEF Goes
      <3>3. QED
        BY <1>1, <1>3, <2>2, <3>1, <3>2, ConfirmSent DEF Goes
    <2> HIDE DEF y
    <2>4. DataInv(y.data, accepted, n)
      BY <1>4, <2>3 DEF DataInv, StateInv, SameData, Ctx
    <2>5. CASE ~Goes(y)
      BY <2>1, <2>3, <2>4, <2>5 DEF ConfirmDone
    <2>6. CASE Goes(y)
      <3> DEFINE b == [y.data EXCEPT !.state = "CONFIRMED"]
      <3>1. y.data \in Data(n)
        BY <2>3 DEF Ctx
      <3>2. b \in Data(n) /\ b.state = "CONFIRMED" /\ b.tmp = y.data.tmp /\ b.rc = y.data.rc
            /\ b.pmk = y.data.pmk /\ b.peer_commit_scalar = y.data.peer_commit_scalar
        BY <3>1 DEF Data, States
      <3>3. z = [y EXCEPT !.data = b]
        BY DEF SetState
      <3> HIDE DEF b
      <3>4. z \in Ctx(n) /\ z.data = b /\ z.out = y.out /\ z.accepted = accepted
            /\ z.ret = y.ret /\ z.alive = y.alive
        <4> HIDE DEF z
        <4>1. y \in Ctx(n) /\ y.accepted = accepted
          BY <2>3
        <4>2. QED
          BY <1>1, <4>1, <3>2, <3>3, NewData
      <3> HIDE DEF z
      <3>5. DataInv(b, accepted, n)
        BY <1>9, <2>3, <2>4, <3>2 DEF DataInv, StateInv, SameData
      <3>6. Verified(z, f, n)
        BY <1>3, <1>5, <2>3, <3>2, <3>4 DEF Verified, SameData
      <3>7. z.data.rc = 1
        BY <1>2, <2>3, <3>2, <3>4 DEF SameData
      <3>8. r = sae_accept_sta([z EXCEPT !.data.send_confirm = MaxConfirm], e)
        <4>1. Goes(z) /\ w = z
          BY <2>6, <3>4 DEF Goes
        <4> HIDE DEF w, r
        <4>2. QED
          BY <2>1, <4>1
      <3>9. QED
        BY <2>3, <3>2, <3>4, <3>5, <3>6, <3>7, <3>8, AcceptsSta
    <2>7. QED
      BY <2>5, <2>6
  <1>10. QED
    BY <1>2, <1>7, <1>8, <1>9 DEF Data, States

\* A run for a Confirm accepts at most the key it verified.
LEMMA HandlesConfirm ==
  ASSUME NEW n, ApTypes(n), NEW f, GoodConfirm(f), NEW e \in Env,
         sae # NULL, DataInv(sae, accepted, n)
  PROVE  ConfirmDone(HandleConfirm(f, e), f, n)
  <1> DEFINE r == HandleConfirm(f, e)
             c == sae_ap_check_confirm(Context(sae), f, e)
  <1>1. sae \in Data(n)
    BY DEF DataInv
  <1>2. CASE Repeated(sae, f)
    <2>1. r = Context(sae)
      BY <1>2 DEF HandleConfirm
    <2>2. QED
      BY <1>1, <2>1, Contexts DEF ConfirmDone
  <1>3. CASE ~Repeated(sae, f)
    <2>1. sae.state # "ACCEPTED"
      BY <1>1, <1>3 DEF Repeated, DataInv, StateInv, GoodConfirm, Data
    <2>2. r = IF Goes(c) THEN sm_step_confirm([c EXCEPT !.data.rc = f.sc], e) ELSE c
      BY <1>3 DEF HandleConfirm, Then, Goes
    <2>3. /\ c \in Ctx(n) /\ c.accepted = accepted /\ c.out = {}
          /\ DataInv(c.data, accepted, n) /\ c.data.state # "ACCEPTED"
          /\ Goes(c) => Verified(c, f, n)
      BY <2>1, ChecksConfirm
    <2> HIDE DEF c
    <2>4. CASE ~Goes(c)
      BY <2>2, <2>3, <2>4 DEF ConfirmDone
    <2>5. CASE Goes(c)
      BY <2>2, <2>3, <2>5, StepsConfirm
    <2>6. QED
      BY <2>4, <2>5
  <1>4. QED
    BY <1>2, <1>3

-----------------------------------------------------------------------------
(***************************************************************************)
(* The runs of the AP's handlers, the station's and the frames in the air, *)
(* put together.                                                           *)
(***************************************************************************)

OwnScalars  == [by : {"sta"}, n : 1..MaxScalars]
PeerScalars == Ap(MaxOwnScalars)

StaData ==
  [state : States, group : Nat, send_confirm : Nat, own : OwnScalars \cup {NULL},
   peer : PeerScalars \cup {NULL}, key : Keys \cup {NULL}]

Sme ==
  [sae : StaData, token : BOOLEAN, groupIndex : Nat, rejected : SUBSET Nat,
   timer : BOOLEAN]

\* A station that has sent its Commit has sent no Confirm for it, and one that
\* has sent a Confirm has offered the key of its scalar and the AP's.
StaSaeInv(s) ==
  /\ s \in StaData
  /\ s.state = "COMMITTED" => s.own \in OwnScalars /\ s.send_confirm = 0
  /\ s.state = "CONFIRMED" => s.key \in offered /\ s.key.scalars = {s.own, s.peer}

StaInv ==
  /\ sme \in Sme /\ StaSaeInv(sme.sae)
  /\ sme.groupIndex \in 1..(Len(world.groups) + 1)
  /\ wpa \in {"idle", "authenticating", "disconnected", "completed"}
  /\ scalars \in 0..MaxScalars /\ attempts \in 0..world.attempts
  /\ offered \subseteq Keys

ApInv ==
  /\ ApTypes(ownScalars) /\ ownScalars <= MaxOwnScalars /\ alive \in BOOLEAN
  /\ sae # NULL => DataInv(sae, accepted, ownScalars)

\* Every accepted key was offered and is shared.
AcceptedInv == \A i \in DOMAIN accepted : accepted[i] \in offered /\ accepted[i].off = NULL

\* A Confirm to the station is for an accepted key, or for none that could
\* verify.
Honest(f) ==
  Sane /\ ~world.vlan => f.kck \in AcceptedKeys \/ f.own \notin f.kck.scalars

ToStaInv(f) ==
  \/ f.to = "sta" /\ f.type = "status"
  \/ f \in ToSta(ownScalars) /\ (f.type = "confirm" => Honest(f))

ToApInv(f) ==
  \/ f \in StaCommits
  \/ f.to = "ap" /\ f.type = "confirm" /\ f.kck \in offered /\ GoodConfirm(f)

AirInv == \A f \in air : ToStaInv(f) \/ ToApInv(f)

IInv == world \in Worlds /\ ApInv /\ AcceptedInv /\ StaInv /\ AirInv
-----------------------------------------------------------------------------
\* A set of numbers that is not empty has a first one.
LEMMA Least ==
  ASSUME NEW S, S \subseteq Nat, S # {}
  PROVE  First(S) \in S
  <1>1. PICK x \in S : \A y \in S : ~(<<y, x>> \in OpToRel(<, Nat))
    BY WFMin, NatLessThanWellFounded
  <1>2. \A y \in S : y < x => <<y, x>> \in OpToRel(<, Nat)
    BY DEF OpToRel
  <1>3. \A y \in S : ~(y < x)
    BY <1>1, <1>2, Zenon
  <1>4. \A y \in S : x <= y
    BY <1>3
  <1>5. QED
    BY <1>4 DEF First

\* A key of the station that is not shared is known to nobody else.
LEMMA StationKeys ==
  ASSUME NEW k \in Keys
  PROVE  k.off = NULL \/ k.off.by \in Sta
  <1>1. PICK w \in Worlds, i \in 1..MaxScalars, j \in 1..MaxOwnScalars :
          \E pw \in {w.pw, NULL} :
            k = Key(Scalar("sta", i), w.pw, Scalar("ap", j), Element(Scalar("ap", j), pw))
    BY DEF Keys
  <1>2. Scalar("sta", i) \in Sta
    BY DEF Scalar, Sta
  <1>3. QED
    BY <1>1, <1>2 DEF Key

\* The key a station derives is one of Keys.
LEMMA DerivedKey ==
  ASSUME NEW w \in Worlds, NEW own \in OwnScalars, NEW peer \in PeerScalars,
         NEW pw \in {w.pw, NULL}
  PROVE  LET k == Key(own, w.pw, peer, Element(peer, pw)) IN
         k \in Keys /\ k.scalars = {own, peer}
  <1>1. own.n \in 1..MaxScalars /\ own = Scalar("sta", own.n)
    BY DEF OwnScalars, Scalar
  <1>2. peer.n \in 1..MaxOwnScalars /\ peer = Scalar("ap", peer.n)
    BY DEF PeerScalars, Ap, Scalar
  <1>3. Key(own, w.pw, peer, Element(peer, pw)) \in Keys
    BY <1>1, <1>2 DEF Keys
  <1>4. QED
    BY <1>3 DEF Key

\* The surroundings are as the lemmas about the AP take them to be.
LEMMA Environments ==
  ASSUME world \in World
  PROVE  Environment \subseteq Env
  BY DEF World, Environment, Env

\* The frames a step leaves in the air.
LEMMA Exchanged ==
  ASSUME NEW f, NEW out, Exchange(f, out)
  PROVE  \A g \in air' : g \in air \/ g \in out
  BY DEF Exchange
-----------------------------------------------------------------------------
(***************************************************************************)
(* The AP's steps.                                                         *)
(***************************************************************************)
\* The frames to the AP stay good: the station's keys are only added to.
LEMMA ToApKept ==
  ASSUME NEW f, ToApInv(f), offered \subseteq offered'
  PROVE  ToApInv(f)'
  BY DEF ToApInv

\* The frames to the station stay honest while the AP runs.
LEMMA ToStaKept ==
  ASSUME NEW f, ToStaInv(f), Sane' => Sane, world' = world,
         AcceptedKeys \subseteq AcceptedKeys', ownScalars \in Nat,
         ownScalars' \in {ownScalars, ownScalars + 1}
  PROVE  ToStaInv(f)'
  <1>1. f \in ToSta(ownScalars) => f \in ToSta(ownScalars')
    BY FramesGrow
  <1>2. Honest(f) => Honest(f)'
    BY DEF Honest
  <1>3. QED
    BY <1>1, <1>2 DEF ToStaInv

\* A Commit is handled.
LEMMA ApCommitStep ==
  ASSUME IInv, NEW f \in air, NEW e \in Environment, ApRxCommit(f, e), ApOnly
  PROVE  IInv' /\ accepted' = accepted
  <1>1. /\ world' = world /\ UNCHANGED <<wpa, sme, attempts, scalars, offered>>
        /\ f.to = "ap" /\ f.type = "commit" /\ ownScalars < MaxOwnScalars /\ Sane
    BY DEF ApRxCommit, ApOnly, staVars, Running, Sane
  <1> DEFINE n == ownScalars
             r == HandleCommit(f, e)
             reply == IF r.alive /\ r.ret \notin {"success", "drop"} /\ "status" \in e.sent
                      THEN {Status(1, r.ret, IF r.ret \in {"group", "token"} THEN f.group ELSE 0)}
                      ELSE {}
  <1>2. ApTypes(n) /\ e \in Env /\ (sae # NULL => DataInv(sae, accepted, n))
    BY Environments DEF IInv, ApInv, ApTypes
  <1>3. f \in StaCommits
    BY <1>1 DEF IInv, AirInv, ToStaInv, ToApInv, ToSta, ApCommits, ApConfirms
  <1>4. PICK m \in {n, n + 1} : CommitDone(r, m)
    BY <1>2, <1>3, HandlesCommit
  <1>5. /\ sae' = r.data /\ pending' = r.pending /\ accepted' = r.accepted
        /\ freedUse' = r.freedUse /\ ownScalars' = r.ownScalars /\ alive' = r.alive
        /\ Exchange(f, r.out \cup reply)
    BY DEF ApRxCommit, Finish
  <1>6. \A g \in reply : g.to = "sta" /\ g.type = "status"
    BY DEF Status
  <1> HIDE DEF r, reply
  <1>7. /\ r \in Ctx(m) /\ r.accepted = accepted /\ DataInv(r.data, accepted, m) /\ Vain(r)
    BY <1>4 DEF CommitDone
  <1>8. /\ ownScalars' = m /\ n \in Nat /\ m \in Nat /\ m <= MaxOwnScalars
    BY <1>1, <1>2, <1>5, <1>7, MaxOwnScalarsAssumption DEF ApTypes, Ctx
  <1>9. accepted' = accepted /\ AcceptedKeys' = AcceptedKeys
    BY <1>5, <1>7 DEF AcceptedKeys
  <1>10. ApInv'
    <2>1. ApTypes(ownScalars)'
      BY <1>1, <1>2, <1>5, <1>7, <1>8 DEF ApTypes, Ctx
    <2>2. DataInv(sae, accepted, ownScalars)'
      BY <1>1, <1>5, <1>7, <1>8, <1>9 DEF DataInv, StateInv, TmpInv
    <2>3. alive' \in BOOLEAN
      BY <1>5, <1>7 DEF Ctx
    <2>4. QED
      BY <1>8, <2>1, <2>2, <2>3 DEF ApInv
  <1>11. StaInv'
    BY <1>1 DEF IInv, StaInv, StaSaeInv
  <1>12. AirInv'
    <2>1. ASSUME NEW g \in air PROVE (ToStaInv(g) \/ ToApInv(g))'
      <3>1. ToStaInv(g) => ToStaInv(g)'
        BY <1>1, <1>8, <1>9, ToStaKept
      <3>2. ToApInv(g) => ToApInv(g)'
        BY <1>1, ToApKept
      <3>3. QED
        BY <3>1, <3>2 DEF IInv, AirInv
    <2>2. ASSUME NEW g \in r.out PROVE ToStaInv(g)'
      <3>1. g \in ToSta(ownScalars')
        BY <1>7, <1>8, <2>2 DEF Ctx
      <3>2. g.type = "confirm" => Honest(g)'
        BY <1>5, <1>7, <2>2 DEF Honest, Sane, Vain
      <3>3. QED
        BY <3>1, <3>2 DEF ToStaInv
    <2>3. ASSUME NEW g \in reply PROVE ToStaInv(g)'
      BY <1>6, <2>3 DEF ToStaInv
    <2>4. QED
      BY <1>5, <2>1, <2>2, <2>3, Exchanged DEF AirInv
  <1>13. QED
    BY <1>1, <1>9, <1>10, <1>11, <1>12 DEF IInv, AcceptedInv

\* A Confirm is handled: nothing is accepted, or the key it is for, which the
\* station has offered and the AP has not accepted before.
LEMMA ApConfirmStep ==
  ASSUME IInv, NEW f \in air, NEW e \in Environment, ApRxConfirm(f, e), ApOnly
  PROVE  /\ IInv'
         /\ \/ accepted' = accepted
            \/ /\ accepted' = Append(accepted, f.kck) /\ f.kck \in offered
               /\ f.kck \in ApKeys(ownScalars) /\ f.kck.off = NULL
               /\ f.kck \notin AcceptedKeys
  <1>1. /\ world' = world /\ UNCHANGED <<wpa, sme, attempts, scalars, offered>>
        /\ f.to = "ap" /\ f.type = "confirm" /\ Sane
    BY DEF ApRxConfirm, ApOnly, staVars, Running, Sane
  <1> DEFINE n == ownScalars
             r == HandleConfirm(f, e)
             reply == IF r.alive /\ r.ret \notin {"success", "drop"} /\ "status" \in e.sent
                      THEN {Status(2, r.ret, IF r.ret \in {"group", "token"} THEN f.group ELSE 0)}
                      ELSE {}
  <1>2. ApTypes(n) /\ e \in Env /\ n \in Nat
    BY Environments DEF IInv, ApInv, ApTypes
  <1>3. f.kck \in offered /\ GoodConfirm(f)
    BY <1>1 DEF IInv, AirInv, ToStaInv, ToApInv, ToSta, ApCommits, ApConfirms, StaCommits
  <1>5. /\ sae' = r.data /\ pending' = r.pending /\ accepted' = r.accepted
        /\ freedUse' = r.freedUse /\ ownScalars' = r.ownScalars /\ alive' = r.alive
        /\ Exchange(f, r.out \cup reply)
    BY DEF ApRxConfirm, Finish
  <1>6. \A g \in reply : g.to = "sta" /\ g.type = "status"
    BY DEF Status
  <1>7. CASE sae = NULL
    <2>1. r = Fail(Context(NULL), "fail")
      BY <1>7 DEF HandleConfirm
    <2> HIDE DEF r, reply
    <2>2. /\ r.data = NULL /\ r.out = {} /\ r.alive /\ r.freedUse = freedUse
          /\ r.accepted = accepted /\ r.pending = pending /\ r.ownScalars = n
      BY <2>1 DEF Fail, Context
    <2>3. accepted' = accepted /\ AcceptedKeys' = AcceptedKeys /\ sae' = NULL /\ ownScalars' = n
          /\ freedUse' = freedUse /\ pending' = pending /\ alive' \in BOOLEAN
      BY <1>5, <2>2 DEF AcceptedKeys
    <2>4. ApInv'
      BY <1>1, <2>3 DEF IInv, ApInv, ApTypes
    <2>5. StaInv'
      BY <1>1 DEF IInv, StaInv, StaSaeInv
    <2>6. AirInv'
      <3>1. ASSUME NEW g \in air PROVE (ToStaInv(g) \/ ToApInv(g))'
        <4>1. Sane' = Sane
          BY <2>3 DEF Sane
        <4>2. ToStaInv(g) => ToStaInv(g)'
          BY <1>1, <1>2, <2>3, <4>1, ToStaKept
        <4>3. ToApInv(g) => ToApInv(g)'
          BY <1>1, ToApKept
        <4>4. QED
          BY <4>2, <4>3 DEF IInv, AirInv
      <3>2. ASSUME NEW g \in reply PROVE ToStaInv(g)'
        BY <1>6, <3>2 DEF ToStaInv
      <3>3. QED
        BY <1>5, <2>2, <3>1, <3>2, Exchanged DEF AirInv
    <2>7. QED
      BY <1>1, <2>3, <2>4, <2>5, <2>6 DEF IInv, AcceptedInv
  <1>8. CASE sae # NULL
    <2>1. ConfirmDone(r, f, n)
      BY <1>2, <1>3, <1>8, HandlesConfirm DEF IInv, ApInv
    <2> HIDE DEF r, reply
    <2>2. /\ r \in Ctx(n) /\ DataInv(r.data, r.accepted, n)
          /\ \A g \in r.out : g.type = "confirm" =>
               world.vlan \/ \E i \in DOMAIN r.accepted : r.accepted[i] = g.kck
      BY <2>1 DEF ConfirmDone
    <2>3. \/ accepted' = accepted
          \/ /\ accepted' = Append(accepted, f.kck) /\ f.kck \in ApKeys(n)
             /\ f.kck.off = NULL /\ Unaccepted(f.peer, accepted)
      BY <1>5, <2>1 DEF ConfirmDone
    <2>4. ownScalars' = n /\ accepted \in Seq(ApKeys(n))
      BY <1>2, <1>5, <2>2 DEF Ctx, ApTypes
    <2>5. Unaccepted(f.peer, accepted) => f.kck \notin AcceptedKeys
      BY <1>3 DEF Unaccepted, AcceptedKeys, GoodConfirm
    <2>6. AcceptedKeys \subseteq AcceptedKeys' /\ AcceptedInv'
      <3>1. CASE accepted' = accepted
        BY <1>1, <3>1 DEF AcceptedKeys, AcceptedInv, IInv
      <3>2. CASE accepted' = Append(accepted, f.kck) /\ f.kck.off = NULL
        <4>1. /\ \A i \in DOMAIN accepted : i \in DOMAIN accepted' /\ accepted'[i] = accepted[i]
              /\ \A i \in DOMAIN accepted' : i \in DOMAIN accepted \/ accepted'[i] = f.kck
          BY <2>4, <3>2
        <4>2. QED
          BY <1>1, <1>3, <3>2, <4>1 DEF AcceptedKeys, AcceptedInv, IInv
      <3>3. QED
        BY <2>3, <3>1, <3>2
    <2>7. ApInv'
      <3>1. ApTypes(ownScalars)'
        BY <1>1, <1>2, <1>5, <2>2, <2>4 DEF ApTypes, Ctx
      <3>2. DataInv(sae, accepted, ownScalars)'
        BY <1>1, <1>5, <2>2, <2>4 DEF DataInv, StateInv, TmpInv
      <3>3. alive' \in BOOLEAN
        BY <1>5, <2>2 DEF Ctx
      <3>4. QED
        BY <2>4, <3>1, <3>2, <3>3 DEF ApInv, IInv
    <2>8. StaInv'
      BY <1>1 DEF IInv, StaInv, StaSaeInv
    <2>9. AirInv'
      <3>1. ASSUME NEW g \in air PROVE (ToStaInv(g) \/ ToApInv(g))'
        <4>1. ToStaInv(g) => ToStaInv(g)'
          BY <1>1, <1>2, <2>4, <2>6, ToStaKept
        <4>2. ToApInv(g) => ToApInv(g)'
          BY <1>1, ToApKept
        <4>3. QED
          BY <4>1, <4>2 DEF IInv, AirInv
      <3>2. ASSUME NEW g \in r.out PROVE ToStaInv(g)'
        <4>1. g \in ToSta(ownScalars')
          BY <2>2, <2>4, <3>2 DEF Ctx
        <4>2. g.type = "confirm" => Honest(g)'
          BY <1>1, <1>5, <2>2, <3>2 DEF Honest, AcceptedKeys
        <4>3. QED
          BY <4>1, <4>2 DEF ToStaInv
      <3>3. ASSUME NEW g \in reply PROVE ToStaInv(g)'
        BY <1>6, <3>3 DEF ToStaInv
      <3>4. QED
        BY <1>5, <3>1, <3>2, <3>3, Exchanged DEF AirInv
    <2>10. QED
      BY <1>1, <1>3, <2>3, <2>5, <2>6, <2>7, <2>8, <2>9 DEF IInv
  <1>9. QED
    BY <1>7, <1>8

\* The disabled instance is enabled again, or the station's entry is removed.
LEMMA ApRestStep ==
  ASSUME IInv, DisabledExpires \/ ap_free_sta, ApOnly
  PROVE  IInv' /\ accepted' = accepted
  <1>1. /\ world' = world /\ UNCHANGED <<wpa, sme, attempts, scalars, offered>>
        /\ UNCHANGED <<pending, accepted, alive, freedUse, ownScalars, air>>
    BY DEF DisabledExpires, ap_free_sta, ApOnly, staVars
  <1>2. sae' # NULL => DataInv(sae', accepted, ownScalars)
    <2>1. CASE ap_free_sta
      BY <2>1 DEF ap_free_sta
    <2>2. CASE DisabledExpires
      <3> DEFINE t == [sae.tmp EXCEPT !.disabled = FALSE]
                 d == [sae EXCEPT !.tmp = t]
      <3>1. sae' = d /\ sae.tmp # NULL /\ DataInv(sae, accepted, ownScalars)
        BY <2>2 DEF DisabledExpires, sae_proto_instance_disabled, IInv, ApInv
      <3>2. /\ TmpInv(t, ownScalars) /\ t.own = sae.tmp.own /\ t.coeffs = sae.tmp.coeffs
        BY <3>1 DEF DataInv, TmpInv, Tmp
      <3> HIDE DEF t
      <3>3. t \in Tmp(ownScalars) /\ sae \in Data(ownScalars)
        BY <3>1, <3>2 DEF TmpInv, DataInv
      <3>4. d \in Data(ownScalars) /\ d.tmp = t /\ d.state = sae.state /\ d.rc = sae.rc
            /\ d.pmk = sae.pmk
        BY <3>3 DEF Data
      <3> HIDE DEF d
      <3>5. StateInv(d, accepted, ownScalars)
        BY <3>1, <3>2, <3>4 DEF StateInv, DataInv
      <3>6. QED
        BY <3>1, <3>2, <3>4, <3>5 DEF DataInv
    <2>3. QED
      BY <2>1, <2>2
  <1>3. ApInv'
    <2>1. ApTypes(ownScalars)'
      BY <1>1 DEF IInv, ApInv, ApTypes
    <2>2. (sae # NULL => DataInv(sae, accepted, ownScalars))'
      BY <1>1, <1>2 DEF DataInv, StateInv, TmpInv
    <2>3. QED
      BY <1>1, <2>1, <2>2 DEF IInv, ApInv
  <1>4. StaInv' /\ AcceptedInv'
    BY <1>1 DEF IInv, StaInv, StaSaeInv, AcceptedInv
  <1>5. AirInv'
    BY <1>1 DEF IInv, AirInv, ToStaInv, ToApInv, Honest, Sane, AcceptedKeys
  <1>6. QED
    BY <1>1, <1>3, <1>4, <1>5 DEF IInv
-----------------------------------------------------------------------------
(***************************************************************************)
(* The station's steps.                                                    *)
(***************************************************************************)
\* A step of the station is good if it leaves good data and sends good frames.
LEMMA StationStep ==
  ASSUME IInv, StaOnly, StaInv', offered \subseteq offered',
         \A g \in air' : g \in air \/ ToApInv(g)'
  PROVE  IInv'
  <1>1. /\ world' = world /\ UNCHANGED <<sae, pending, accepted, alive, freedUse, ownScalars>>
    BY DEF StaOnly, apVars
  <1>2. ApInv'
    <2>1. ApTypes(ownScalars)'
      BY <1>1 DEF IInv, ApInv, ApTypes
    <2>2. (sae # NULL => DataInv(sae, accepted, ownScalars))'
      BY <1>1 DEF DataInv, StateInv, TmpInv, IInv, ApInv
    <2>3. QED
      BY <1>1, <2>1, <2>2 DEF IInv, ApInv
  <1>3. AcceptedInv'
    BY <1>1 DEF IInv, AcceptedInv
  <1>4. ASSUME NEW g \in air PROVE (ToStaInv(g) \/ ToApInv(g))'
    <2>1. ToStaInv(g) => ToStaInv(g)'
      BY <1>1 DEF ToStaInv, Honest, Sane, AcceptedKeys
    <2>2. ToApInv(g) => ToApInv(g)'
      BY ToApKept
    <2>3. QED
      BY <2>1, <2>2 DEF IInv, AirInv
  <1>5. AirInv'
    BY <1>4 DEF AirInv
  <1>6. QED
    BY <1>1, <1>2, <1>3, <1>5 DEF IInv

\* The data and the frame of a new Commit.
LEMMA NewCommit ==
  ASSUME StaInv, world \in World, scalars < MaxScalars, NEW i \in DOMAIN world.groups,
         NEW t \in BOOLEAN
  PROVE  LET own == Scalar("sta", scalars + 1)
             d   == Committed(world.groups[i], own) IN
         /\ StaSaeInv(d) /\ i \in 1..(Len(world.groups) + 1)
         /\ scalars + 1 \in 0..MaxScalars
         /\ StaCommit(world.groups[i], own, Element(own, world.pw), t) \in StaCommits
  <1> DEFINE own == Scalar("sta", scalars + 1)
             g   == world.groups[i]
             d   == Committed(g, own)
  <1>1. scalars + 1 \in 1..MaxScalars /\ scalars + 1 \in Nat
    BY MaxScalarsAssumption DEF StaInv
  <1>2. world.groups \in Seq(Nat) /\ world.pw \in Nat
    BY DEF World
  <1>3. g \in Nat /\ i \in 1..(Len(world.groups) + 1)
    BY <1>2
  <1>4. own \in OwnScalars /\ own \in Sta
    BY <1>1 DEF Scalar, OwnScalars, Sta
  <1> HIDE DEF own, g
  <1>5. d \in StaData /\ d.state = "COMMITTED" /\ d.own = own /\ d.send_confirm = 0
    BY <1>3, <1>4 DEF Committed, StaCleared, StaData, States
  <1>6. Element(own, world.pw) \in StaElements
    BY <1>2, <1>4 DEF Element, StaElements
  <1>7. StaCommit(g, own, Element(own, world.pw), t) \in StaCommits
    BY <1>3, <1>4, <1>6 DEF StaCommit, StaCommits
  <1> HIDE DEF d
  <1>8. StaSaeInv(d)
    BY <1>4, <1>5 DEF StaSaeInv
  <1>9. QED
    BY <1>1, <1>3, <1>7, <1>8 DEF own, g, d

\* The next group is one of the configured ones.
LEMMA NextGroup ==
  ASSUME world \in World, NEW i, NEW rej, Candidates(i, rej) # {}
  PROVE  First(Candidates(i, rej)) \in DOMAIN world.groups
  <1>1. Candidates(i, rej) \subseteq DOMAIN world.groups
    BY DEF Candidates
  <1>2. DOMAIN world.groups \subseteq Nat
    BY DEF World
  <1>3. QED
    BY <1>1, <1>2, Least

\* An attempt that is given up.
LEMMA RejectedStep ==
  ASSUME IInv, StaOnly, NEW f, NEW m \in Sme, StaSaeInv(m.sae),
         m.groupIndex \in 1..(Len(world.groups) + 1), Rejected(f, m)
  PROVE  IInv' /\ wpa' = "disconnected" /\ offered' = offered
  <1>1. /\ wpa' = "disconnected" /\ UNCHANGED <<attempts, scalars, offered>>
        /\ sme' \in {m, [m EXCEPT !.rejected = {}]} /\ world' = world
    BY DEF Rejected, StaOnly
  <1>2. sme' \in Sme /\ sme'.sae = m.sae /\ sme'.groupIndex = m.groupIndex
    BY <1>1 DEF Sme
  <1>3. StaInv'
    BY <1>1, <1>2 DEF IInv, StaInv, StaSaeInv
  <1>4. \A g \in air' : g \in air
    BY Exchanged DEF Rejected
  <1>5. QED
    BY <1>1, <1>3, <1>4, StationStep

\* sme_authenticate(): a new attempt.
LEMMA AuthenticateStep ==
  ASSUME IInv, StaOnly, sme_authenticate
  PROVE  /\ IInv' /\ wpa' \in {"authenticating", "disconnected"} /\ offered' = offered
  <1> DEFINE d == [sme.sae EXCEPT !.state = "NOTHING", !.send_confirm = 0]
             m == [sme EXCEPT !.sae = d, !.groupIndex = 1]
             cand == Candidates(m.groupIndex, m.rejected)
             i    == First(cand)
             own  == Scalar("sta", scalars + 1)
             g    == world.groups[i]
  <1>1. /\ sme \in Sme /\ StaSaeInv(sme.sae) /\ world \in World /\ StaInv /\ Len(world.groups) \in Nat
    BY WorldsAssumption DEF IInv, StaInv, World
  <1>2. d \in StaData /\ d.state = "NOTHING"
    BY <1>1 DEF StaSaeInv, StaData, States
  <1>3. StaSaeInv(d)
    BY <1>2 DEF StaSaeInv
  <1>4. /\ attempts' = attempts + 1 /\ attempts < world.attempts /\ offered' = offered
        /\ SendNewCommit([sme EXCEPT !.sae.state = "NOTHING", !.sae.send_confirm = 0,
                                     !.groupIndex = 1])
    BY DEF sme_authenticate
  <1>5. [sme EXCEPT !.sae.state = "NOTHING", !.sae.send_confirm = 0, !.groupIndex = 1] = m
    BY <1>1 DEF Sme, StaSaeInv, StaData
  <1>6. SendNewCommit(m)
    BY <1>4, <1>5
  <1> HIDE DEF d
  <1>7. m \in Sme /\ m.sae = d
    BY <1>1, <1>2 DEF Sme
  <1>8. attempts' \in 0..world.attempts /\ world' = world /\ offered \subseteq Keys
    BY <1>1, <1>4 DEF StaInv, World, StaOnly
  <1>9. CASE cand = {} /\ sme' = [m EXCEPT !.groupIndex = Len(world.groups) + 1]
             /\ wpa' = "disconnected" /\ UNCHANGED <<air, scalars>>
    <2> HIDE DEF m
    <2>1. /\ sme' \in Sme /\ sme'.sae = d /\ sme'.groupIndex = Len(world.groups) + 1
      BY <1>1, <1>7, <1>9 DEF Sme
    <2>2. StaInv'
      BY <1>1, <1>3, <1>4, <1>8, <1>9, <2>1 DEF StaInv, StaSaeInv
    <2>3. QED
      BY <1>4, <1>9, <2>2, StationStep
  <1>10. CASE /\ cand # {} /\ scalars < MaxScalars /\ scalars' = scalars + 1
              /\ sme' = [m EXCEPT !.groupIndex = i, !.timer = TRUE, !.sae = Committed(g, own)]
              /\ wpa' = "authenticating"
              /\ air' = air \cup {StaCommit(g, own, Element(own, world.pw), m.token)}
    <2> HIDE DEF m
    <2>1. i \in DOMAIN world.groups /\ m.token \in BOOLEAN
      BY <1>1, <1>7, <1>10, NextGroup DEF Sme
    <2> HIDE DEF cand, i
    <2>2. /\ StaSaeInv(Committed(g, own)) /\ i \in 1..(Len(world.groups) + 1)
          /\ scalars + 1 \in 0..MaxScalars
          /\ StaCommit(g, own, Element(own, world.pw), m.token) \in StaCommits
      BY <1>1, <1>10, <2>1, NewCommit
    <2> HIDE DEF own, g
    <2>3. i \in Nat /\ Committed(g, own) \in StaData
      BY <1>1, <2>2 DEF StaSaeInv
    <2>4. sme' \in Sme /\ sme'.sae = Committed(g, own) /\ sme'.groupIndex = i
      BY <1>7, <1>10, <2>3 DEF Sme
    <2>5. StaInv'
      BY <1>4, <1>8, <1>10, <2>2, <2>4 DEF StaInv, StaSaeInv
    <2>6. \A x \in air' : x \in air \/ ToApInv(x)'
      BY <1>10, <2>2 DEF ToApInv
    <2>7. QED
      BY <1>4, <1>10, <2>5, <2>6, StationStep
  <1>11. QED
    BY <1>6, <1>9, <1>10 DEF SendNewCommit

\* The station's data with its timer stopped.
LEMMA UntimedData ==
  ASSUME IInv
  PROVE  /\ Untimed \in Sme /\ StaSaeInv(Untimed.sae) /\ Untimed.sae = sme.sae
         /\ Untimed.groupIndex = sme.groupIndex
         /\ Untimed.groupIndex \in 1..(Len(world.groups) + 1)
  BY DEF IInv, StaInv, Untimed, Sme

\* A token is asked for.
LEMMA TokenReqStep ==
  ASSUME IInv, StaOnly, NEW f \in air, StaRxTokenReq(f)
  PROVE  IInv' /\ wpa' \in {"authenticating", "disconnected"} /\ offered' = offered
  <1> DEFINE out == StaCommit(sme.sae.group, sme.sae.own,
                              Element(sme.sae.own, world.pw), TRUE)
  <1>1. CASE Rejected(f, Untimed)
    BY <1>1, UntimedData, RejectedStep
  <1>2. CASE /\ sme' = [sme EXCEPT !.token = TRUE, !.timer = TRUE]
             /\ Exchange(f, {out}) /\ UNCHANGED <<wpa, attempts, scalars, offered>>
    <2>1. /\ sme \in Sme /\ StaSaeInv(sme.sae) /\ StaInv /\ world.pw \in Nat
          /\ world' = world /\ sme.sae.state = "COMMITTED" /\ wpa = "authenticating"
      BY WorldsAssumption DEF IInv, StaInv, World, StaRxTokenReq, StaOnly, Received
    <2>2. sme' \in Sme /\ sme'.sae = sme.sae /\ sme'.groupIndex = sme.groupIndex
      BY <1>2, <2>1 DEF Sme
    <2>3. StaInv'
      BY <1>2, <2>1, <2>2 DEF StaInv, StaSaeInv
    <2>4. sme.sae.own \in Sta /\ sme.sae.group \in Nat
      BY <2>1, MaxScalarsAssumption DEF StaSaeInv, OwnScalars, Sta, StaData
    <2>5. Element(sme.sae.own, world.pw) \in StaElements
      BY <2>1, <2>4 DEF Element, StaElements
    <2>6. out \in StaCommits
      BY <2>4, <2>5 DEF StaCommit, StaCommits
    <2> HIDE DEF out
    <2>7. \A g \in air' : g \in air \/ ToApInv(g)'
      BY <1>2, <2>6, Exchanged DEF ToApInv
    <2>8. QED
      BY <1>2, <2>1, <2>3, <2>7, StationStep
  <1>3. QED
    BY <1>1, <1>2 DEF StaRxTokenReq

\* The group is refused.
LEMMA GroupRefusedStep ==
  ASSUME IInv, StaOnly, NEW f \in air, StaRxGroupRefused(f)
  PROVE  IInv' /\ wpa' \in {"authenticating", "disconnected"} /\ offered' = offered
  <1> DEFINE rej  == sme.rejected \cup {sme.sae.group}
             cand == Candidates(sme.groupIndex + 1, rej)
             i    == First(cand)
             own  == Scalar("sta", scalars + 1)
             g    == world.groups[i]
             out  == StaCommit(g, own, Element(own, world.pw), sme.token)
  <1>1. /\ sme \in Sme /\ StaSaeInv(sme.sae) /\ StaInv /\ world \in World
        /\ Len(world.groups) \in Nat /\ world' = world /\ wpa = "authenticating"
    BY WorldsAssumption DEF IInv, StaInv, World, StaRxGroupRefused, StaOnly, Received
  <1>2. rej \in SUBSET Nat
    BY <1>1 DEF Sme, StaSaeInv, StaData
  <1>3. CASE Rejected(f, [Untimed EXCEPT !.rejected = rej,
                                         !.groupIndex = Len(world.groups) + 1])
    <2> DEFINE n == Len(world.groups) + 1
               m == [Untimed EXCEPT !.rejected = rej, !.groupIndex = n]
    <2>0. n \in Nat
      BY <1>1
    <2> HIDE DEF rej, n
    <2>1. /\ m \in Sme /\ m.sae = Untimed.sae /\ m.groupIndex = n
      BY <1>2, <2>0, UntimedData DEF Sme
    <2> HIDE DEF m
    <2> USE DEF n
    <2>2. StaSaeInv(m.sae) /\ m.groupIndex \in 1..(Len(world.groups) + 1)
      BY <1>1, <2>1, UntimedData
    <2>3. QED
      BY <1>3, <2>1, <2>2, RejectedStep DEF m
  <1>4. CASE /\ cand # {} /\ scalars < MaxScalars /\ scalars' = scalars + 1
             /\ sme' = [sme EXCEPT !.rejected = rej, !.groupIndex = i,
                          !.timer = TRUE, !.sae = Committed(g, own)]
             /\ Exchange(f, {out}) /\ UNCHANGED <<wpa, attempts, offered>>
    <2>1. i \in DOMAIN world.groups /\ sme.token \in BOOLEAN
      BY <1>1, <1>4, NextGroup DEF Sme
    <2> HIDE DEF cand, i, rej
    <2>2. /\ StaSaeInv(Committed(g, own)) /\ i \in 1..(Len(world.groups) + 1)
          /\ scalars + 1 \in 0..MaxScalars /\ out \in StaCommits
      BY <1>1, <1>4, <2>1, NewCommit
    <2> HIDE DEF own, g, out
    <2>3. i \in Nat /\ Committed(g, own) \in StaData
      BY <1>1, <2>2 DEF StaSaeInv
    <2>4. sme' \in Sme /\ sme'.sae = Committed(g, own) /\ sme'.groupIndex = i
      BY <1>1, <1>2, <1>4, <2>3 DEF Sme
    <2>5. StaInv'
      BY <1>1, <1>4, <2>2, <2>4 DEF StaInv, StaSaeInv
    <2>6. \A x \in air' : x \in air \/ ToApInv(x)'
      BY <1>4, <2>2, Exchanged DEF ToApInv
    <2>7. QED
      BY <1>1, <1>4, <2>5, <2>6, StationStep
  <1>5. QED
    BY <1>3, <1>4 DEF StaRxGroupRefused

\* The AP's Commit is answered with a Confirm for a new key, or not at all.
LEMMA StaCommitStep ==
  ASSUME IInv, StaOnly, NEW f \in air, StaRxCommit(f)
  PROVE  /\ IInv' /\ wpa' \in {"authenticating", "disconnected"}
         /\ offered' = offered \/ \E k \in Keys : offered' = offered \cup {k}
  <1> DEFINE own == sme.sae.own
             key == Key(own, world.pw, f.scalar, Evaluate(f, world.pw))
             sc  == sme.sae.send_confirm + 1
             out == Confirm("ap", sc, key, own, f.scalar)
             d   == [sme.sae EXCEPT !.state = "CONFIRMED", !.peer = f.scalar,
                                    !.key = key, !.send_confirm = sc]
  <1>1. /\ sme \in Sme /\ StaSaeInv(sme.sae) /\ StaInv /\ world \in Worlds
        /\ world' = world /\ wpa = "authenticating" /\ f.to = "sta" /\ f.type = "commit"
    BY DEF IInv, StaInv, StaRxCommit, StaOnly, Received
  <1>2. CASE Rejected(f, Untimed)
    BY <1>2, UntimedData, RejectedStep
  <1>3. CASE sme' = Untimed /\ Exchange(f, {}) /\ UNCHANGED <<wpa, attempts, scalars, offered>>
    <2>1. StaInv'
      BY <1>1, <1>3, UntimedData DEF StaInv, StaSaeInv
    <2>2. \A g \in air' : g \in air
      BY <1>3, Exchanged
    <2>3. QED
      BY <1>1, <1>3, <2>1, <2>2, StationStep
  <1>4. CASE /\ sme.sae.state = "COMMITTED"
             /\ sme' = [sme EXCEPT !.token = FALSE, !.timer = TRUE, !.sae = d]
             /\ offered' = offered \cup {key} /\ Exchange(f, {out})
             /\ UNCHANGED <<wpa, attempts, scalars>>
    <2>1. own \in OwnScalars /\ sc = 1
      BY <1>1, <1>4 DEF StaSaeInv
    <2>2. f.scalar \in PeerScalars
      <3>1. f \in ApCommits(ownScalars)
        BY <1>1 DEF IInv, AirInv, ToStaInv, ToApInv, ToSta, ApCommits, ApConfirms, StaCommits
      <3>2. ownScalars \in Nat /\ ownScalars <= MaxOwnScalars
        BY DEF IInv, ApInv, ApTypes
      <3>3. QED
        BY <3>1, <3>2, MaxOwnScalarsAssumption DEF ApCommits, PeerScalars, Ap
    <2>3. PICK pw \in {world.pw, NULL} : Evaluate(f, world.pw) = Element(f.scalar, pw)
      BY DEF Evaluate
    <2>4. key \in Keys /\ key.scalars = {own, f.scalar}
      <3>1. key = Key(own, world.pw, f.scalar, Element(f.scalar, pw))
        BY <2>3
      <3> HIDE DEF key, own
      <3>2. QED
        BY <1>1, <2>1, <2>2, <3>1, DerivedKey
    <2>5. key.off = NULL \/ key.off.by \in Sta
      BY <2>4, StationKeys
    <2> HIDE DEF key, own, sc
    <2>6. /\ out.to = "ap" /\ out.type = "confirm" /\ out.kck = key /\ out.sc = 1
          /\ out.own = own /\ out.peer = f.scalar
      BY <2>1 DEF Confirm
    <2> HIDE DEF out
    <2>7. ASSUME NEW g, g = out PROVE ToApInv(g)'
      BY <1>4, <2>4, <2>5, <2>6, <2>7 DEF ToApInv, GoodConfirm
    <2>8. /\ d \in StaData /\ d.state = "CONFIRMED" /\ d.key = key /\ d.own = own
          /\ d.peer = f.scalar
      BY <1>1, <2>1, <2>2, <2>4 DEF StaData, StaSaeInv, States, own
    <2> HIDE DEF d
    <2>9. /\ sme' \in Sme /\ sme'.sae = d /\ sme'.groupIndex = sme.groupIndex
      BY <1>1, <1>4, <2>8 DEF Sme
    <2>10. StaSaeInv(sme.sae)'
      BY <1>4, <2>4, <2>8, <2>9 DEF StaSaeInv
    <2>11. StaInv'
      BY <1>1, <1>4, <2>4, <2>9, <2>10 DEF StaInv
    <2>12. \A g \in air' : g \in air \/ ToApInv(g)'
      BY <1>4, <2>7, Exchanged
    <2>13. QED
      BY <1>1, <1>4, <2>4, <2>11, <2>12, StationStep
  <1>5. QED
    BY <1>2, <1>3, <1>4 DEF StaRxCommit

\* The AP's Confirm verifies only for a key the station offered, and one the AP
\* accepted.
LEMMA StaConfirmStep ==
  ASSUME IInv, StaOnly, NEW f \in air, StaRxConfirm(f)
  PROVE  /\ IInv' /\ offered' = offered
         /\ \/ wpa' = "disconnected"
            \/ /\ wpa' = "completed" /\ sme'.sae.key \in offered
               /\ Sane /\ ~world.vlan => sme'.sae.key \in AcceptedKeys
  <1>1. CASE Rejected(f, Untimed)
    BY <1>1, UntimedData, RejectedStep
  <1>2. CASE /\ ConfirmVerifies(f)
             /\ sme' = [Untimed EXCEPT !.sae.state = "ACCEPTED",
                                       !.sae.own = NULL, !.rejected = {}]
             /\ wpa' = "completed" /\ Exchange(f, {})
             /\ UNCHANGED <<attempts, scalars, offered>>
    <2> DEFINE d == [sme.sae EXCEPT !.state = "ACCEPTED", !.own = NULL]
    <2>1. /\ sme \in Sme /\ StaSaeInv(sme.sae) /\ StaInv
          /\ world' = world /\ f.to = "sta" /\ f.type = "confirm"
      BY DEF IInv, StaInv, StaRxConfirm, StaOnly, Received
    <2>2. d \in StaData /\ d.state = "ACCEPTED" /\ d.key = sme.sae.key
      BY <2>1 DEF StaSaeInv, StaData, States
    <2>3. [Untimed EXCEPT !.sae.state = "ACCEPTED", !.sae.own = NULL, !.rejected = {}]
          = [Untimed EXCEPT !.sae = d, !.rejected = {}]
      BY <2>1, UntimedData DEF Sme, StaSaeInv, StaData
    <2> HIDE DEF d
    <2>4. sme' \in Sme /\ sme'.sae = d /\ sme'.groupIndex = sme.groupIndex
      BY <1>2, <2>2, <2>3, UntimedData DEF Sme
    <2>5. StaInv'
      BY <1>2, <2>1, <2>2, <2>4 DEF StaInv, StaSaeInv
    <2>6. \A g \in air' : g \in air
      BY <1>2, Exchanged
    <2>7. IInv'
      BY <1>2, <2>5, <2>6, StationStep
    <2>8. /\ sme.sae.key \in offered /\ sme.sae.key.scalars = {sme.sae.own, sme.sae.peer}
          /\ f.kck = sme.sae.key /\ f.own = sme.sae.peer
      BY <1>2, <2>1 DEF ConfirmVerifies, StaSaeInv
    <2>9. Honest(f)
      BY <2>1 DEF IInv, AirInv, ToStaInv, ToApInv, StaCommits
    <2>10. Sane /\ ~world.vlan => sme.sae.key \in AcceptedKeys
      BY <2>8, <2>9 DEF Honest
    <2>11. QED
      BY <1>2, <2>2, <2>4, <2>7, <2>8, <2>10
  <1>3. QED
    BY <1>1, <1>2 DEF StaRxConfirm

\* Another status, or no answer.
LEMMA StaRestStep ==
  ASSUME IInv, StaOnly, sme_auth_timer \/ \E f \in air : StaRxStatus(f)
  PROVE  IInv' /\ wpa' = "disconnected" /\ offered' = offered
  <1>1. CASE \E f \in air : StaRxStatus(f)
    <2>1. PICK f \in air : StaRxStatus(f)
      BY <1>1
    <2>2. Rejected(f, Untimed)
      BY <2>1 DEF StaRxStatus
    <2>3. QED
      BY <2>2, UntimedData, RejectedStep
  <1>2. CASE sme_auth_timer
    <2>1. /\ wpa' = "disconnected" /\ world' = world
          /\ sme' = [Untimed EXCEPT !.sae = StaCleared, !.token = FALSE]
          /\ UNCHANGED <<air, attempts, scalars, offered>>
      BY <1>2 DEF sme_auth_timer, StaOnly
    <2>2. StaCleared \in StaData /\ StaCleared.state = "NOTHING"
      BY DEF StaCleared, StaData, States
    <2>3. sme' \in Sme /\ sme'.sae = StaCleared /\ sme'.groupIndex = sme.groupIndex
      BY <2>1, <2>2, UntimedData DEF Sme
    <2>4. StaInv'
      BY <2>1, <2>2, <2>3 DEF IInv, StaInv, StaSaeInv
    <2>5. QED
      BY <2>1, <2>4, StationStep
  <1>3. QED
    BY <1>1, <1>2
-----------------------------------------------------------------------------
(***************************************************************************)
(* The invariant, and what it is for.                                      *)
(***************************************************************************)
LEMMA InitInv == Init => IInv
  <1> SUFFICES ASSUME Init PROVE IInv
    OBVIOUS
  <1>1. world \in World /\ world \in Worlds /\ air = {}
    BY WorldsAssumption DEF Init
  <1>2. ApInv /\ AcceptedInv
    <2>1. /\ sae = NULL /\ pending \in BOOLEAN /\ accepted = << >> /\ alive \in BOOLEAN
          /\ freedUse \in FreedUses /\ ownScalars = 0
      BY DEF Init, ApInit, FreedUses
    <2>2. accepted \in Seq(ApKeys(ownScalars)) /\ DOMAIN accepted = {}
      BY <2>1
    <2>3. QED
      BY <1>1, <2>1, <2>2, MaxOwnScalarsAssumption DEF ApInv, ApTypes, AcceptedInv
  <1>3. sme \in Sme /\ StaSaeInv(sme.sae) /\ sme.groupIndex = 1
    <2>1. StaCleared \in StaData /\ StaCleared.state = "NOTHING"
      BY DEF StaCleared, StaData, States
    <2>2. QED
      BY <2>1 DEF Init, StaInit, Sme, StaSaeInv
  <1>4. Len(world.groups) \in Nat /\ world.attempts \in Nat
    BY <1>1 DEF World
  <1>5. StaInv
    BY <1>3, <1>4, MaxScalarsAssumption DEF Init, StaInit, StaInv
  <1>6. QED
    BY <1>1, <1>2, <1>5 DEF IInv, AirInv

\* Nothing happens.
LEMMA Unchanged ==
  ASSUME IInv, UNCHANGED vars
  PROVE  IInv'
  <1>1. StaOnly /\ StaInv' /\ offered' = offered /\ air' = air
    BY DEF vars, StaOnly, apVars, staVars, IInv, StaInv, StaSaeInv
  <1>2. QED
    BY <1>1, StationStep

\* Every step preserves the invariant.
LEMMA NextInv == IInv /\ [Next]_vars => IInv'
  <1> SUFFICES ASSUME IInv, [Next]_vars PROVE IInv'
    OBVIOUS
  <1>1. ASSUME NEW f \in air, NEW e \in Environment, ApRxCommit(f, e), ApOnly
        PROVE  IInv'
    BY <1>1, ApCommitStep
  <1>2. ASSUME NEW f \in air, NEW e \in Environment, ApRxConfirm(f, e), ApOnly
        PROVE  IInv'
    BY <1>2, ApConfirmStep
  <1>3. CASE (DisabledExpires \/ ap_free_sta) /\ ApOnly
    BY <1>3, ApRestStep
  <1>4. CASE sme_authenticate /\ StaOnly
    BY <1>4, AuthenticateStep
  <1>5. ASSUME NEW f \in air, StaOnly,
               StaRxTokenReq(f) \/ StaRxGroupRefused(f) \/ StaRxStatus(f)
                 \/ StaRxCommit(f) \/ StaRxConfirm(f)
        PROVE  IInv'
    BY <1>5, TokenReqStep, GroupRefusedStep, StaRestStep, StaCommitStep, StaConfirmStep
  <1>6. CASE sme_auth_timer /\ StaOnly
    BY <1>6, StaRestStep
  <1>7. CASE UNCHANGED vars
    BY <1>7, Unchanged
  <1>8. QED
    BY <1>1, <1>2, <1>3, <1>4, <1>5, <1>6, <1>7 DEF Next

\* The invariant holds of the AP and the station together.
THEOREM Invariance == Spec => []IInv
  <1>1. QED
    BY InitInv, NextInv, PTL DEF Spec

\* Both ends' variables stay well formed, whatever frames are repeated, late or
\* lost, and whatever freed memory holds: in particular the sync counter of
\* sae_check_big_sync() never passes its limit by more than one, and
\* send_confirm never its 16 bits.
THEOREM TypesKept == Spec => []TypeOK
  <1>1. IInv => TypeOK
    <2> SUFFICES ASSUME IInv PROVE TypeOK
      OBVIOUS
    <2>1. ASSUME sae # NULL
          PROVE  /\ sae.state \in States /\ sae.group \in Groups
                 /\ sae.sync \in Syncs /\ sae.send_confirm \in Counts
                 /\ sae.tmp # NULL =>
                      /\ sae.tmp.coeffs \in {"null", "live", "freed"}
                      /\ sae.tmp.points \in {"empty", "live", "freed"}
                      /\ sae.tmp.keys \in {"null", "live", "freed"}
      <3>1. sae \in Data(ownScalars) /\ (sae.tmp # NULL => sae.tmp \in Tmp(ownScalars))
        BY <2>1 DEF IInv, ApInv, DataInv, TmpInv
      <3>2. QED
        BY <3>1 DEF Data, Tmp
    <2>2. /\ pending \in BOOLEAN /\ alive \in BOOLEAN /\ freedUse \in FreedUses
          /\ ownScalars \in 0..MaxOwnScalars
      BY MaxOwnScalarsAssumption DEF IInv, ApInv, ApTypes
    <2>3. /\ wpa \in {"idle", "authenticating", "disconnected", "completed"}
          /\ sme.sae.state \in States /\ sme.groupIndex \in 1..(Len(world.groups) + 1)
          /\ attempts \in 0..world.attempts /\ scalars \in 0..MaxScalars
      BY DEF IInv, StaInv, StaSaeInv, StaData
    <2>4. QED
      BY <2>1, <2>2, <2>3 DEF TypeOK, States, Groups, Syncs, Counts, FreedUses
  <1>2. QED
    BY <1>1, Invariance, PTL

\* What sae_ap_check_confirm() lets through, the station has derived itself,
\* under one of the AP's passwords: no decoy, no earlier Confirm and no Confirm
\* for another exchange, for any number of passwords.
THEOREM SharedOnly == Spec => []AcceptsOnlyShared
  <1>1. IInv => AcceptsOnlyShared
    <2> SUFFICES ASSUME IInv, NEW i \in DOMAIN accepted
                 PROVE  accepted[i] \in offered /\ accepted[i].off = NULL
                        /\ accepted[i].pw \in Passwords
      BY DEF AcceptsOnlyShared, AcceptedKeys
    <2>1. accepted \in Seq(ApKeys(ownScalars))
      BY DEF IInv, ApInv, ApTypes
    <2>2. accepted[i] \in ApKeys(ownScalars)
      BY <2>1
    <2>3. QED
      BY <2>2 DEF IInv, AcceptedInv, ApKeys
  <1>2. QED
    BY <1>1, Invariance, PTL

\* The PMK that the 4-way handshake reads is the one that went into the PMKSA
\* cache, as long as the session is accepted: handle_auth_sae() drops every
\* Confirm that would make sae_ap_check_confirm() overwrite it.
THEOREM PmkKept == Spec => []PmkStable
  <1>1. IInv => PmkStable
    BY DEF IInv, ApInv, DataInv, StateInv, PmkStable
  <1>2. QED
    BY <1>1, Invariance, PTL
-----------------------------------------------------------------------------
(***************************************************************************)
(* The two state machines implement KeyAgreement.                          *)
(***************************************************************************)
\* A step of the AP accepts a key that both ends have, for the first time, or
\* is none of KeyAgreement.
LEMMA ApAgrees ==
  ASSUME IInv, ApOnly,
         \/ accepted' = accepted
         \/ \E k : /\ accepted' = Append(accepted, k) /\ k \in offered
                   /\ k \in ApKeys(ownScalars) /\ k.off = NULL /\ k \notin AcceptedKeys
  PROVE  [Agreement!Next]_(Agreement!vars)
  <1>1. UNCHANGED <<offered, wpa, sme>>
    BY DEF ApOnly, staVars
  <1>2. CASE accepted' = accepted
    BY <1>1, <1>2 DEF Agreement!vars
  <1>3. ASSUME NEW k, accepted' = Append(accepted, k), k \in offered,
               k \in ApKeys(ownScalars), k.off = NULL, k \notin AcceptedKeys
        PROVE  Agreement!Next
    <2>1. k \in Keys
      BY <1>3 DEF IInv, StaInv
    <2>2. k \in Shared
      BY <1>3, <2>1 DEF Shared, ApKeys
    <2>3. Agreement!Accept(k)
      BY <1>1, <1>3, <2>2 DEF Agreement!Accept, Agreement!AcceptedSet, AcceptedKeys
    <2>4. QED
      BY <2>1, <2>3 DEF Agreement!Next
  <1>4. QED
    BY <1>2, <1>3

\* A step of the station other than the end of an exchange uses no key.
LEMMA StaAgrees ==
  ASSUME StaOnly, wpa' # "completed",
         \/ offered' = offered
         \/ wpa # "completed" /\ \E k \in Keys : offered' = offered \cup {k}
  PROVE  Agreement!Next
  <1>1. accepted' = accepted
    BY DEF StaOnly, apVars
  <1>2. CASE offered' = offered
    BY <1>1, <1>2 DEF Agreement!Next, Agreement!Stop
  <1>3. CASE wpa # "completed" /\ \E k \in Keys : offered' = offered \cup {k}
    BY <1>1, <1>3 DEF Agreement!Next, Agreement!Offer
  <1>4. QED
    BY <1>2, <1>3

\* Every step is one of KeyAgreement or none, but for the one exception.
LEMMA StepAgrees ==
  ASSUME IInv, [Next]_vars
  PROVE  [(Completes => Sane /\ ~world.vlan) => Agreement!Next]_(Agreement!vars)
  <1>1. ASSUME NEW f \in air, NEW e \in Environment,
               ApRxCommit(f, e) \/ ApRxConfirm(f, e), ApOnly
        PROVE  [Agreement!Next]_(Agreement!vars)
    BY <1>1, ApCommitStep, ApConfirmStep, ApAgrees
  <1>2. CASE (DisabledExpires \/ ap_free_sta) /\ ApOnly
    BY <1>2, ApRestStep, ApAgrees
  <1>3. CASE sme_authenticate /\ StaOnly
    BY <1>3, AuthenticateStep, StaAgrees
  <1>4. ASSUME NEW f \in air, StaOnly,
               StaRxTokenReq(f) \/ StaRxGroupRefused(f) \/ StaRxStatus(f)
        PROVE  Agreement!Next
    BY <1>4, TokenReqStep, GroupRefusedStep, StaRestStep, StaAgrees
  <1>5. ASSUME NEW f \in air, StaOnly, StaRxCommit(f)
        PROVE  Agreement!Next
    <2>1. wpa = "authenticating"
      BY <1>5 DEF StaRxCommit, Received
    <2>2. QED
      BY <1>5, <2>1, StaCommitStep, StaAgrees
  <1>6. ASSUME NEW f \in air, StaOnly, StaRxConfirm(f),
               Completes => Sane /\ ~world.vlan
        PROVE  Agreement!Next
    <2>1. UNCHANGED accepted /\ wpa # "completed"
      BY <1>6 DEF StaOnly, apVars, StaRxConfirm, Received
    <2>2. /\ offered' = offered
          /\ \/ wpa' = "disconnected"
             \/ /\ wpa' = "completed" /\ sme'.sae.key \in offered
                /\ Sane /\ ~world.vlan => sme'.sae.key \in AcceptedKeys
      BY <1>6, StaConfirmStep
    <2>3. CASE wpa' = "disconnected"
      BY <1>6, <2>2, <2>3, StaAgrees
    <2>4. ASSUME wpa' = "completed", NEW k, k = sme'.sae.key, k \in offered, k \in AcceptedKeys
          PROVE  Agreement!Next
      <3>1. k \in Keys
        BY <2>4 DEF IInv, StaInv
      <3>2. Agreement!Use(k)
        BY <2>1, <2>2, <2>4 DEF Agreement!Use, Agreement!AcceptedSet, AcceptedKeys
      <3>3. QED
        BY <3>1, <3>2 DEF Agreement!Next
    <2>5. QED
      BY <1>6, <2>1, <2>2, <2>3, <2>4 DEF Completes
  <1>7. CASE sme_auth_timer /\ StaOnly
    BY <1>7, StaRestStep, StaAgrees
  <1>8. CASE UNCHANGED vars
    BY <1>8 DEF vars, apVars, staVars, Agreement!vars
  <1>9. QED
    BY <1>1, <1>2, <1>3, <1>4, <1>5, <1>6, <1>7, <1>8 DEF Next

\* SAE with DecoyAuth is key agreement: every key the station uses was proved
\* by it, then accepted by the AP, once, and under a password both have,
\* whatever the air does.  Only that it was accepted before it is used rests on
\* no use of freed memory with other content, and on no VLAN that can fail.
THEOREM Refinement == Spec => Agrees
  <1>1. Init => Agreement!Init
    BY DEF Init, ApInit, StaInit, Agreement!Init
  <1>2. IInv /\ [Next]_vars =>
          [(Completes => Sane /\ ~world.vlan) => Agreement!Next]_(Agreement!vars)
    BY StepAgrees
  <1>3. QED
    BY <1>1, <1>2, Invariance, PTL DEF Spec, Agrees
==============================================================================
