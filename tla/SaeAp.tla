-------------------------------- MODULE SaeAp --------------------------------
(***************************************************************************)
(* SAE in hostapd with DecoyAuth, for one station and an infrastructure    *)
(* BSS: handle_auth_sae() and sae_sm_step() (hostap/src/ap/ieee802_11.c)   *)
(* over struct sae_data (hostap/src/common/sae.c), hunting-and-pecking.    *)
(*                                                                         *)
(* The handler is one action per frame type.  Its many early returns are   *)
(* written by passing a context c through the functions the code calls:    *)
(* the SAE data, the frames sent, the status so far, and whether the       *)
(* process is still alive.                                                 *)
(*                                                                         *)
(* Memory that the code frees and keeps pointing to is part of the state.  *)
(* Using it has every outcome the build can give: the old content, other   *)
(* content, an error from the crypto library, or a crash.                  *)
(***************************************************************************)
EXTENDS SaeFrames

CONSTANTS
  AllowedGroups,     \* conf->sae_groups
  SaeSync,           \* conf->sae_sync (3 by default)
  MaxOwnScalars      \* bound: Commits the AP generates

ASSUME SaeSyncAssumption == SaeSync \in Nat
ASSUME MaxOwnScalarsAssumption == MaxOwnScalars \in Nat

VARIABLES
  sae,        \* sta->sae, NULL while there is none
  pending,    \* a comeback token is outstanding for the station
  accepted,   \* the PMKs given to the PMKSA cache, in order
  alive,      \* the process has not crashed
  freedUse,   \* freed memory: "none" used, "used" harmlessly, or "corrupt"
  ownScalars  \* how many Commits the AP has generated

apVars == <<sae, pending, accepted, alive, freedUse, ownScalars>>

\* What the surroundings decide during one handler run: what freed memory
\* holds, which frames the driver sends, the load, what SET has last given
\* sae_confirm_immediate, and the rest.
Environment ==
  [mem     : {"intact", "junk", "error", "crash"},
   sent    : IF world.sendMayFail THEN SUBSET {"commit", "confirm", "status"}
                            ELSE {{"commit", "confirm", "status"}},
   clogged : IF world.clogged THEN BOOLEAN ELSE {FALSE},
   tokenOk : IF world.tokensLost THEN BOOLEAN ELSE {TRUE},
   immediate : world.immediate,
   vlanOk  : IF world.vlan THEN BOOLEAN ELSE {TRUE}]

\* The send-confirm counter stays at its largest value, which also marks the
\* Confirm of a session that has ended.
MaxConfirm == 65535
-----------------------------------------------------------------------------
(***************************************************************************)
(* struct sae_data.  coeffs: u_coefficients and v_coefficients; points:    *)
(* pwe_eccs and own_commit_element_eccs; keys: kcks, pmks and their        *)
(* lengths, derived from the three values in `base'.                       *)
(***************************************************************************)
NewTmp ==
  [own |-> NULL, peerElem |-> NULL, coeffs |-> "null", points |-> "empty",
   keys |-> "null", base |-> NULL, kck |-> NULL, vlan |-> FALSE,
   disabled |-> FALSE]

\* sae_clear_data(): everything is zero and there is no temporary data.
ClearedData ==
  [state |-> "NOTHING", group |-> 0, sync |-> 0, rc |-> 0, send_confirm |-> 0,
   pmk |-> NULL, peer_commit_scalar |-> NULL,
   peer_commit_scalar_accepted |-> NULL, tmp |-> NULL]

sae_set_group(g) == [ClearedData EXCEPT !.group = g, !.tmp = NewTmp]

\* Faulty: the configured groups are not consulted.
sae_group_any(d, g) ==
  IF d.state = "COMMITTED" /\ g # d.group THEN [res |-> "group", data |-> d]
  ELSE IF g # d.group THEN [res |-> "success", data |-> sae_set_group(g)]
  ELSE [res |-> IF d.tmp = NULL THEN "fail" ELSE "success", data |-> d]

\* The status, and the data after a group change that starts from nothing.
sae_group_allowed(d, g) ==
  IF \/ g \notin AllowedGroups
     \/ d.state = "COMMITTED" /\ g # d.group
  THEN [res |-> "group", data |-> d]
  ELSE IF g # d.group THEN [res |-> "success", data |-> sae_set_group(g)]
  ELSE [res |-> IF d.tmp = NULL THEN "fail" ELSE "success", data |-> d]

\* The key of the password with index i, from what was last derived.
KeyOf(base, i) == Key(base.own, i, base.peer, base.elem)
-----------------------------------------------------------------------------
(***************************************************************************)
(* The context of a handler run.                                           *)
(***************************************************************************)
Context(d) ==
  [data |-> d, out |-> {}, ret |-> "success", alive |-> TRUE,
   freedUse |-> freedUse, accepted |-> accepted, pending |-> pending,
   ownScalars |-> ownScalars]

\* The next call, made only if nothing has failed so far.  (A function, because
\* the result of the calls before it is evaluated once for its argument.)
Then(c, Op(_)) ==
  [x \in {c} |-> IF x.alive /\ x.ret = "success" THEN Op(x) ELSE x][c]

Fail(c, res) == [c EXCEPT !.ret = res]
Crash(c)     == [c EXCEPT !.alive = FALSE]
Send(c, f, e) ==
  IF f.type \in e.sent THEN [c EXCEPT !.out = @ \cup {f}] ELSE Fail(c, "fail")

\* The use of freed memory.
UseFreed(c, e) ==
  [c EXCEPT !.freedUse = IF e.mem = "junk" \/ @ = "corrupt" THEN "corrupt" ELSE "used",
            !.ret      = IF e.mem = "error" THEN "fail" ELSE @,
            !.alive    = e.mem # "crash"]

Touch(c, what, e) == IF what = "freed" THEN UseFreed(c, e) ELSE c

\* An array after it was written to: one that was freed still is.
Written(what) == IF what = "freed" THEN "freed" ELSE "live"
-----------------------------------------------------------------------------
(***************************************************************************)
(* The AP's own Commit.                                                    *)
(***************************************************************************)
\* A new scalar, an element per password, and polynomials through them.  The
\* points go into the arrays allocated with the temporary data.
sae_ap_prepare_commit(c, e) ==
  LET t == c.data.tmp
      filled(x) ==
        [x EXCEPT !.data.tmp = [t EXCEPT !.own    = Scalar("ap", c.ownScalars + 1),
                                         !.points = Written(t.points),
                                         !.coeffs = "live"],
                  !.ownScalars = c.ownScalars + 1]
  IN Then(Touch(c, t.points, e), filled)

\* Each coefficient is written and wiped, and the arrays are freed, while the
\* pointers stay.  A second call finds wiped memory, never the old content.
sae_ap_write_commit(c, e) ==
  LET frame == ApCommit(c.data.group, c.data.tmp.own, c.data.tmp.coeffs = "live")
      wiped == [e EXCEPT !.mem = IF @ = "intact" THEN "junk" ELSE @]
      written(x) == Send([x EXCEPT !.data.tmp.coeffs = "freed"], frame, e)
  IN Then(Touch(c, c.data.tmp.coeffs, wiped), written)

auth_sae_send_commit(c, update, e) ==
  LET vlan(x)  == [x EXCEPT !.data.tmp.vlan = world.vlan]
      write(x) == sae_ap_write_commit(vlan(x), e)
  IN Then(IF update THEN sae_ap_prepare_commit(c, e) ELSE c, write)

\* The keys of all passwords; the arrays are allocated only if their pointers
\* are null.
sae_ap_process_commit(c, e) ==
  LET t    == c.data.tmp
      base == [own |-> t.own, elem |-> t.peerElem, peer |-> c.data.peer_commit_scalar]
      derived(x) ==
        [x EXCEPT !.data.tmp = [t EXCEPT !.base = base, !.keys = Written(t.keys)]]
  IN Then(Touch(c, IF t.points = "freed" THEN "freed" ELSE t.keys, e), derived)
-----------------------------------------------------------------------------
(***************************************************************************)
(* The AP's Confirm, and the check of the station's.                       *)
(***************************************************************************)
\* Without a KCK (kck_len = 0) the hash fails, after send_confirm has grown.
auth_sae_send_confirm(c, e) ==
  LET t  == c.data.tmp
      sc == IF c.data.send_confirm < MaxConfirm THEN c.data.send_confirm + 1
            ELSE MaxConfirm
      x  == [c EXCEPT !.data.send_confirm = sc]
  IN IF t = NULL THEN Fail(c, "fail")
     ELSE IF t.kck = NULL THEN Fail(x, "fail")
     ELSE Send(x, Confirm("sta", sc, t.kck, t.own, c.data.peer_commit_scalar), e)

\* Faulty: the scalars are compared but not the KCK.
MatchingAny(d, f) ==
  {i \in Passwords :
     /\ d.peer_commit_scalar # NULL /\ d.tmp.own # NULL
     /\ f.own = d.peer_commit_scalar /\ f.peer = d.tmp.own}

\* The passwords under which a Confirm verifies.
Matching(d, f) ==
  {i \in Passwords :
     /\ d.peer_commit_scalar # NULL /\ d.tmp.own # NULL
     /\ f.kck = KeyOf(d.tmp.base, i)
     /\ f.own = d.peer_commit_scalar /\ f.peer = d.tmp.own}

\* Each password is tried in turn; kck and pmk are overwritten by every try,
\* so that after a failure they are those of the last one; an error from the
\* crypto library is a try that fails.  The temporary data and the key arrays
\* are dereferenced without a check; on success the arrays are freed while
\* their pointers stay.
sae_ap_check_confirm(c, f, e) ==
  LET t       == c.data.tmp
      matches == Matching(c.data, f)
      freed   == IF "freed" \in {t.keys, t.points} THEN "freed" ELSE "live"
      found   == matches # {} /\ ~(freed = "freed" /\ e.mem \in {"junk", "error"})
      key     == KeyOf(t.base, IF found THEN CHOOSE i \in matches : TRUE
                                        ELSE NumPasswords - 1)
      tried(x) ==
        [x EXCEPT !.data = [@ EXCEPT !.pmk = key,
                              !.tmp = [t EXCEPT
                                !.kck    = key,
                                !.keys   = IF found THEN "freed" ELSE t.keys,
                                !.points = IF found THEN "freed" ELSE t.points]],
                  !.ret = IF found THEN "success" ELSE "challenge"]
  IN IF t = NULL \/ t.keys = "null" THEN Crash(c)
     ELSE Then([Touch(c, freed, e) EXCEPT !.ret = "success"], tried)
-----------------------------------------------------------------------------
(***************************************************************************)
(* The state machine.  A Commit never finds it in COMMITTED: see          *)
(* HandleCommit.                                                           *)
(***************************************************************************)
\* Faulty: the state changes before the VLAN has been assigned.
sae_accept_sta_early(c, e) ==
  IF c.data.tmp # NULL /\ c.data.tmp.vlan /\ ~e.vlanOk
  THEN [c EXCEPT !.data.state = "ACCEPTED"]
  ELSE [c EXCEPT !.data = [@ EXCEPT !.state = "ACCEPTED",
                             !.peer_commit_scalar_accepted = c.data.peer_commit_scalar,
                             !.peer_commit_scalar = NULL],
                 !.accepted = Append(@, c.data.pmk)]

\* The AP's Confirm has been sent by now; a VLAN that cannot be assigned leaves
\* the state as it is, with the keys of the password that matched.
sae_accept_sta(c, e) ==
  IF c.data.tmp # NULL /\ c.data.tmp.vlan /\ ~e.vlanOk THEN c
  ELSE [c EXCEPT !.data = [@ EXCEPT !.state = "ACCEPTED",
                             !.peer_commit_scalar_accepted = c.data.peer_commit_scalar,
                             !.peer_commit_scalar = NULL],
                 !.accepted = Append(@, c.data.pmk)]

SetState(c, s) == [c EXCEPT !.data.state = s]
SyncZero(c)    == [c EXCEPT !.data.sync = 0]

TooBigSync(c) == c.data.sync > SaeSync

\* Back to NOTHING, and the protocol instance is disabled for 10 seconds.
sae_check_big_sync(c) ==
  LET t == c.data.tmp
  IN [c EXCEPT !.data = [@ EXCEPT !.state = "NOTHING", !.sync = 0,
        !.tmp = IF t = NULL THEN NULL ELSE [t EXCEPT !.disabled = TRUE]]]

Synced(c) == [c EXCEPT !.data.sync = @ + 1]

sae_proto_instance_disabled(d) == d.tmp # NULL /\ d.tmp.disabled

sm_step_commit(c, reuse, e) ==
  LET process(x)   == sae_ap_process_commit(x, e)
      confirm(x)   == auth_sae_send_confirm(x, e)
      committed(x) == SetState(x, "COMMITTED")
      start(x)     == Then(Then(auth_sae_send_commit(x, ~reuse, e), committed),
                           process)
      both(x)      == SetState(x, "CONFIRMED")
  IN CASE c.data.state = "NOTHING" /\ e.immediate ->
            Then(Then(Then(start(c), confirm), both), SyncZero)
       [] c.data.state = "NOTHING" /\ ~e.immediate ->
            Then(start(c), SyncZero)
       [] c.data.state = "CONFIRMED" /\ TooBigSync(c) -> sae_check_big_sync(c)
       [] c.data.state = "CONFIRMED" /\ ~TooBigSync(c) ->
            Then(Then(auth_sae_send_commit(Synced(c), TRUE, e), process), confirm)
       [] c.data.state = "ACCEPTED" -> Then(start(c), SyncZero)

sm_step_confirm(c, e) ==
  LET confirmed(x) == SetState(x, "CONFIRMED")
      accept(x)    == sae_accept_sta([x EXCEPT !.data.send_confirm = MaxConfirm], e)
      answered     == auth_sae_send_confirm(Synced(c), e)
  IN CASE c.data.state = "NOTHING"   -> c
       [] c.data.state = "COMMITTED" ->
            Then(Then(auth_sae_send_confirm(c, e), confirmed), accept)
       [] c.data.state = "CONFIRMED" -> accept(c)
       [] c.data.state = "ACCEPTED" /\ TooBigSync(c) -> sae_check_big_sync(c)
       [] c.data.state = "ACCEPTED" /\ ~TooBigSync(c) ->
            [answered EXCEPT !.data.tmp = NULL]
-----------------------------------------------------------------------------
(***************************************************************************)
(* handle_auth_sae().                                                      *)
(***************************************************************************)
\* The peer's scalar and element, unless the group is refused or the scalar
\* is the one of the accepted session.
sae_parse_commit(c, f) ==
  LET g == sae_group_allowed(c.data, f.group)
      d == g.data
  IN IF g.res # "success" THEN Fail([c EXCEPT !.data = d], g.res)
     ELSE IF d.state = "ACCEPTED" /\ d.peer_commit_scalar_accepted = f.scalar
     THEN Fail([c EXCEPT !.data = d], "fail")
     ELSE [c EXCEPT !.data = [d EXCEPT !.peer_commit_scalar = f.scalar,
                                       !.tmp.peerElem = f.elem]]

\* A token is seen once sae_group_allowed() has succeeded; a wrong one drops
\* the frame whatever else is wrong with it.
check_comeback_token(c, f, e) ==
  IF ~f.token \/ c.ret = "group" \/ c.data.tmp = NULL THEN c
  ELSE IF pending /\ e.tokenOk THEN [c EXCEPT !.pending = FALSE]
  ELSE Fail(c, "drop")

auth_build_token_req(c) == Fail([c EXCEPT !.pending = TRUE], "token")

HandleCommit(f, e) ==
  LET d0     == IF sae = NULL THEN ClearedData ELSE sae
      reuse  == d0.state = "COMMITTED"
                /\ sae_group_allowed(d0, f.group).res = "success"
      d1     == IF d0.state # "COMMITTED" THEN d0
                ELSE IF reuse THEN [d0 EXCEPT !.state = "NOTHING"]
                ELSE ClearedData
      parsed == check_comeback_token(sae_parse_commit(Context(d1), f), f, e)
      decide(c) == IF ~f.token /\ e.clogged /\ ~reuse
                   THEN auth_build_token_req(c)
                   ELSE sm_step_commit(c, reuse, e)
  IN IF sae_proto_instance_disabled(d0) THEN Context(d0)
     ELSE Then(parsed, decide)

\* Faulty: off by one, a repeated Confirm is not a repetition.
RepeatedLate(d, f) == d.state = "ACCEPTED" /\ (f.sc < d.rc \/ f.sc = MaxConfirm)

\* A Confirm with an old send-confirm counter, ignored in ACCEPTED.
Repeated(d, f) == d.state = "ACCEPTED" /\ (f.sc <= d.rc \/ f.sc = MaxConfirm)

\* The confirm is checked in every state of an infrastructure BSS.
HandleConfirm(f, e) ==
  LET checked == sae_ap_check_confirm(Context(sae), f, e)
      step(c) == sm_step_confirm([c EXCEPT !.data.rc = f.sc], e)
  IN IF sae = NULL THEN Fail(Context(NULL), "fail")
     ELSE IF Repeated(sae, f) THEN Context(sae)
     ELSE Then(checked, step)

\* What the handler leaves behind: its reply goes out if the result is a
\* status to be told (and the driver sends it).
Finish(c, trans, f, e) ==
  LET group == IF c.ret \in {"group", "token"} THEN f.group ELSE 0
      reply == IF c.alive /\ c.ret \notin {"success", "drop"} /\ "status" \in e.sent
               THEN {Status(trans, c.ret, group)} ELSE {}
  IN /\ sae'        = c.data
     /\ pending'    = c.pending
     /\ accepted'   = c.accepted
     /\ freedUse'   = c.freedUse
     /\ ownScalars' = c.ownScalars
     /\ alive'      = c.alive
     /\ Exchange(f, c.out \cup reply)

\* After freed memory with other content was used, nothing more is said.
Running == alive /\ freedUse # "corrupt"

ApRxCommit(f, e) ==
  /\ Running /\ f \in air /\ f.to = "ap" /\ f.type = "commit"
  /\ ownScalars < MaxOwnScalars
  /\ \E c \in {HandleCommit(f, e)} : Finish(c, 1, f, e)

ApRxConfirm(f, e) ==
  /\ Running /\ f \in air /\ f.to = "ap" /\ f.type = "confirm"
  /\ \E c \in {HandleConfirm(f, e)} : Finish(c, 2, f, e)

\* The 10 seconds for which the protocol instance was disabled are over.
DisabledExpires ==
  /\ Running /\ sae # NULL /\ sae_proto_instance_disabled(sae)
  /\ sae' = [sae EXCEPT !.tmp.disabled = FALSE]
  /\ UNCHANGED <<pending, accepted, alive, freedUse, ownScalars, air>>

\* The station's entry is removed (deauthentication, inactivity).
ap_free_sta ==
  /\ Running /\ sae # NULL /\ sae.state \in world.removals
  /\ sae' = NULL
  /\ UNCHANGED <<pending, accepted, alive, freedUse, ownScalars, air>>

ApInit ==
  /\ sae = NULL
  /\ pending = FALSE
  /\ accepted = << >>
  /\ alive = TRUE
  /\ freedUse = "none"
  /\ ownScalars = 0
=============================================================================
