------------------------------- MODULE WpaAuth -------------------------------
(***************************************************************************)
(* The authenticator of hostapd (hostap/src/ap/wpa_auth.c): the state      *)
(* machines WPA_PTK and WPA_PTK_GROUP of one station and WPA_GROUP of the  *)
(* BSS, for SAE (the PMK comes from the PMKSA cache), RSN with one         *)
(* pairwise key, and a driver that takes every key.                        *)
(*                                                                         *)
(* A state's entry code and a handler are operators from the authenticator *)
(* before to the authenticator after; out collects the frames they send.   *)
(***************************************************************************)
EXTENDS EapolKey, Sequences

CONSTANTS
  RSNA_MAX_EAPOL_RETRIES,  \* length of the replay counter arrays
  UpdateCounts,            \* the values of wpa_pairwise_update_count
  wpa_group_update_count   \* messages 1/2 sent at most

ASSUME RetriesAssumption == RSNA_MAX_EAPOL_RETRIES \in Nat \ {0}
ASSUME UpdateCountAssumption ==
  UpdateCounts \subseteq Nat \ {0} /\ wpa_group_update_count \in Nat \ {0}

VARIABLES
  wpa_pairwise_update_count,  \* configured: messages 1/4 and 3/4 sent at most
  au,      \* struct wpa_state_machine and struct wpa_group
  apTks    \* history: the pairwise keys given to the driver

authVars == <<wpa_pairwise_update_count, au, apTks>>

Slots == 1..RSNA_MAX_EAPOL_RETRIES

NoCounters == [i \in Slots |-> [counter |-> 0, valid |-> FALSE]]

\* struct wpa_state_machine as wpa_auth_sta_init() allocates it, without the
\* flags that are set and cleared within one call.
NewSm ==
  [present |-> TRUE, started |-> FALSE,
   ptk_state |-> "INITIALIZE", group_state |-> "IDLE",
   PTK |-> NULL, PTK_valid |-> FALSE, tk |-> NULL,
   SNonce |-> NULL, alt_SNonce |-> NULL, alt_snonce_valid |-> FALSE,
   alt_replay_counter |-> 0, update_snonce |-> FALSE,
   key_replay |-> NoCounters, prev_key_replay |-> NoCounters,
   req_replay_counter |-> NULL,
   TimeoutCtr |-> 0, GTimeoutCtr |-> 0, TimeoutEvt |-> FALSE, timeouts |-> 0,
   EAPOLKeyReceived |-> FALSE, EAPOLKeyRequest |-> FALSE,
   EAPOLKeyPairwise |-> FALSE, MICVerified |-> FALSE, rx_mic |-> NULL,
   Disconnect |-> FALSE, DeauthenticationRequest |-> FALSE,
   ReAuthenticationRequest |-> FALSE, PTKRequest |-> FALSE,
   PtkGroupInit |-> FALSE, GUpdateStationKeys |-> FALSE,
   ptkstart_without_success |-> 0]

\* struct wpa_group, and what outlives the station: the ANonces drawn and the
\* frames being sent.
NewGroup ==
  [wpa_group_state |-> "SETKEYSDONE", GTKReKey |-> FALSE,
   GKeyDoneStations |-> 0, GTK |-> 1, txGTK |-> 1,
   ANonce |-> 0, changed |-> FALSE, out |-> {}, installs |-> <<>>]

Group(s) == [x \in DOMAIN NewGroup |-> s[x]]

\* wpa_auth_sta_deinit() leaves the group; a new entry starts from nothing.
Merge(sm, g) ==
  [x \in DOMAIN NewSm \cup DOMAIN NewGroup |->
     IF x \in DOMAIN NewGroup THEN g[x] ELSE sm[x]]

AuthInit ==
  /\ wpa_pairwise_update_count \in UpdateCounts
  /\ au = Merge([NewSm EXCEPT !.present = FALSE], NewGroup)
  /\ apTks = <<>>
-----------------------------------------------------------------------------
\* wpa_replay_counter_valid(): the search ends at the first invalid entry.
wpa_replay_counter_valid(replay, c) ==
  \E i \in Slots : /\ replay[i].counter = c
                   /\ \A j \in 1..i : replay[j].valid

\* wpa_replay_counter_mark_invalid(), for one counter and for all.
MarkInvalid(replay, c) ==
  [i \in Slots |-> [replay[i] EXCEPT !.valid = @ /\ replay[i].counter # c]]

MarkAllInvalid(replay) == [i \in Slots |-> [replay[i] EXCEPT !.valid = FALSE]]

\* __wpa_send_eapol(): a new replay counter, and the frame unless its MIC
\* cannot be computed.
SendOnce(s, t, nonce, mic, gtk) ==
  LET c == s.key_replay[1].counter + 1
      replay == [i \in Slots |-> IF i = 1 THEN [counter |-> c, valid |-> TRUE]
                                 ELSE s.key_replay[i - 1]]
      sent == IF t = "1/4" \/ s.PTK_valid
              THEN {Frame(t, c, nonce, mic, gtk)} ELSE {}
  IN [s EXCEPT !.key_replay = replay, !.out = @ \cup sent]

\* wpa_send_eapol(): and one more timeout.
wpa_send_eapol(s, t, nonce, mic, gtk) ==
  [SendOnce(s, t, nonce, mic, gtk) EXCEPT !.timeouts = @ + 1]

\* wpa_gkeydone_sta().
wpa_gkeydone_sta(s) ==
  [s EXCEPT !.GKeyDoneStations = @ - 1, !.GUpdateStationKeys = FALSE]

GKeyDone(s) == IF s.GUpdateStationKeys THEN wpa_gkeydone_sta(s) ELSE s

\* wpa_remove_ptk().
wpa_remove_ptk(s) ==
  [s EXCEPT !.PTK_valid = FALSE, !.PTK = NULL, !.tk = NULL]
-----------------------------------------------------------------------------
\* SM_ENTRY_MA() of the two machines of a station.
EnterPTK(s, state) == [s EXCEPT !.changed = TRUE, !.ptk_state = state]

EnterGroup(s, state) == [s EXCEPT !.changed = TRUE, !.group_state = state]

\* Entry code of the states of WPA_PTK.
INITIALIZE(s) ==
  wpa_remove_ptk(GKeyDone([EnterPTK(s, "INITIALIZE") EXCEPT !.TimeoutCtr = 0]))

\* wpa_sta_disconnect() comes back as event WPA_DEAUTH.
DISCONNECT(s) ==
  wpa_remove_ptk([EnterPTK(s, "DISCONNECT") EXCEPT
                    !.Disconnect = FALSE, !.DeauthenticationRequest = TRUE])

DISCONNECTED(s) ==
  [EnterPTK(s, "DISCONNECTED") EXCEPT !.DeauthenticationRequest = FALSE]

AUTHENTICATION2(s) ==
  [EnterPTK(s, "AUTHENTICATION2") EXCEPT
     !.ReAuthenticationRequest = FALSE, !.ANonce = @ + 1, !.TimeoutCtr = 0]

\* Faulty: waits for the keys of an EAP authentication.
EntersINITPMK(s) == EnterPTK(s, "INITPMK")

INITPSK(s) == [EnterPTK(s, "INITPSK") EXCEPT !.req_replay_counter = NULL]

PTKSTART(s) ==
  LET t == [EnterPTK(s, "PTKSTART") EXCEPT
              !.PTKRequest = FALSE, !.TimeoutEvt = FALSE,
              !.alt_snonce_valid = FALSE, !.TimeoutCtr = @ + 1,
              !.ptkstart_without_success = @ + 1]
  IN IF t.TimeoutCtr > wpa_pairwise_update_count THEN t
     ELSE wpa_send_eapol(t, "1/4", t.ANonce, NULL, NULL)

\* The MIC of the message 2/4 received last decides.
CheckMsg2(s) ==
  LET key == PTK(s.ANonce, s.SNonce)
  IN IF s.rx_mic # key THEN s
     ELSE [s EXCEPT !.timeouts = 0, !.MICVerified = TRUE,
                    !.PTK = key, !.PTK_valid = TRUE]

PTKCALCNEGOTIATING(s) ==
  CheckMsg2([EnterPTK(s, "PTKCALCNEGOTIATING") EXCEPT
               !.EAPOLKeyReceived = FALSE, !.update_snonce = FALSE])

PTKCALCNEGOTIATING2(s) ==
  [EnterPTK(s, "PTKCALCNEGOTIATING2") EXCEPT !.TimeoutCtr = 0]

PTKINITNEGOTIATING(s) ==
  LET t == [EnterPTK(s, "PTKINITNEGOTIATING") EXCEPT
              !.TimeoutEvt = FALSE, !.TimeoutCtr = @ + 1]
  IN IF t.TimeoutCtr > wpa_pairwise_update_count THEN t
     ELSE wpa_send_eapol(t, "3/4", t.ANonce, t.PTK, t.GTK)

PTKINITDONE(s) ==
  [EnterPTK(s, "PTKINITDONE") EXCEPT
     !.EAPOLKeyReceived = FALSE, !.ptkstart_without_success = 0,
     !.tk = s.PTK, !.installs = Append(@, s.PTK)]

KeyMessage(s, pairwise) ==
  /\ s.EAPOLKeyReceived /\ ~s.EAPOLKeyRequest
  /\ s.EAPOLKeyPairwise = pairwise

\* SM_STEP(WPA_PTK), without Init and AuthenticationRequest, which only
\* wpa_auth_sta_associated() sets.
StepPTK(s) ==
  CASE s.Disconnect -> DISCONNECT(s)
    [] ~s.Disconnect /\ s.DeauthenticationRequest -> DISCONNECTED(s)
    [] ~s.Disconnect /\ ~s.DeauthenticationRequest
         /\ s.ReAuthenticationRequest -> AUTHENTICATION2(s)
    [] ~s.Disconnect /\ ~s.DeauthenticationRequest
         /\ ~s.ReAuthenticationRequest /\ s.PTKRequest ->
         PTKSTART([s EXCEPT !.ANonce = @ + 1, !.TimeoutCtr = 0])
    [] OTHER ->
       CASE s.ptk_state = "DISCONNECT" -> DISCONNECTED(s)
         [] s.ptk_state = "DISCONNECTED" -> INITIALIZE(s)
         [] s.ptk_state = "AUTHENTICATION2" -> INITPSK(s)
         [] s.ptk_state = "INITPSK" -> PTKSTART(s)
         [] s.ptk_state = "PTKSTART" ->
              IF KeyMessage(s, TRUE) THEN PTKCALCNEGOTIATING(s)
              ELSE IF s.TimeoutCtr > wpa_pairwise_update_count
                   THEN DISCONNECT(s)
              ELSE IF s.TimeoutEvt THEN PTKSTART(s) ELSE s
         [] s.ptk_state = "PTKCALCNEGOTIATING" ->
              IF s.MICVerified THEN PTKCALCNEGOTIATING2(s)
              ELSE IF KeyMessage(s, TRUE) THEN PTKCALCNEGOTIATING(s)
              ELSE IF s.TimeoutEvt THEN PTKSTART(s) ELSE s
         [] s.ptk_state = "PTKCALCNEGOTIATING2" -> PTKINITNEGOTIATING(s)
         [] s.ptk_state = "PTKINITNEGOTIATING" ->
              IF s.update_snonce THEN PTKCALCNEGOTIATING(s)
              ELSE IF KeyMessage(s, TRUE) /\ s.MICVerified THEN PTKINITDONE(s)
              ELSE IF s.TimeoutCtr > wpa_pairwise_update_count
                   THEN DISCONNECT(s)
              ELSE IF s.TimeoutEvt THEN PTKINITNEGOTIATING(s) ELSE s
         [] OTHER -> s
-----------------------------------------------------------------------------
\* Entry code of the states of WPA_PTK_GROUP.
IDLE(s) == [EnterGroup(s, "IDLE") EXCEPT !.GTimeoutCtr = 0]

REKEYNEGOTIATING(s) ==
  LET t == [EnterGroup(s, "REKEYNEGOTIATING") EXCEPT !.GTimeoutCtr = @ + 1]
  IN IF t.GTimeoutCtr > wpa_group_update_count THEN t
     ELSE wpa_send_eapol([t EXCEPT !.TimeoutEvt = FALSE],
                         "1/2", NULL, t.PTK, t.GTK)

REKEYESTABLISHED(s) ==
  GKeyDone([EnterGroup(s, "REKEYESTABLISHED") EXCEPT
              !.EAPOLKeyReceived = FALSE, !.GTimeoutCtr = 0])

KEYERROR(s) ==
  GKeyDone([EnterGroup(s, "KEYERROR") EXCEPT !.Disconnect = TRUE])

GroupInit(s) == [IDLE(s) EXCEPT !.PtkGroupInit = FALSE]

\* SM_STEP(WPA_PTK_GROUP).
StepPTKGroup(s) ==
  CASE s.PtkGroupInit -> GroupInit(s)
    [] ~s.PtkGroupInit /\ s.group_state = "IDLE" ->
         IF s.GUpdateStationKeys THEN REKEYNEGOTIATING(s) ELSE s
    [] ~s.PtkGroupInit /\ s.group_state = "REKEYNEGOTIATING" ->
         IF KeyMessage(s, FALSE) /\ s.MICVerified THEN REKEYESTABLISHED(s)
         ELSE IF s.GTimeoutCtr > wpa_group_update_count THEN KEYERROR(s)
         ELSE IF s.TimeoutEvt THEN REKEYNEGOTIATING(s) ELSE s
    [] OTHER -> IDLE(s)

\* Faulty: a station whose handshake is not complete keeps its mark.
SETKEYSKeepMark(s) ==
  LET mark == s.present /\ s.ptk_state = "PTKINITDONE"
  IN [s EXCEPT !.changed = TRUE, !.wpa_group_state = "SETKEYS",
               !.GTKReKey = FALSE, !.GTK = @ + 1,
               !.GKeyDoneStations = IF mark THEN 1 ELSE 0,
               !.GUpdateStationKeys = mark \/ @]

\* wpa_group_setkeys() with wpa_group_update_sta() for the one station: a new
\* GTK, and the station is marked and counted if its handshake is complete.
SETKEYS(s) ==
  LET mark == s.present /\ s.ptk_state = "PTKINITDONE"
  IN [s EXCEPT !.changed = TRUE, !.wpa_group_state = "SETKEYS",
               !.GTKReKey = FALSE, !.GTK = @ + 1,
               !.GKeyDoneStations = IF mark THEN 1 ELSE 0,
               !.GUpdateStationKeys = mark]

SETKEYSDONE(s) ==
  [s EXCEPT !.changed = TRUE, !.wpa_group_state = "SETKEYSDONE",
            !.txGTK = s.GTK]

\* wpa_group_sm_step() after the BSS has started.
StepGroup(s) ==
  CASE s.wpa_group_state = "SETKEYS" /\ s.GKeyDoneStations = 0
         -> SETKEYSDONE(s)
    [] s.GTKReKey /\ (s.wpa_group_state = "SETKEYS" => s.GKeyDoneStations # 0)
         -> SETKEYS(s)
    [] OTHER -> s

\* The loop of wpa_sm_step(): while a state was entered, another pass.  Sets
\* hold the one authenticator there is.
Pass(s) ==
  LET start == {[s EXCEPT !.changed = FALSE]}
      ptk   == {IF t.present THEN StepPTK(t) ELSE t : t \in start}
      group == {IF t.present THEN StepPTKGroup(t) ELSE t : t \in ptk}
  IN {StepGroup(t) : t \in group}

Again(S) == UNION {IF t.changed THEN Pass(t) ELSE {t} : t \in S}

Again4(S) == Again(Again(Again(Again(S))))

\* The bound of 13 passes is never met: Settled.
wpa_sm_step(s) == CHOOSE t \in Again4(Again4(Again4(Pass(s)))) : TRUE
-----------------------------------------------------------------------------
\* wpa_request_new_ptk().
wpa_request_new_ptk(s) == [s EXCEPT !.PTKRequest = TRUE, !.PTK_valid = FALSE]

\* wpa_auth_valid_counter(), the part that accepts another SNonce.
UpdatesSNonce(s, f) ==
  /\ f.t = "2/4"
  /\ ~wpa_replay_counter_valid(s.key_replay, f.ctr)
  /\ wpa_replay_counter_valid(s.prev_key_replay, f.ctr)
  /\ s.ptk_state = "PTKINITNEGOTIATING"
  /\ f.nonce # s.SNonce

ValidCounter(s, f) ==
  IF f.t = "request"
  THEN s.req_replay_counter # NULL => f.ctr > s.req_replay_counter
  ELSE \/ wpa_replay_counter_valid(s.key_replay, f.ctr)
       \/ UpdatesSNonce(s, f)
       \/ /\ f.t = "4/4" /\ s.alt_snonce_valid
          /\ s.ptk_state = "PTKINITNEGOTIATING"
          /\ f.ctr = s.alt_replay_counter

\* The switch of wpa_receive() over the state.
ValidState(s, f) ==
  CASE f.t = "2/4" -> \/ s.ptk_state \in {"PTKSTART", "PTKCALCNEGOTIATING"}
                      \/ s.update_snonce /\ s.ptk_state = "PTKINITNEGOTIATING"
    [] f.t = "4/4" -> s.ptk_state = "PTKINITNEGOTIATING" /\ s.PTK_valid
    [] f.t = "2/2" -> s.group_state = "REKEYNEGOTIATING" /\ s.PTK_valid
    [] f.t = "request" ->
         s.ptk_state \notin {"PTKSTART", "PTKCALCNEGOTIATING",
                             "PTKCALCNEGOTIATING2", "PTKINITNEGOTIATING"}

WithAltSNonce(s, f) ==
  IF UpdatesSNonce(s, f)
  THEN [s EXCEPT !.update_snonce = TRUE, !.alt_SNonce = s.SNonce,
                 !.alt_snonce_valid = TRUE,
                 !.alt_replay_counter = s.key_replay[1].counter]
  ELSE s

\* The frame is authentic: its MIC is checked, a message 4/4 also against the
\* earlier SNonce (wpa_try_alt_snonce()), unless there is no PTK to check with.
Checked(s) == s.PTK_valid /\ ~s.update_snonce

UsesAltSNonce(s, f) ==
  /\ f.t = "4/4" /\ s.alt_snonce_valid
  /\ f.mic # s.PTK /\ f.mic = PTK(s.ANonce, s.alt_SNonce)

\* Faulty: a message 4/4 of any SNonce will do.
AuthenticAny(s, f) == TRUE

Authentic(s, f) == f.mic = s.PTK \/ UsesAltSNonce(s, f)

AfterMic(s, f) ==
  LET t == [s EXCEPT !.MICVerified = Checked(s),
                     !.timeouts = IF Checked(s) THEN 0 ELSE @]
  IN IF Checked(s) /\ UsesAltSNonce(s, f)
     THEN [t EXCEPT !.alt_snonce_valid = FALSE, !.SNonce = s.alt_SNonce,
                    !.PTK = f.mic]
     ELSE t

\* The rest of wpa_receive() for an EAPOL-Key Request.
ReceiveRequest(s, f) ==
  IF s.MICVerified
  THEN wpa_sm_step(wpa_request_new_ptk(
         [s EXCEPT !.req_replay_counter = f.ctr, !.rx_mic = f.mic,
                   !.EAPOLKeyReceived = TRUE,
                   !.EAPOLKeyPairwise = TRUE, !.EAPOLKeyRequest = TRUE]))
  ELSE s

\* And for an answer: its counter, and all others, are used up; those of other
\* messages 1/4 are kept aside.
ReceiveAnswer(s, f) ==
  LET left == MarkInvalid(s.key_replay, f.ctr)
  IN wpa_sm_step(
       [s EXCEPT !.key_replay = MarkAllInvalid(left),
                 !.prev_key_replay = IF f.t = "2/4" THEN left ELSE NoCounters,
                 !.rx_mic = f.mic, !.EAPOLKeyReceived = TRUE,
                 !.EAPOLKeyPairwise = f.t # "2/2", !.EAPOLKeyRequest = FALSE,
                 !.SNonce = IF f.t = "2/4" THEN f.nonce ELSE @])

\* wpa_receive().
Receive(s, f) ==
  LET t == WithAltSNonce(s, f)
      u == AfterMic(t, f)
  IN IF ~ValidCounter(s, f) THEN s
     ELSE IF ~ValidState(t, f) THEN t
     ELSE IF Checked(t) /\ ~Authentic(t, f)
          THEN [t EXCEPT !.MICVerified = FALSE]
     ELSE IF f.t = "request" THEN ReceiveRequest(u, f)
     ELSE ReceiveAnswer(u, f)
-----------------------------------------------------------------------------
\* An operation takes effect: its frames go out, its keys to the driver.
Becomes(s) ==
  /\ au' = [s EXCEPT !.out = {}, !.installs = <<>>]
  /\ eapol' = eapol \cup s.out
  /\ apTks' = apTks \o s.installs
  /\ UNCHANGED wpa_pairwise_update_count

wpa_receive(f) ==
  /\ au.present /\ f \in eapol
  /\ f.t \in {"2/4", "4/4", "2/2", "request"}
  /\ Becomes(Receive(au, f))

\* wpa_send_eapol_timeout().
wpa_send_eapol_timeout ==
  /\ au.timeouts > 0
  /\ Becomes(wpa_sm_step([au EXCEPT !.timeouts = @ - 1, !.TimeoutEvt = TRUE]))

\* wpa_rekey_ptk(), whose timeout runs while a pairwise key is set.
wpa_rekey_ptk ==
  /\ au.present /\ au.tk # NULL
  /\ Becomes(wpa_sm_step(wpa_request_new_ptk(au)))

\* wpa_rekey_gtk().
wpa_rekey_gtk == Becomes(wpa_sm_step([au EXCEPT !.GTKReKey = TRUE]))

\* The (re)association of a station: event WPA_ASSOC, which removes the PTK,
\* then wpa_auth_sta_associated(), for a station machine just allocated and
\* for one that has been started before.
AfterWpaAssoc(s) == wpa_sm_step(wpa_remove_ptk(s))

wpa_auth_sta_associated ==
  LET sm    == [NewSm EXCEPT !.started = TRUE,
                             !.ReAuthenticationRequest = TRUE]
      fresh == Merge(sm, Group(au))
      again == [AfterWpaAssoc(au) EXCEPT !.key_replay = NoCounters,
                                         !.ReAuthenticationRequest = TRUE]
  IN Becomes(wpa_sm_step(IF au.present THEN again ELSE fresh))

\* The reassociation of a station that was associated: event WPA_REAUTH.
WpaReauth ==
  LET s == AfterWpaAssoc(au)
      t == IF s.ptkstart_without_success > 3
           THEN [s EXCEPT !.Disconnect = TRUE]
           ELSE [GKeyDone(s) EXCEPT
                   !.PtkGroupInit = s.GUpdateStationKeys \/ @,
                   !.ReAuthenticationRequest = TRUE]
  IN /\ au.present
     /\ Becomes(wpa_sm_step(wpa_remove_ptk(t)))

\* Event WPA_DEAUTH: a deauthentication frame of the station, or of the AP.
WpaDeauth ==
  /\ au.present
  /\ Becomes(wpa_sm_step(wpa_remove_ptk(
       [au EXCEPT !.DeauthenticationRequest = TRUE])))

\* wpa_auth_sta_deinit(), when ap_free_sta() removes the station's entry.
wpa_auth_sta_deinit ==
  /\ au.present
  /\ Becomes(Merge([NewSm EXCEPT !.present = FALSE], Group(GKeyDone(au))))
=============================================================================
