------------------------------- MODULE WpaSupp -------------------------------
(***************************************************************************)
(* The supplicant's side of the 4-way handshake and of the group key       *)
(* handshake (hostap/src/rsn_supp/wpa.c), for RSN with one pairwise key,   *)
(* EAPOL-Key frames with a MIC, and a driver that takes every key.         *)
(***************************************************************************)
EXTENDS EapolKey, Sequences

VARIABLES
  assoc,              \* associated: EAPOL frames reach wpa_sm_rx_eapol()
  rx_replay_counter,  \* of the last frame with a good MIC; NULL: not set
  snonce,             \* SNonce: the number of SNonces drawn so far
  renew_snonce,       \* the next message 1/4 draws a new SNonce
  anonce,             \* ANonce of the last message 1/4 answered
  tptk,               \* PTK not verified by a message 3/4 yet, or NULL
  ptk,                \* verified PTK, or NULL
  installed,          \* ptk.installed
  gtk,                \* the GTK in use, or NULL
  msg_3_of_4_ok,
  request_counter,    \* EAPOL-Key Requests sent
  tks,                \* history: the pairwise keys given to the driver
  gtks                \* history: the GTKs given to it in this association

suppVars == <<assoc, rx_replay_counter, snonce, renew_snonce, anonce, tptk,
              ptk, installed, gtk, msg_3_of_4_ok, request_counter, tks, gtks>>

SuppInit ==
  /\ assoc = FALSE /\ rx_replay_counter = NULL
  /\ snonce = 0 /\ renew_snonce = TRUE /\ anonce = NULL
  /\ tptk = NULL /\ ptk = NULL /\ installed = FALSE
  /\ gtk = NULL /\ msg_3_of_4_ok = FALSE
  /\ request_counter = 0 /\ tks = <<>> /\ gtks = <<>>
-----------------------------------------------------------------------------
\* wpa_sm_clear_ptk(): the keys in the state machine and, by the driver, the
\* ones installed.
wpa_sm_clear_ptk ==
  /\ tptk' = NULL /\ ptk' = NULL /\ installed' = FALSE
  /\ gtk' = NULL /\ gtks' = <<>>

\* wpa_sm_notify_assoc().
wpa_sm_notify_assoc ==
  /\ assoc' = TRUE
  /\ rx_replay_counter' = NULL
  /\ renew_snonce' = TRUE
  /\ wpa_sm_clear_ptk
  /\ UNCHANGED <<eapol, snonce, anonce, msg_3_of_4_ok, request_counter, tks>>

\* wpa_sm_notify_disassoc(), also reached through wpa_sm_deauthenticate().
Disassociated ==
  /\ assoc' = FALSE
  /\ wpa_sm_clear_ptk
  /\ msg_3_of_4_ok' = FALSE

wpa_sm_notify_disassoc ==
  /\ assoc
  /\ Disassociated
  /\ UNCHANGED <<eapol, rx_replay_counter, snonce, renew_snonce, anonce,
                 request_counter, tks>>
-----------------------------------------------------------------------------
\* The replay check of wpa_sm_rx_eapol(), for every frame.
CounterIncreased(f) ==
  rx_replay_counter # NULL => f.ctr > rx_replay_counter

Received(f) == assoc /\ f \in eapol /\ CounterIncreased(f)

\* wpa_supplicant_process_1_of_4(): message 1/4 has no MIC and leaves the
\* replay counter alone.
process_1_of_4(f, redraw) ==
  LET s == IF renew_snonce \/ redraw THEN snonce + 1 ELSE snonce
      t == PTK(f.nonce, s)
  IN /\ Received(f) /\ f.t = "1/4"
     /\ snonce' = s
     /\ renew_snonce' = FALSE
     /\ tptk' = t
     /\ anonce' = f.nonce
     /\ eapol' = eapol \cup {Frame("2/4", f.ctr, s, t, NULL)}
     /\ UNCHANGED <<assoc, rx_replay_counter, ptk, installed, gtk,
                    msg_3_of_4_ok, request_counter, tks, gtks>>

\* The MIC is good under the temporary PTK, or else under the PTK in use.
MicOk(f) == f.mic # NULL /\ f.mic \in {tptk, ptk}

\* wpa_supplicant_verify_eapol_key_mic(): a temporary PTK that fits becomes the
\* PTK, not installed, and is forgotten, and its SNonce is not used again.
VerifiedInstalled(f) == installed /\ f.mic # tptk

NextTptk(f) == IF f.mic = tptk THEN NULL ELSE tptk

NextRenew(f) == f.mic = tptk \/ renew_snonce

verify_eapol_key_mic(f) ==
  /\ MicOk(f)
  /\ rx_replay_counter' = f.ctr

\* Faulty: installs the PTK for every message 3/4.
InstallPtkAgain(key, isInstalled) == Append(tks, key)

\* wpa_supplicant_install_ptk(): not the same PTK again.
InstallPtk(key, isInstalled) == IF isInstalled THEN tks ELSE Append(tks, key)

\* Faulty: installs every GTK.
InstallGtkAgain(g) == Append(gtks, g)

\* wpa_supplicant_install_gtk(): not the GTK in use again.
InstallGtk(g) == IF g = gtk THEN gtks ELSE Append(gtks, g)

\* wpa_supplicant_process_3_of_4() with the MIC verified: message 4/4 is sent
\* before the key is installed.
process_3_of_4(f) ==
  /\ Received(f) /\ f.t = "3/4"
  /\ verify_eapol_key_mic(f)
  /\ f.nonce = anonce
  /\ eapol' = eapol \cup {Frame("4/4", f.ctr, NULL, f.mic, NULL)}
  /\ tptk' = NextTptk(f)
  /\ ptk' = f.mic
  /\ renew_snonce' = TRUE
  /\ tks' = InstallPtk(f.mic, VerifiedInstalled(f))
  /\ installed' = TRUE
  /\ gtks' = InstallGtk(f.gtk)
  /\ gtk' = f.gtk
  /\ msg_3_of_4_ok' = TRUE
  /\ UNCHANGED <<assoc, snonce, anonce, request_counter>>

\* wpa_supplicant_process_1_of_2() with the MIC verified.
process_1_of_2(f) ==
  /\ Received(f) /\ f.t = "1/2"
  /\ verify_eapol_key_mic(f)
  /\ msg_3_of_4_ok
  /\ tptk' = NextTptk(f)
  /\ ptk' = f.mic
  /\ installed' = VerifiedInstalled(f)
  /\ renew_snonce' = NextRenew(f)
  /\ gtks' = InstallGtk(f.gtk)
  /\ gtk' = f.gtk
  /\ eapol' = eapol \cup {Frame("2/2", f.ctr, NULL, f.mic, NULL)}
  /\ UNCHANGED <<assoc, snonce, anonce, msg_3_of_4_ok, request_counter, tks>>

\* A frame with a good MIC that fails the checks of its handler: another
\* ANonce in message 3/4, or a group handshake before the pairwise one.  The
\* station deauthenticates.
ProcessFailed(f) ==
  /\ Received(f)
  /\ verify_eapol_key_mic(f)
  /\ \/ f.t = "3/4" /\ f.nonce # anonce
     \/ f.t = "1/2" /\ ~msg_3_of_4_ok
  /\ Disassociated
  /\ renew_snonce' = NextRenew(f)
  /\ UNCHANGED <<eapol, snonce, anonce, request_counter, tks>>

\* wpa_sm_key_request() for a new pairwise key, sent by wpa_sm_rekey_ptk().
wpa_sm_key_request ==
  /\ assoc /\ ptk # NULL
  /\ eapol' = eapol \cup {Frame("request", request_counter, NULL, ptk, NULL)}
  /\ request_counter' = request_counter + 1
  /\ UNCHANGED <<assoc, rx_replay_counter, snonce, renew_snonce, anonce, tptk,
                 ptk, installed, gtk, msg_3_of_4_ok, tks, gtks>>
-----------------------------------------------------------------------------
SuppReceives ==
  \E f \in eapol : \/ process_1_of_4(f, FALSE) \/ process_3_of_4(f)
                   \/ process_1_of_2(f) \/ ProcessFailed(f)

\* Not this supplicant: one that WpaAuth puts up with, which draws a new
\* SNonce for a repeated message 1/4.
RedrawsSNonce ==
  \E f \in eapol : ~renew_snonce /\ process_1_of_4(f, TRUE)
=============================================================================
