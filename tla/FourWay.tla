------------------------------- MODULE FourWay -------------------------------
(***************************************************************************)
(* One station and the AP after SAE: the association, the 4-way handshake  *)
(* and the group key handshake between WpaAuth and WpaSupp, over an air    *)
(* that loses, repeats, delays and reorders EAPOL-Key frames, with the     *)
(* AP's timers, rekeying from both ends, lost deauthentications and        *)
(* associations of a station the AP still has an entry for.                *)
(***************************************************************************)
EXTENDS WpaAuth, WpaSupp

CONSTANTS
  MaxEvents,   \* bound, for each value of wpa_pairwise_update_count: events that
               \* the handshakes do not cause themselves: (re)associations,
               \* departures, rekeying, and SNonces drawn again
  MaxANonce    \* bound: ANonces, that is pairwise handshakes that can start

VARIABLES
  response,   \* an Association Response is on its way to the station
  events      \* such events so far

vars == <<eapol, authVars, suppVars, response, events>>

Init == AuthInit /\ SuppInit /\ eapol = {} /\ response = FALSE /\ events = 0
-----------------------------------------------------------------------------
Event ==
  /\ events < MaxEvents[wpa_pairwise_update_count]
  /\ events' = events + 1

Handshake == Event /\ au.ANonce < MaxANonce

NoEvent == UNCHANGED <<response, events>>

\* handle_assoc_cb() and hostapd_new_assoc_sta(), for a station that is not
\* associated by its own account, or is connected and associates again.
AssociationRequested ==
  /\ Handshake
  /\ ~response /\ (assoc => installed)
  /\ response' = TRUE
  /\ UNCHANGED suppVars

NewAssociation == AssociationRequested /\ wpa_auth_sta_associated
Reassociation  == AssociationRequested /\ WpaReauth

\* The event of the driver that leads to wpa_sm_notify_assoc().
AssociationResponse ==
  /\ response
  /\ response' = FALSE
  /\ wpa_sm_notify_assoc
  /\ UNCHANGED <<authVars, events>>

\* The station leaves, or it has heard the AP's deauthentication.
Leave == Event /\ wpa_sm_notify_disassoc /\ UNCHANGED <<authVars, response>>

StationReceives == SuppReceives /\ UNCHANGED authVars /\ NoEvent

StationRedraws == Event /\ RedrawsSNonce /\ UNCHANGED <<authVars, response>>

RequestRekey ==
  Handshake /\ wpa_sm_key_request /\ UNCHANGED <<authVars, response>>

AuthReceives ==
  /\ \E f \in eapol : wpa_receive(f)
  /\ UNCHANGED suppVars /\ NoEvent

Timeout == wpa_send_eapol_timeout /\ UNCHANGED suppVars /\ NoEvent

RekeyPtk == Handshake /\ wpa_rekey_ptk /\ UNCHANGED <<suppVars, response>>

RekeyGtk == Event /\ wpa_rekey_gtk /\ UNCHANGED <<suppVars, response>>

Deauth == Event /\ WpaDeauth /\ UNCHANGED <<suppVars, response>>

FreeSta == Event /\ wpa_auth_sta_deinit /\ UNCHANGED <<suppVars, response>>

Next ==
  \/ NewAssociation \/ Reassociation \/ AssociationResponse
  \/ Leave \/ StationReceives \/ StationRedraws \/ RequestRekey
  \/ AuthReceives \/ Timeout \/ RekeyPtk \/ RekeyGtk \/ Deauth \/ FreeSta

Spec == Init /\ [][Next]_vars

\* The AP's timers fire.
FairSpec == Spec /\ WF_vars(Timeout)
-----------------------------------------------------------------------------
\* Types, and the states the machines rest in: between two events wpa_sm_step()
\* leaves neither machine in a state it only passes through.
TypeOK ==
  /\ au.ptk_state \in {"INITIALIZE", "PTKSTART", "PTKCALCNEGOTIATING",
                       "PTKINITNEGOTIATING", "PTKINITDONE"}
  /\ au.group_state \in {"IDLE", "REKEYNEGOTIATING"}
  /\ au.wpa_group_state \in {"SETKEYS", "SETKEYSDONE"}
  /\ au.timeouts \in Nat /\ au.GKeyDoneStations \in Nat
  /\ snonce \in Nat /\ assoc \in BOOLEAN

\* The AP gives pairwise keys to its driver in the order in which the station
\* did, each after the station: no late, repeated or crossing message 2/4 or
\* 4/4, and no change of the SNonce under way (wpa_try_alt_snonce()), makes the
\* AP protect traffic with a key that the station never had or has left.
KeysAgree ==
  \E at \in [1..Len(apTks) -> 1..Len(tks)] :
     /\ \A i \in 1..Len(apTks) : apTks[i] = tks[at[i]]
     /\ \A i, j \in 1..Len(apTks) : i < j => at[i] < at[j]

\* The station never gives its driver the same pairwise key twice, which would
\* restart the packet numbers under that key: not for a repeated message 3/4,
\* and not in a later handshake or association.
InstalledOnce == \A i, j \in 1..Len(tks) : tks[i] = tks[j] => i = j

\* Within an association the station only ever moves to a newer GTK: a
\* delayed message 1/2 or 3/4 never brings an older one back, and none is
\* installed twice.
GtksIncrease == \A i, j \in 1..Len(gtks) : i < j => gtks[i] < gtks[j]

\* The number of stations that a group rekeying waits for is right: an error
\* would leave the BSS on the old GTK for ever, or change it too early.
GKeyDoneCounts ==
  au.GKeyDoneStations = IF au.present /\ au.GUpdateStationKeys THEN 1 ELSE 0

\* wpa_sm_step() loops until no state was entered: it always stops, although
\* many states can be entered again from themselves.
Settled == ~au.changed

\* The 4-way handshake ends: with keys at the AP, or with the station
\* disconnected, however many frames are lost and however often the
\* handshake is started again meanwhile.
HandshakeEnds ==
  au.ptk_state \notin {"INITIALIZE", "PTKINITDONE"}
    ~> au.ptk_state \in {"INITIALIZE", "PTKINITDONE"}

\* no_disconnect_on_group_keyerror in hostapd.conf: by default a station that
\* does not reply to the group key handshake is disconnected, so the update of
\* its group key ends one way or the other.  (A pairwise rekeying that begins
\* meanwhile takes the handshake's timer and replay counters away.)
GroupUpdateEnds == au.GUpdateStationKeys ~> ~au.GUpdateStationKeys
=============================================================================
