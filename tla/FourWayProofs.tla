---------------------------- MODULE FourWayProofs ----------------------------
(***************************************************************************)
(* The 4-way and group key handshakes: what each operation of hostapd's    *)
(* authenticator preserves, that the station installs no pairwise key      *)
(* twice, and, from the two together, the order of the pairwise keys and   *)
(* of the group keys.                                                      *)
(***************************************************************************)
EXTENDS FourWay, Integers, TLAPS

-----------------------------------------------------------------------------
(***************************************************************************)
(* The authenticator.  What its functions preserve, whatever the station   *)
(* does: the count of stations a group rekeying waits for, the order of the *)
(* frames and of the keys, and that the loop of wpa_sm_step() ends.        *)
(*                                                                         *)
(* LoopInv is the invariant of the loop.  Each pass that enters a state    *)
(* lowers Rank, and a pass that enters none finds the machines at rest.    *)
(***************************************************************************)

Pairs == [anonce : Nat, snonce : Nat]

AuthFields == DOMAIN NewSm \cup DOMAIN NewGroup

Recorded(s) == s = [x \in AuthFields |-> s[x]]

PtkStates ==
  {"INITIALIZE", "DISCONNECT", "DISCONNECTED", "AUTHENTICATION2", "INITPSK",
   "PTKSTART", "PTKCALCNEGOTIATING", "PTKCALCNEGOTIATING2",
   "PTKINITNEGOTIATING", "PTKINITDONE"}

GroupStates == {"IDLE", "REKEYNEGOTIATING", "REKEYESTABLISHED", "KEYERROR"}

AuthTypes(s) ==
  /\ s.ptk_state \in PtkStates /\ s.group_state \in GroupStates
  /\ s.wpa_group_state \in {"SETKEYS", "SETKEYSDONE"}
  /\ s.TimeoutCtr \in Nat /\ s.GTimeoutCtr \in Nat /\ s.timeouts \in Nat
  /\ s.EAPOLKeyPairwise \in BOOLEAN /\ s.changed \in BOOLEAN
  /\ s.ANonce \in Nat /\ s.GTK \in Nat
  /\ s.key_replay[1] \in [counter : Nat, valid : BOOLEAN]
-----------------------------------------------------------------------------
\* How many more states WPA_PTK can enter when no message is waiting.
Flagged(s) == \/ s.Disconnect \/ s.DeauthenticationRequest
              \/ s.ReAuthenticationRequest \/ s.PTKRequest

TooLate(s) == s.TimeoutCtr > wpa_pairwise_update_count

StateRank(s) ==
  CASE s.ptk_state \in {"INITIALIZE", "PTKINITDONE"} -> 0
    [] s.ptk_state = "DISCONNECTED" -> 1
    [] s.ptk_state = "DISCONNECT" -> 2
    [] s.ptk_state \in {"PTKSTART", "PTKINITNEGOTIATING"} ->
         IF TooLate(s) THEN 3 ELSE IF s.TimeoutEvt THEN 4 ELSE 0
    [] s.ptk_state \in {"INITPSK", "PTKCALCNEGOTIATING2"} -> 4
    [] s.ptk_state = "AUTHENTICATION2" -> 5
    [] s.ptk_state = "PTKCALCNEGOTIATING" ->
         IF s.MICVerified THEN 5 ELSE IF s.TimeoutEvt THEN 4 ELSE 0

PtkRank(s) ==
  LET again == IF s.ReAuthenticationRequest THEN 6
               ELSE IF s.PTKRequest THEN 4 ELSE 1
  IN IF s.Disconnect THEN 2 + again
     ELSE IF s.DeauthenticationRequest THEN 1 + again
     ELSE IF Flagged(s) THEN again ELSE StateRank(s)

\* The same for WPA_PTK_GROUP, with the states of WPA_PTK that KEYERROR leads
\* to, and for WPA_GROUP, with the group key handshake that SETKEYS leads to.
GroupRank(s) ==
  IF s.group_state = "REKEYNEGOTIATING" /\ ~s.PtkGroupInit
  THEN IF s.GTimeoutCtr > wpa_group_update_count THEN 5
       ELSE IF s.TimeoutEvt THEN 6
       ELSE IF KeyMessage(s, FALSE) /\ s.MICVerified THEN 2 ELSE 0
  ELSE (IF s.PtkGroupInit \/ s.group_state # "IDLE" THEN 1 ELSE 0)
       + (IF s.GUpdateStationKeys THEN 6 ELSE 0)

BssRank(s) == (IF s.GTKReKey THEN 8 ELSE 0)
              + (IF s.wpa_group_state = "SETKEYS" THEN 1 ELSE 0)

Rank(s) == PtkRank(s) + GroupRank(s) + BssRank(s)

BssRest(s) ==
  /\ ~s.GTKReKey
  /\ s.present => ~(s.wpa_group_state = "SETKEYS" /\ s.GKeyDoneStations = 0)

Rest(s) == PtkRank(s) = 0 /\ GroupRank(s) = 0 /\ BssRest(s)
-----------------------------------------------------------------------------
\* Which stations a group rekeying waits for.
Counted(s) ==
  s.GKeyDoneStations = IF s.present /\ s.GUpdateStationKeys THEN 1 ELSE 0

\* The AP has no entry for the station.
Absent(s) ==
  ~s.present =>
    /\ s.ptk_state = "INITIALIZE" /\ s.group_state = "IDLE" /\ s.timeouts = 0
    /\ ~Flagged(s) /\ ~s.PtkGroupInit /\ ~s.GUpdateStationKeys /\ ~s.PTK_valid

\* No pairwise message is waiting, and a handshake whose message 2/4 failed
\* takes no other one: no valid counter, and the group machine sends nothing.
Waiting(s) ==
  /\ ~KeyMessage(s, TRUE) /\ ~s.update_snonce
  /\ s.ptk_state = "PTKCALCNEGOTIATING" =>
       /\ ~s.key_replay[1].valid
       /\ \/ Flagged(s)
          \/ /\ ~s.PtkGroupInit
             /\ s.group_state = "REKEYNEGOTIATING" \/ ~s.GUpdateStationKeys
             /\ s.TimeoutEvt => ~s.MICVerified

Control(s) ==
  Recorded(s) /\ AuthTypes(s) /\ Counted(s) /\ Absent(s) /\ Waiting(s)
-----------------------------------------------------------------------------
\* The SNonces the station has sent, and the keys it has confirmed.
Drawn     == {f.nonce : f \in {g \in eapol : g.t = "2/4"}}
Confirmed == {f.mic : f \in {g \in eapol : g.t = "4/4"}}

\* A valid PTK is of the current ANonce and an SNonce the station has sent.
KeyInv(s) ==
  s.PTK_valid =>
    /\ s.PTK \in Pairs /\ s.PTK.anonce = s.ANonce /\ s.PTK.snonce \in Drawn
    /\ ~s.ReAuthenticationRequest /\ ~s.PTKRequest

\* Frames of the AP that carry a MIC and a GTK.
Micd(f) == f.t \in {"3/4", "1/2"}

Before(f, g) == \/ f.mic.anonce < g.mic.anonce
                \/ f.mic.anonce = g.mic.anonce /\ f.ctr <= g.ctr

\* The frames of the AP, by ANonce and counter, have GTKs in order, and what
\* it sends next comes after them all.
FrameTypes(F) ==
  \A f \in F : /\ f.t = "1/4" => f.nonce \in Nat /\ f.mic = NULL
               /\ Micd(f) => f.mic \in Pairs /\ f.ctr \in Nat /\ f.gtk \in Nat

FrameOrder(F) ==
  \A f, g \in F : Micd(f) /\ Micd(g) /\ Before(f, g) => f.gtk <= g.gtk

FrameBound(s, F) ==
  \A f \in F :
    /\ f.t = "1/4" => f.nonce <= s.ANonce
    /\ Micd(f) =>
         /\ f.mic.anonce <= s.ANonce /\ f.mic.snonce \in Drawn
         /\ f.gtk <= s.GTK
         /\ s.present /\ ~s.ReAuthenticationRequest
              /\ f.mic.anonce = s.ANonce => f.ctr <= s.key_replay[1].counter

\* An operation on the authenticator au sends only frames of the AP, with MICs
\* of an ANonce at least as new.
Recent(s, F) ==
  /\ au.ANonce \in Nat /\ au.ANonce <= s.ANonce
  /\ \A f \in F :
       f \in eapol \/ f.t = "1/4" \/ (Micd(f) /\ au.ANonce <= f.mic.anonce)

FrameInv(s, F) ==
  FrameTypes(F) /\ FrameOrder(F) /\ FrameBound(s, F) /\ Recent(s, F)

\* A key was installed for the current ANonce only if that handshake is over.
Ended(s) ==
  s.ptk_state \in {"PTKINITDONE", "DISCONNECT", "DISCONNECTED", "INITIALIZE"}

Past(k, s) == k.anonce < s.ANonce \/ (k.anonce = s.ANonce /\ Ended(s))

InstallInv(s) ==
  /\ \A i \in DOMAIN apTks : apTks[i] \in Pairs /\ Past(apTks[i], s)
  /\ \/ s.installs = << >>
     \/ \E k \in Confirmed : /\ k \in Pairs
                             /\ s.installs = <<k>> /\ Past(k, s)
                             /\ \A i \in DOMAIN apTks : apTks[i].anonce < k.anonce

Data(s) == KeyInv(s) /\ FrameInv(s, eapol \cup s.out) /\ InstallInv(s)

LoopInv(s) == Control(s) /\ Data(s)
-----------------------------------------------------------------------------
\* What a step does to keys and frames: it may draw an ANonce when there is no
\* PTK, forget the PTK, and send one frame with the next counter.
Sent(t, s) ==
  \/ t.out = s.out
  \/ t.out = s.out \cup {Frame("1/4", t.key_replay[1].counter, t.ANonce, NULL, NULL)}
  \/ /\ t.PTK_valid
     /\ \E ty \in {"3/4", "1/2"} : \E nonce :
          t.out = s.out \cup {Frame(ty, t.key_replay[1].counter, nonce, t.PTK, t.GTK)}

Ordered(t, s) ==
  /\ t.present /\ ~t.ReAuthenticationRequest => s.present
  /\ t.GTK = s.GTK \/ t.GTK = s.GTK + 1
  /\ \/ t.key_replay[1].counter = s.key_replay[1].counter /\ t.out = s.out
     \/ ~(t.present /\ ~t.ReAuthenticationRequest) /\ t.out = s.out
     \/ /\ t.key_replay[1].counter = s.key_replay[1].counter + 1
        /\ s.present /\ t.present /\ Sent(t, s)
  /\ \/ /\ t.ANonce = s.ANonce
        /\ s.ReAuthenticationRequest => t.ReAuthenticationRequest
     \/ t.ANonce = s.ANonce + 1 /\ ~t.PTK_valid

SameKey(t, s) ==
  t.PTK_valid => /\ s.PTK_valid /\ t.PTK = s.PTK /\ t.ANonce = s.ANonce
                 /\ t.ReAuthenticationRequest => s.ReAuthenticationRequest
                 /\ t.PTKRequest => s.PTKRequest

SameKeys(t, s) ==
  /\ t.installs = s.installs
  /\ \/ t.ANonce = s.ANonce /\ (Ended(s) => Ended(t))
     \/ t.ANonce = s.ANonce + 1

Orderly(t, s) == Ordered(t, s) /\ SameKey(t, s) /\ SameKeys(t, s)

\* A frame sent now has a MIC of the current ANonce and the largest counter.
LEMMA SentFrame ==
  ASSUME NEW s, NEW t, Sent(t, s), NEW f \in eapol \cup t.out, KeyInv(t), AuthTypes(t)
  PROVE  \/ f \in eapol \cup s.out
         \/ f.t = "1/4" /\ f.nonce = t.ANonce /\ f.mic = NULL
         \/ /\ Micd(f) /\ f.mic = t.PTK /\ t.PTK_valid /\ f.gtk = t.GTK
            /\ f.ctr = t.key_replay[1].counter
BY DEF Sent, Frame, Micd

\* Such a step keeps the frames in order,
LEMMA OrderedFrames ==
  ASSUME NEW s, NEW t, Data(s), AuthTypes(s), AuthTypes(t), Ordered(t, s), KeyInv(t)
  PROVE  FrameInv(t, eapol \cup t.out)
<1>. DEFINE F == eapol \cup s.out
            G == eapol \cup t.out
            New(f) == \/ f.t = "1/4" /\ f.nonce = t.ANonce /\ f.mic = NULL
                      \/ /\ Micd(f) /\ f.mic = t.PTK /\ t.PTK_valid
                         /\ f.gtk = t.GTK /\ f.ctr = t.key_replay[1].counter
                         /\ f.ctr = s.key_replay[1].counter + 1 /\ t.present
<1>1. \A f \in G : f \in F \/ New(f)
  BY SentFrame DEF Ordered
<1>2. \A f \in F :
         /\ f.t = "1/4" => f.nonce \in Nat /\ f.mic = NULL
         /\ Micd(f) => /\ f.mic \in Pairs /\ f.mic.anonce \in Nat
                       /\ f.ctr \in Nat /\ f.gtk \in Nat
  BY DEF Data, FrameInv, FrameTypes, Pairs
<1>3. /\ t.ANonce \in Nat /\ t.GTK \in Nat /\ t.key_replay[1].counter \in Nat
      /\ s.ANonce \in Nat /\ s.GTK \in Nat /\ s.key_replay[1].counter \in Nat
  BY DEF AuthTypes
<1>4. t.PTK_valid => /\ t.PTK \in Pairs /\ t.PTK.anonce = t.ANonce
                     /\ t.PTK.snonce \in Drawn /\ ~t.ReAuthenticationRequest
                     /\ t.ANonce = s.ANonce
                     /\ ~s.ReAuthenticationRequest
  BY DEF KeyInv, Ordered
<1>5. FrameBound(s, F) /\ FrameOrder(F)
  BY DEF Data, FrameInv
<1>6. FrameTypes(G)
  <2>1. ASSUME NEW f \in G, New(f)
        PROVE  /\ f.t = "1/4" => f.nonce \in Nat /\ f.mic = NULL
               /\ Micd(f) => f.mic \in Pairs /\ f.ctr \in Nat /\ f.gtk \in Nat
    BY <2>1, <1>3, <1>4 DEF Micd
  <2>. QED  BY <2>1, <1>1, <1>2 DEF FrameTypes
<1>7. FrameBound(t, G)
  <2>1. ASSUME NEW f \in F
        PROVE  /\ f.t = "1/4" => f.nonce <= t.ANonce
               /\ Micd(f) =>
                    /\ f.mic.anonce <= t.ANonce /\ f.mic.snonce \in Drawn
                    /\ f.gtk <= t.GTK
                    /\ t.present /\ ~t.ReAuthenticationRequest
                         /\ f.mic.anonce = t.ANonce
                            => f.ctr <= t.key_replay[1].counter
    BY <1>2, <1>3, <1>5 DEF FrameBound, Ordered
  <2>2. ASSUME NEW f \in G, New(f)
        PROVE  /\ f.t = "1/4" => f.nonce <= t.ANonce
               /\ Micd(f) =>
                    /\ f.mic.anonce <= t.ANonce /\ f.mic.snonce \in Drawn
                    /\ f.gtk <= t.GTK /\ f.ctr <= t.key_replay[1].counter
    BY <2>2, <1>3, <1>4 DEF Micd
  <2>. QED  BY <2>1, <2>2, <1>1 DEF FrameBound
<1>8. FrameOrder(G)
  <2>1. SUFFICES ASSUME NEW f \in G, NEW g \in G, Micd(f), Micd(g), Before(f, g)
                 PROVE  f.gtk <= g.gtk
    BY DEF FrameOrder
  <2>2. CASE f \in F /\ g \in F  BY <2>1, <2>2, <1>5 DEF FrameOrder
  <2>3. CASE f \in F /\ New(g)
    BY <2>1, <2>3, <1>2, <1>3, <1>5 DEF FrameBound, Ordered, Micd
  <2>4. CASE New(f) /\ New(g)
    BY <2>1, <2>4, <1>3 DEF Micd
  <2>5. CASE New(f) /\ g \in F
    <3>1. /\ f.mic = t.PTK /\ t.PTK_valid /\ f.ctr = s.key_replay[1].counter + 1
          /\ t.present /\ s.present
      BY <2>1, <2>5, <1>4 DEF Micd, Ordered
    <3>2. f.mic.anonce = s.ANonce /\ ~s.ReAuthenticationRequest
      BY <3>1, <1>4
    <3>3. g.mic.anonce <= s.ANonce
          /\ (g.mic.anonce = s.ANonce => g.ctr <= s.key_replay[1].counter)
      BY <2>1, <2>5, <3>1, <3>2, <1>5 DEF FrameBound
    <3>. QED  BY <2>1, <2>5, <3>1, <3>2, <3>3, <1>2, <1>3 DEF Before
  <2>. QED  BY <1>1, <2>2, <2>3, <2>4, <2>5
<1>9. Recent(t, G)
  <2>1. Recent(s, F)  BY DEF Data, FrameInv
  <2>2. au.ANonce \in Nat /\ au.ANonce <= t.ANonce
    BY <1>3, <2>1 DEF Recent, Ordered
  <2>3. ASSUME NEW f \in G, New(f)
        PROVE  f.t = "1/4" \/ (Micd(f) /\ au.ANonce <= f.mic.anonce)
    BY <1>4, <2>2, <2>3
  <2>. QED  BY <1>1, <2>1, <2>2, <2>3 DEF Recent
<1>. QED  BY <1>6, <1>7, <1>8, <1>9 DEF FrameInv

\* and the keys.
LEMMA SameInstalls ==
  ASSUME NEW s, NEW t, Data(s), AuthTypes(s), AuthTypes(t), SameKeys(t, s)
  PROVE  InstallInv(t)
<1>1. \A k \in Pairs : k.anonce \in Nat  BY DEF Pairs
<1>2. \A k \in Pairs : Past(k, s) => Past(k, t)
  BY <1>1 DEF Past, SameKeys, AuthTypes
<1>. QED  BY <1>2 DEF Data, InstallInv, SameKeys

\* Together, when no key is made or installed.
LEMMA OrderlyData ==
  ASSUME NEW s, NEW t, Data(s), AuthTypes(s), AuthTypes(t), Orderly(t, s)
  PROVE  Data(t)
<1>1. KeyInv(t)
  BY DEF Data, Orderly, SameKey, KeyInv
<1>. QED  BY <1>1, OrderedFrames, SameInstalls DEF Data, Orderly
-----------------------------------------------------------------------------
\* WPA_PTK enters a state: fewer are left, and no more of the other machines.
Lower(t, s) ==
  /\ t.changed /\ t.present = s.present
  /\ t.ptk_state # "PTKCALCNEGOTIATING"
  /\ PtkRank(t) < PtkRank(s)
  /\ GroupRank(t) <= GroupRank(s) /\ BssRank(t) = BssRank(s)

\* WPA_PTK gives up: the driver is told to disconnect the station.
LEMMA Disconnects ==
  ASSUME NEW s, LoopInv(s), s.present, 
         \/ s.Disconnect
         \/ /\ ~Flagged(s) /\ TooLate(s)
            /\ s.ptk_state \in {"PTKSTART", "PTKINITNEGOTIATING"},
         NEW t, t = DISCONNECT(s)
  PROVE  LoopInv(t) /\ Lower(t, s)
<1>1. Recorded(t)
  BY DEF LoopInv, Control, Recorded, DISCONNECT, EnterPTK, wpa_remove_ptk
<1>2. /\ AuthTypes(t) /\ Counted(t) /\ Absent(t) /\ Waiting(t) /\ Lower(t, s)
      /\ Orderly(t, s)
  <2>. USE DEF LoopInv, Control, Recorded, AuthFields, NewSm, NewGroup,
               DISCONNECT, EnterPTK, wpa_remove_ptk
  <2>1. AuthTypes(t)  BY DEF AuthTypes, PtkStates, GroupStates
  <2>2. Counted(t) /\ Absent(t)  BY DEF Counted, Absent
  <2>3. Waiting(t)  BY DEF Waiting, KeyMessage, Flagged
  <2>4. Lower(t, s)
    BY DEF Lower, PtkRank, StateRank, Flagged, TooLate, GroupRank, BssRank, KeyMessage,
           AuthTypes, PtkStates, GroupStates
  <2>5. Orderly(t, s)
    BY DEF Orderly, Ordered, SameKey, SameKeys, Ended, Data, KeyInv, AuthTypes
  <2>. QED  BY <2>1, <2>2, <2>3, <2>4, <2>5
<1>. QED  BY <1>1, <1>2, OrderlyData DEF LoopInv, Control

\* The station is disconnected.
LEMMA IsDisconnected ==
  ASSUME NEW s, LoopInv(s), s.present, ~s.Disconnect,
         s.DeauthenticationRequest \/ (~Flagged(s) /\ s.ptk_state = "DISCONNECT"),
         NEW t, t = DISCONNECTED(s)
  PROVE  LoopInv(t) /\ Lower(t, s)
<1>1. Recorded(t)
  BY DEF LoopInv, Control, Recorded, DISCONNECTED, EnterPTK
<1>2. /\ AuthTypes(t) /\ Counted(t) /\ Absent(t) /\ Waiting(t) /\ Lower(t, s)
      /\ Orderly(t, s)
  <2>. USE DEF LoopInv, Control, Recorded, AuthFields, NewSm, NewGroup,
               DISCONNECTED, EnterPTK
  <2>1. AuthTypes(t)  BY DEF AuthTypes, PtkStates, GroupStates
  <2>2. Counted(t) /\ Absent(t)  BY DEF Counted, Absent
  <2>3. Waiting(t)  BY DEF Waiting, KeyMessage, Flagged
  <2>4. Lower(t, s)
    BY DEF Lower, PtkRank, StateRank, Flagged, TooLate, GroupRank, BssRank, KeyMessage,
           AuthTypes, PtkStates, GroupStates
  <2>5. Orderly(t, s)
    BY DEF Orderly, Ordered, SameKey, SameKeys, Ended, Data, KeyInv, AuthTypes
  <2>. QED  BY <2>1, <2>2, <2>3, <2>4, <2>5
<1>. QED  BY <1>1, <1>2, OrderlyData DEF LoopInv, Control

\* An association starts a handshake with a new ANonce.
LEMMA Authenticates ==
  ASSUME NEW s, LoopInv(s), s.present, ~s.Disconnect, ~s.DeauthenticationRequest,
         s.ReAuthenticationRequest,
         NEW t, t = AUTHENTICATION2(s)
  PROVE  LoopInv(t) /\ Lower(t, s)
<1>1. Recorded(t)
  BY DEF LoopInv, Control, Recorded, AUTHENTICATION2, EnterPTK
<1>2. /\ AuthTypes(t) /\ Counted(t) /\ Absent(t) /\ Waiting(t) /\ Lower(t, s)
      /\ Orderly(t, s)
  <2>. USE DEF LoopInv, Control, Recorded, AuthFields, NewSm, NewGroup,
               AUTHENTICATION2, EnterPTK
  <2>1. AuthTypes(t)  BY DEF AuthTypes, PtkStates, GroupStates
  <2>2. Counted(t) /\ Absent(t)  BY DEF Counted, Absent
  <2>3. Waiting(t)  BY DEF Waiting, KeyMessage, Flagged
  <2>4. Lower(t, s)
    BY DEF Lower, PtkRank, StateRank, Flagged, TooLate, GroupRank, BssRank, KeyMessage,
           AuthTypes, PtkStates, GroupStates
  <2>5. Orderly(t, s)
    BY DEF Orderly, Ordered, SameKey, SameKeys, Ended, Data, KeyInv, AuthTypes
  <2>. QED  BY <2>1, <2>2, <2>3, <2>4, <2>5
<1>. QED  BY <1>1, <1>2, OrderlyData DEF LoopInv, Control

\* A pairwise rekeying starts one.
LEMMA Rekeys ==
  ASSUME NEW s, LoopInv(s), s.present, ~s.Disconnect, ~s.DeauthenticationRequest,
         ~s.ReAuthenticationRequest, s.PTKRequest,
         NEW t, t = PTKSTART([s EXCEPT !.ANonce = @ + 1, !.TimeoutCtr = 0])
  PROVE  LoopInv(t) /\ Lower(t, s)
<1>1. Recorded(t)
  BY DEF LoopInv, Control, Recorded, PTKSTART, EnterPTK, wpa_send_eapol, SendOnce
<1>2. /\ AuthTypes(t) /\ Counted(t) /\ Absent(t) /\ Waiting(t) /\ Lower(t, s)
      /\ Orderly(t, s)
  <2>. USE DEF LoopInv, Control, Recorded, AuthFields, NewSm, NewGroup,
               PTKSTART, EnterPTK, wpa_send_eapol, SendOnce
  <2>1. AuthTypes(t)  BY RetriesAssumption DEF AuthTypes, PtkStates, GroupStates, Slots
  <2>2. Counted(t) /\ Absent(t)  BY DEF Counted, Absent
  <2>3. Waiting(t)  BY DEF Waiting, KeyMessage, Flagged
  <2>4. Lower(t, s)
    BY DEF Lower, PtkRank, StateRank, Flagged, TooLate, GroupRank, BssRank, KeyMessage,
           AuthTypes, PtkStates, GroupStates
  <2>5. Orderly(t, s)
    BY RetriesAssumption DEF Orderly, Ordered, SameKey, SameKeys, Ended, Sent,
       Frame, Slots, Data, KeyInv, AuthTypes
  <2>. QED  BY <2>1, <2>2, <2>3, <2>4, <2>5
<1>. QED  BY <1>1, <1>2, OrderlyData DEF LoopInv, Control

\* The machine is ready for the next association.
LEMMA Initializes ==
  ASSUME NEW s, LoopInv(s), s.present, ~Flagged(s), s.ptk_state = "DISCONNECTED",
         NEW t, t = INITIALIZE(s)
  PROVE  LoopInv(t) /\ Lower(t, s)
<1>1. Recorded(t)
  BY DEF LoopInv, Control, Recorded, INITIALIZE, EnterPTK, wpa_remove_ptk,
     GKeyDone, wpa_gkeydone_sta
<1>2. /\ AuthTypes(t) /\ Counted(t) /\ Absent(t) /\ Waiting(t) /\ Lower(t, s)
      /\ Orderly(t, s)
  <2>. USE DEF LoopInv, Control, Recorded, AuthFields, NewSm, NewGroup,
               INITIALIZE, EnterPTK, wpa_remove_ptk, GKeyDone, wpa_gkeydone_sta
  <2>1. AuthTypes(t)  BY DEF AuthTypes, PtkStates, GroupStates
  <2>2. Counted(t) /\ Absent(t)  BY DEF Counted, Absent
  <2>3. Waiting(t)  BY DEF Waiting, KeyMessage, Flagged
  <2>4. Lower(t, s)
    BY DEF Lower, PtkRank, StateRank, Flagged, TooLate, GroupRank, BssRank, KeyMessage,
           AuthTypes, PtkStates, GroupStates
  <2>5. Orderly(t, s)
    BY DEF Orderly, Ordered, SameKey, SameKeys, Ended, Data, KeyInv, AuthTypes
  <2>. QED  BY <2>1, <2>2, <2>3, <2>4, <2>5
<1>. QED  BY <1>1, <1>2, OrderlyData DEF LoopInv, Control

\* The PMK is that of SAE.
LEMMA InitsPsk ==
  ASSUME NEW s, LoopInv(s), s.present, ~Flagged(s), s.ptk_state = "AUTHENTICATION2",
         NEW t, t = INITPSK(s)
  PROVE  LoopInv(t) /\ Lower(t, s)
<1>1. Recorded(t)
  BY DEF LoopInv, Control, Recorded, INITPSK, EnterPTK
<1>2. /\ AuthTypes(t) /\ Counted(t) /\ Absent(t) /\ Waiting(t) /\ Lower(t, s)
      /\ Orderly(t, s)
  <2>. USE DEF LoopInv, Control, Recorded, AuthFields, NewSm, NewGroup,
               INITPSK, EnterPTK
  <2>1. AuthTypes(t)  BY DEF AuthTypes, PtkStates, GroupStates
  <2>2. Counted(t) /\ Absent(t)  BY DEF Counted, Absent
  <2>3. Waiting(t)  BY DEF Waiting, KeyMessage, Flagged
  <2>4. Lower(t, s)
    BY DEF Lower, PtkRank, StateRank, Flagged, TooLate, GroupRank, BssRank, KeyMessage,
           AuthTypes, PtkStates, GroupStates
  <2>5. Orderly(t, s)
    BY DEF Orderly, Ordered, SameKey, SameKeys, Ended, Data, KeyInv, AuthTypes
  <2>. QED  BY <2>1, <2>2, <2>3, <2>4, <2>5
<1>. QED  BY <1>1, <1>2, OrderlyData DEF LoopInv, Control

\* Message 1/4 is sent, first or again.
LEMMA Starts ==
  ASSUME NEW s, LoopInv(s), s.present, ~Flagged(s),
         \/ s.ptk_state = "INITPSK"
         \/ s.ptk_state = "PTKSTART" /\ ~TooLate(s) /\ s.TimeoutEvt
         \/ s.ptk_state = "PTKCALCNEGOTIATING" /\ ~s.MICVerified /\ s.TimeoutEvt,
         NEW t, t = PTKSTART(s)
  PROVE  LoopInv(t) /\ Lower(t, s)
<1>1. Recorded(t)
  BY DEF LoopInv, Control, Recorded, PTKSTART, EnterPTK, wpa_send_eapol, SendOnce
<1>2. /\ AuthTypes(t) /\ Counted(t) /\ Absent(t) /\ Waiting(t) /\ Lower(t, s)
      /\ Orderly(t, s)
  <2>. USE DEF LoopInv, Control, Recorded, AuthFields, NewSm, NewGroup,
               PTKSTART, EnterPTK, wpa_send_eapol, SendOnce
  <2>1. AuthTypes(t)  BY RetriesAssumption DEF AuthTypes, PtkStates, GroupStates, Slots
  <2>2. Counted(t) /\ Absent(t)  BY DEF Counted, Absent
  <2>3. Waiting(t)  BY DEF Waiting, KeyMessage, Flagged
  <2>4. Lower(t, s)
    BY DEF Lower, PtkRank, StateRank, Flagged, TooLate, GroupRank, BssRank, KeyMessage,
           AuthTypes, PtkStates, GroupStates
  <2>5. Orderly(t, s)
    BY RetriesAssumption DEF Orderly, Ordered, SameKey, SameKeys, Ended, Sent,
       Frame, Slots, Data, KeyInv, AuthTypes
  <2>. QED  BY <2>1, <2>2, <2>3, <2>4, <2>5
<1>. QED  BY <1>1, <1>2, OrderlyData DEF LoopInv, Control

\* Message 2/4 was authentic.
LEMMA Calculated ==
  ASSUME NEW s, LoopInv(s), s.present, ~Flagged(s),
         s.ptk_state = "PTKCALCNEGOTIATING", s.MICVerified,
         NEW t, t = PTKCALCNEGOTIATING2(s)
  PROVE  LoopInv(t) /\ Lower(t, s)
<1>1. Recorded(t)
  BY DEF LoopInv, Control, Recorded, PTKCALCNEGOTIATING2, EnterPTK
<1>2. /\ AuthTypes(t) /\ Counted(t) /\ Absent(t) /\ Waiting(t) /\ Lower(t, s)
      /\ Orderly(t, s)
  <2>. USE DEF LoopInv, Control, Recorded, AuthFields, NewSm, NewGroup,
               PTKCALCNEGOTIATING2, EnterPTK
  <2>1. AuthTypes(t)  BY DEF AuthTypes, PtkStates, GroupStates
  <2>2. Counted(t) /\ Absent(t)  BY DEF Counted, Absent
  <2>3. Waiting(t)  BY DEF Waiting, KeyMessage, Flagged
  <2>4. Lower(t, s)
    BY DEF Lower, PtkRank, StateRank, Flagged, TooLate, GroupRank, BssRank, KeyMessage,
           AuthTypes, PtkStates, GroupStates
  <2>5. Orderly(t, s)
    BY DEF Orderly, Ordered, SameKey, SameKeys, Ended, Data, KeyInv, AuthTypes
  <2>. QED  BY <2>1, <2>2, <2>3, <2>4, <2>5
<1>. QED  BY <1>1, <1>2, OrderlyData DEF LoopInv, Control

\* Message 3/4 is sent, first or again.
LEMMA Negotiates ==
  ASSUME NEW s, LoopInv(s), s.present, ~Flagged(s),
         \/ s.ptk_state = "PTKCALCNEGOTIATING2"
         \/ s.ptk_state = "PTKINITNEGOTIATING" /\ ~TooLate(s) /\ s.TimeoutEvt,
         NEW t, t = PTKINITNEGOTIATING(s)
  PROVE  LoopInv(t) /\ Lower(t, s)
<1>1. Recorded(t)
  BY DEF LoopInv, Control, Recorded, PTKINITNEGOTIATING, EnterPTK,
     wpa_send_eapol, SendOnce
<1>2. /\ AuthTypes(t) /\ Counted(t) /\ Absent(t) /\ Waiting(t) /\ Lower(t, s)
      /\ Orderly(t, s)
  <2>. USE DEF LoopInv, Control, Recorded, AuthFields, NewSm, NewGroup,
               PTKINITNEGOTIATING, EnterPTK, wpa_send_eapol, SendOnce
  <2>1. AuthTypes(t)  BY RetriesAssumption DEF AuthTypes, PtkStates, GroupStates, Slots
  <2>2. Counted(t) /\ Absent(t)  BY DEF Counted, Absent
  <2>3. Waiting(t)  BY DEF Waiting, KeyMessage, Flagged
  <2>4. Lower(t, s)
    BY DEF Lower, PtkRank, StateRank, Flagged, TooLate, GroupRank, BssRank, KeyMessage,
           AuthTypes, PtkStates, GroupStates
  <2>5. Orderly(t, s)
    <3>. DEFINE f == Frame("3/4", t.key_replay[1].counter, t.ANonce, t.PTK, t.GTK)
    <3>1. \/ t.out = s.out /\ t.key_replay[1].counter = s.key_replay[1].counter
          \/ t.key_replay[1].counter = s.key_replay[1].counter + 1 /\ t.out = s.out
          \/ /\ t.key_replay[1].counter = s.key_replay[1].counter + 1
             /\ t.PTK_valid /\ t.out = s.out \cup {f}
      BY RetriesAssumption DEF Frame, Slots, AuthTypes
    <3>2. t.PTK_valid /\ t.out = s.out \cup {f} => Sent(t, s)
      BY DEF Sent
    <3>3. t.out = s.out => Sent(t, s)
      BY DEF Sent
    <3>. HIDE DEF f
    <3>. QED
      BY <3>1, <3>2, <3>3, RetriesAssumption DEF Orderly, Ordered, SameKey,
         SameKeys, Ended, Data, KeyInv, AuthTypes
  <2>. QED  BY <2>1, <2>2, <2>3, <2>4, <2>5
<1>. QED  BY <1>1, <1>2, OrderlyData DEF LoopInv, Control
-----------------------------------------------------------------------------
\* WPA_PTK has just taken its step: it would not have stayed in this state.
Calm(s) ==
  s.ptk_state = "PTKCALCNEGOTIATING" => ~Flagged(s) /\ ~s.TimeoutEvt

\* WPA_PTK_GROUP enters a state: fewer are left to it and WPA_PTK together.
LowerTwo(t, s) ==
  /\ t.changed /\ t.present = s.present
  /\ PtkRank(t) + GroupRank(t) < PtkRank(s) + GroupRank(s)
  /\ BssRank(t) = BssRank(s)

\* A reassociation resets WPA_PTK_GROUP.
LEMMA InitsGroup ==
  ASSUME NEW s, LoopInv(s), s.present, Calm(s), s.PtkGroupInit,
         NEW t, t = GroupInit(s)
  PROVE  LoopInv(t) /\ LowerTwo(t, s)
<1>1. Recorded(t)
  BY DEF LoopInv, Control, Recorded, GroupInit, IDLE, EnterGroup
<1>2. /\ AuthTypes(t) /\ Counted(t) /\ Absent(t) /\ Waiting(t) /\ LowerTwo(t, s)
      /\ Orderly(t, s)
  <2>. USE DEF LoopInv, Control, Recorded, AuthFields, NewSm, NewGroup,
               GroupInit, IDLE, EnterGroup
  <2>1. AuthTypes(t)  BY DEF AuthTypes, PtkStates, GroupStates
  <2>2. Counted(t) /\ Absent(t)  BY DEF Counted, Absent
  <2>3. Waiting(t)  BY DEF Waiting, KeyMessage, Flagged, Calm
  <2>4. LowerTwo(t, s)
    BY DEF LowerTwo, PtkRank, StateRank, Flagged, TooLate, GroupRank, BssRank,
       KeyMessage,
           AuthTypes, PtkStates, GroupStates
  <2>5. Orderly(t, s)
    BY DEF Orderly, Ordered, SameKey, SameKeys, Ended, Data, KeyInv, AuthTypes
  <2>. QED  BY <2>1, <2>2, <2>3, <2>4, <2>5
<1>. QED  BY <1>1, <1>2, OrderlyData DEF LoopInv, Control

\* The group key handshake is over.
LEMMA Idles ==
  ASSUME NEW s, LoopInv(s), s.present, Calm(s), ~s.PtkGroupInit,
         s.group_state \in {"REKEYESTABLISHED", "KEYERROR"},
         NEW t, t = IDLE(s)
  PROVE  LoopInv(t) /\ LowerTwo(t, s)
<1>1. Recorded(t)
  BY DEF LoopInv, Control, Recorded, IDLE, EnterGroup
<1>2. /\ AuthTypes(t) /\ Counted(t) /\ Absent(t) /\ Waiting(t) /\ LowerTwo(t, s)
      /\ Orderly(t, s)
  <2>. USE DEF LoopInv, Control, Recorded, AuthFields, NewSm, NewGroup,
               IDLE, EnterGroup
  <2>1. AuthTypes(t)  BY DEF AuthTypes, PtkStates, GroupStates
  <2>2. Counted(t) /\ Absent(t)  BY DEF Counted, Absent
  <2>3. Waiting(t)  BY DEF Waiting, KeyMessage, Flagged, Calm
  <2>4. LowerTwo(t, s)
    BY DEF LowerTwo, PtkRank, StateRank, Flagged, TooLate, GroupRank, BssRank,
       KeyMessage,
           AuthTypes, PtkStates, GroupStates
  <2>5. Orderly(t, s)
    BY DEF Orderly, Ordered, SameKey, SameKeys, Ended, Data, KeyInv, AuthTypes
  <2>. QED  BY <2>1, <2>2, <2>3, <2>4, <2>5
<1>. QED  BY <1>1, <1>2, OrderlyData DEF LoopInv, Control

\* Message 1/2 is sent, first or again.
LEMMA NegotiatesGroup ==
  ASSUME NEW s, LoopInv(s), s.present, Calm(s), ~s.PtkGroupInit,
         \/ s.group_state = "IDLE" /\ s.GUpdateStationKeys
         \/ /\ s.group_state = "REKEYNEGOTIATING" /\ s.TimeoutEvt
            /\ ~(s.GTimeoutCtr > wpa_group_update_count),
         NEW t, t = REKEYNEGOTIATING(s)
  PROVE  LoopInv(t) /\ LowerTwo(t, s)
<1>1. Recorded(t)
  BY DEF LoopInv, Control, Recorded, REKEYNEGOTIATING, EnterGroup,
     wpa_send_eapol, SendOnce
<1>2. /\ AuthTypes(t) /\ Counted(t) /\ Absent(t) /\ Waiting(t) /\ LowerTwo(t, s)
      /\ Orderly(t, s)
  <2>. USE DEF LoopInv, Control, Recorded, AuthFields, NewSm, NewGroup,
               REKEYNEGOTIATING, EnterGroup, wpa_send_eapol, SendOnce
  <2>1. AuthTypes(t)  BY RetriesAssumption DEF AuthTypes, PtkStates, GroupStates, Slots
  <2>2. Counted(t) /\ Absent(t)  BY DEF Counted, Absent
  <2>3. Waiting(t)  BY DEF Waiting, KeyMessage, Flagged, Calm
  <2>4. LowerTwo(t, s)
    BY DEF LowerTwo, PtkRank, StateRank, Flagged, TooLate, GroupRank, BssRank,
       KeyMessage,
           AuthTypes, PtkStates, GroupStates
  <2>5. Orderly(t, s)
    <3>. DEFINE f == Frame("1/2", t.key_replay[1].counter, NULL, t.PTK, t.GTK)
    <3>1. \/ t.out = s.out /\ t.key_replay[1].counter = s.key_replay[1].counter
          \/ t.key_replay[1].counter = s.key_replay[1].counter + 1 /\ t.out = s.out
          \/ /\ t.key_replay[1].counter = s.key_replay[1].counter + 1
             /\ t.PTK_valid /\ t.out = s.out \cup {f}
      BY RetriesAssumption DEF Frame, Slots, AuthTypes
    <3>2. t.PTK_valid /\ t.out = s.out \cup {f} => Sent(t, s)
      BY DEF Sent
    <3>3. t.out = s.out => Sent(t, s)
      BY DEF Sent
    <3>. HIDE DEF f
    <3>. QED
      BY <3>1, <3>2, <3>3, RetriesAssumption DEF Orderly, Ordered, SameKey,
         SameKeys, Ended, Data, KeyInv, AuthTypes
  <2>. QED  BY <2>1, <2>2, <2>3, <2>4, <2>5
<1>. QED  BY <1>1, <1>2, OrderlyData DEF LoopInv, Control

\* Message 2/2 was authentic.
LEMMA Establishes ==
  ASSUME NEW s, LoopInv(s), s.present, Calm(s), ~s.PtkGroupInit,
         s.group_state = "REKEYNEGOTIATING", KeyMessage(s, FALSE), s.MICVerified,
         NEW t, t = REKEYESTABLISHED(s)
  PROVE  LoopInv(t) /\ LowerTwo(t, s)
<1>1. Recorded(t)
  BY DEF LoopInv, Control, Recorded, REKEYESTABLISHED, EnterGroup, GKeyDone,
     wpa_gkeydone_sta
<1>2. /\ AuthTypes(t) /\ Counted(t) /\ Absent(t) /\ Waiting(t) /\ LowerTwo(t, s)
      /\ Orderly(t, s)
  <2>. USE DEF LoopInv, Control, Recorded, AuthFields, NewSm, NewGroup,
               REKEYESTABLISHED, EnterGroup, GKeyDone, wpa_gkeydone_sta
  <2>1. AuthTypes(t)  BY DEF AuthTypes, PtkStates, GroupStates
  <2>2. Counted(t) /\ Absent(t)  BY DEF Counted, Absent
  <2>3. Waiting(t)  BY DEF Waiting, KeyMessage, Flagged, Calm
  <2>4. LowerTwo(t, s)
    BY DEF LowerTwo, PtkRank, StateRank, Flagged, TooLate, GroupRank, BssRank,
       KeyMessage,
           AuthTypes, PtkStates, GroupStates
  <2>5. Orderly(t, s)
    BY DEF Orderly, Ordered, SameKey, SameKeys, Ended, Data, KeyInv, AuthTypes
  <2>. QED  BY <2>1, <2>2, <2>3, <2>4, <2>5
<1>. QED  BY <1>1, <1>2, OrderlyData DEF LoopInv, Control

\* No answer: the station is to be disconnected.
LEMMA GivesUp ==
  ASSUME NEW s, LoopInv(s), s.present, Calm(s), ~s.PtkGroupInit,
         s.group_state = "REKEYNEGOTIATING", s.GTimeoutCtr > wpa_group_update_count,
         NEW t, t = KEYERROR(s)
  PROVE  LoopInv(t) /\ LowerTwo(t, s)
<1>1. Recorded(t)
  BY DEF LoopInv, Control, Recorded, KEYERROR, EnterGroup, GKeyDone, wpa_gkeydone_sta
<1>2. /\ AuthTypes(t) /\ Counted(t) /\ Absent(t) /\ Waiting(t) /\ LowerTwo(t, s)
      /\ Orderly(t, s)
  <2>. USE DEF LoopInv, Control, Recorded, AuthFields, NewSm, NewGroup,
               KEYERROR, EnterGroup, GKeyDone, wpa_gkeydone_sta
  <2>1. AuthTypes(t)  BY DEF AuthTypes, PtkStates, GroupStates
  <2>2. Counted(t) /\ Absent(t)  BY DEF Counted, Absent
  <2>3. Waiting(t)  BY DEF Waiting, KeyMessage, Flagged, Calm
  <2>4. LowerTwo(t, s)
    BY DEF LowerTwo, PtkRank, StateRank, Flagged, TooLate, GroupRank, BssRank,
       KeyMessage,
           AuthTypes, PtkStates, GroupStates
  <2>5. Orderly(t, s)
    BY DEF Orderly, Ordered, SameKey, SameKeys, Ended, Data, KeyInv, AuthTypes
  <2>. QED  BY <2>1, <2>2, <2>3, <2>4, <2>5
<1>. QED  BY <1>1, <1>2, OrderlyData DEF LoopInv, Control

-----------------------------------------------------------------------------
\* A new GTK, and who is to be given it.
LEMMA SetsKeys ==
  ASSUME NEW s, LoopInv(s), s.GTKReKey,
         NEW t, t = SETKEYS(s)
  PROVE  LoopInv(t) /\ t.changed /\ t.present = s.present /\ Rank(t) < Rank(s)
<1>1. Recorded(t)
  BY DEF LoopInv, Control, Recorded, SETKEYS
<1>2. /\ AuthTypes(t) /\ Counted(t) /\ Absent(t) /\ Waiting(t) /\ Orderly(t, s)
      /\ t.changed /\ t.present = s.present /\ Rank(t) < Rank(s)
  <2>. USE DEF LoopInv, Control, Recorded, AuthFields, NewSm, NewGroup, SETKEYS
  <2>1. AuthTypes(t)  BY DEF AuthTypes
  <2>2. Counted(t) /\ Absent(t)  BY DEF Counted, Absent, Flagged
  <2>3. Waiting(t)  BY DEF Waiting, KeyMessage, Flagged
  <2>4. t.changed /\ t.present = s.present  OBVIOUS
  <2>5. PtkRank(t) = PtkRank(s)
    <3>1. StateRank(t) = StateRank(s)  BY DEF StateRank, TooLate, AuthTypes, PtkStates
    <3>. QED  BY <3>1 DEF PtkRank, Flagged
  <2>6. GroupRank(t) <= GroupRank(s) + 6  BY DEF GroupRank, KeyMessage
  <2>7. BssRank(t) = 1 /\ BssRank(s) >= 8  BY DEF BssRank
  <2>8. GroupRank(t) \in Nat /\ GroupRank(s) \in Nat /\ BssRank(s) \in Nat
    BY DEF GroupRank, BssRank
  <2>9. PtkRank(s) \in Nat
    BY DEF PtkRank, StateRank, AuthTypes, PtkStates
  <2>10. Orderly(t, s)  BY DEF Orderly, Ordered, SameKey, SameKeys, Ended, Data, KeyInv
  <2>. QED  BY <2>1, <2>2, <2>3, <2>4, <2>5, <2>6, <2>7, <2>8, <2>9, <2>10 DEF Rank
<1>. QED  BY <1>1, <1>2, OrderlyData DEF LoopInv, Control

\* Every station has the new GTK: it is used for sending.
LEMMA KeysAreSet ==
  ASSUME NEW s, LoopInv(s), s.wpa_group_state = "SETKEYS",
         NEW t, t = SETKEYSDONE(s)
  PROVE  LoopInv(t) /\ t.changed /\ t.present = s.present /\ Rank(t) < Rank(s)
<1>1. Recorded(t)
  BY DEF LoopInv, Control, Recorded, SETKEYSDONE
<1>2. /\ AuthTypes(t) /\ Counted(t) /\ Absent(t) /\ Waiting(t) /\ Orderly(t, s)
      /\ t.changed /\ t.present = s.present /\ Rank(t) < Rank(s)
  <2>. USE DEF LoopInv, Control, Recorded, AuthFields, NewSm, NewGroup, SETKEYSDONE
  <2>1. AuthTypes(t)  BY DEF AuthTypes
  <2>2. Counted(t) /\ Absent(t)  BY DEF Counted, Absent, Flagged
  <2>3. Waiting(t)  BY DEF Waiting, KeyMessage, Flagged
  <2>4. t.changed /\ t.present = s.present  OBVIOUS
  <2>5. PtkRank(t) = PtkRank(s)
    <3>1. StateRank(t) = StateRank(s)  BY DEF StateRank, TooLate, AuthTypes, PtkStates
    <3>. QED  BY <3>1 DEF PtkRank, Flagged
  <2>6. GroupRank(t) = GroupRank(s)  BY DEF GroupRank, KeyMessage
  <2>7. BssRank(t) = BssRank(s) - 1  BY DEF BssRank
  <2>8. GroupRank(s) \in Nat /\ BssRank(s) \in Nat  BY DEF GroupRank, BssRank
  <2>9. PtkRank(s) \in Nat
    BY DEF PtkRank, StateRank, AuthTypes, PtkStates
  <2>10. Orderly(t, s)  BY DEF Orderly, Ordered, SameKey, SameKeys, Ended, Data, KeyInv
  <2>. QED  BY <2>1, <2>2, <2>3, <2>4, <2>5, <2>6, <2>7, <2>8, <2>9, <2>10 DEF Rank
<1>. QED  BY <1>1, <1>2, OrderlyData DEF LoopInv, Control
-----------------------------------------------------------------------------
\* Ranks are numbers.
LEMMA RankTypes ==
  ASSUME NEW s, AuthTypes(s)
  PROVE  PtkRank(s) \in Nat /\ GroupRank(s) \in Nat /\ BssRank(s) \in Nat
BY DEF PtkRank, StateRank, GroupRank, BssRank, AuthTypes, PtkStates

\* SM_STEP(WPA_PTK) enters a state unless the machine is at rest.
LEMMA StepsPTK ==
  ASSUME NEW s, LoopInv(s), s.present, NEW t, t = StepPTK(s)
  PROVE  LoopInv(t) /\ Calm(t) /\ ((t = s /\ PtkRank(s) = 0) \/ Lower(t, s))
<1>. DEFINE Goal == LoopInv(t) /\ Calm(t) /\ ((t = s /\ PtkRank(s) = 0) \/ Lower(t, s))
<1>1. ASSUME LoopInv(t) /\ Lower(t, s) PROVE Goal
  BY <1>1 DEF Lower, Calm
<1>2. ~KeyMessage(s, TRUE) /\ ~s.update_snonce /\ s.ptk_state \in PtkStates
  BY DEF LoopInv, Control, Waiting, AuthTypes
<1>3. CASE s.Disconnect
  BY <1>1, <1>3, Disconnects DEF StepPTK
<1>4. CASE ~s.Disconnect /\ s.DeauthenticationRequest
  BY <1>1, <1>4, IsDisconnected DEF StepPTK
<1>5. CASE ~s.Disconnect /\ ~s.DeauthenticationRequest /\ s.ReAuthenticationRequest
  BY <1>1, <1>5, Authenticates DEF StepPTK
<1>6. CASE ~s.Disconnect /\ ~s.DeauthenticationRequest /\ ~s.ReAuthenticationRequest /\ s.PTKRequest
  BY <1>1, <1>6, Rekeys DEF StepPTK
<1>7. CASE ~Flagged(s)
  <2>1. ASSUME t = s, PtkRank(s) = 0 PROVE Goal
    <3>1. StateRank(s) = 0  BY <1>7, <2>1 DEF PtkRank, Flagged
    <3>2. s.ptk_state = "PTKCALCNEGOTIATING" => ~s.TimeoutEvt  BY <3>1 DEF StateRank
    <3>. QED  BY <1>7, <2>1, <3>2 DEF Calm
  <2>2. t = CASE s.ptk_state = "DISCONNECT" -> DISCONNECTED(s)
              [] s.ptk_state = "DISCONNECTED" -> INITIALIZE(s)
              [] s.ptk_state = "AUTHENTICATION2" -> INITPSK(s)
              [] s.ptk_state = "INITPSK" -> PTKSTART(s)
              [] s.ptk_state = "PTKSTART" ->
                   IF TooLate(s) THEN DISCONNECT(s)
                   ELSE IF s.TimeoutEvt THEN PTKSTART(s) ELSE s
              [] s.ptk_state = "PTKCALCNEGOTIATING" ->
                   IF s.MICVerified THEN PTKCALCNEGOTIATING2(s)
                   ELSE IF s.TimeoutEvt THEN PTKSTART(s) ELSE s
              [] s.ptk_state = "PTKCALCNEGOTIATING2" -> PTKINITNEGOTIATING(s)
              [] s.ptk_state = "PTKINITNEGOTIATING" ->
                   IF TooLate(s) THEN DISCONNECT(s)
                   ELSE IF s.TimeoutEvt THEN PTKINITNEGOTIATING(s) ELSE s
              [] OTHER -> s
    BY <1>2, <1>7 DEF StepPTK, Flagged, TooLate
  <2>3. CASE s.ptk_state = "DISCONNECT"
    BY <1>1, <1>7, <2>2, <2>3, IsDisconnected DEF Flagged
  <2>4. CASE s.ptk_state = "DISCONNECTED"
    BY <1>1, <1>7, <2>2, <2>4, Initializes
  <2>5. CASE s.ptk_state = "AUTHENTICATION2"
    BY <1>1, <1>7, <2>2, <2>5, InitsPsk
  <2>6. CASE s.ptk_state = "INITPSK"
    BY <1>1, <1>7, <2>2, <2>6, Starts
  <2>7. CASE s.ptk_state = "PTKSTART"
    <3>1. CASE TooLate(s)  BY <1>1, <1>7, <2>2, <2>7, <3>1, Disconnects
    <3>2. CASE ~TooLate(s) /\ s.TimeoutEvt  BY <1>1, <1>7, <2>2, <2>7, <3>2, Starts
    <3>3. CASE ~TooLate(s) /\ ~s.TimeoutEvt
      BY <1>7, <2>1, <2>2, <2>7, <3>3 DEF PtkRank, StateRank, Flagged
    <3>. QED  BY <3>1, <3>2, <3>3
  <2>8. CASE s.ptk_state = "PTKCALCNEGOTIATING"
    <3>1. CASE s.MICVerified  BY <1>1, <1>7, <2>2, <2>8, <3>1, Calculated
    <3>2. CASE ~s.MICVerified /\ s.TimeoutEvt  BY <1>1, <1>7, <2>2, <2>8, <3>2, Starts
    <3>3. CASE ~s.MICVerified /\ ~s.TimeoutEvt
      BY <1>7, <2>1, <2>2, <2>8, <3>3 DEF PtkRank, StateRank, Flagged
    <3>. QED  BY <3>1, <3>2, <3>3
  <2>9. CASE s.ptk_state = "PTKCALCNEGOTIATING2"
    BY <1>1, <1>7, <2>2, <2>9, Negotiates
  <2>10. CASE s.ptk_state = "PTKINITNEGOTIATING"
    <3>1. CASE TooLate(s)  BY <1>1, <1>7, <2>2, <2>10, <3>1, Disconnects
    <3>2. CASE ~TooLate(s) /\ s.TimeoutEvt  BY <1>1, <1>7, <2>2, <2>10, <3>2, Negotiates
    <3>3. CASE ~TooLate(s) /\ ~s.TimeoutEvt
      BY <1>7, <2>1, <2>2, <2>10, <3>3 DEF PtkRank, StateRank, Flagged
    <3>. QED  BY <3>1, <3>2, <3>3
  <2>11. CASE s.ptk_state \in {"INITIALIZE", "PTKINITDONE"}
    BY <1>7, <2>1, <2>2, <2>11 DEF PtkRank, StateRank, Flagged
  <2>. QED
    BY <1>2, <2>3, <2>4, <2>5, <2>6, <2>7, <2>8, <2>9, <2>10, <2>11 DEF PtkStates
<1>. QED  BY <1>3, <1>4, <1>5, <1>6, <1>7 DEF Flagged

\* So does SM_STEP(WPA_PTK_GROUP).
LEMMA StepsPTKGroup ==
  ASSUME NEW s, LoopInv(s), s.present, Calm(s), NEW t, t = StepPTKGroup(s)
  PROVE  LoopInv(t) /\ ((t = s /\ GroupRank(s) = 0) \/ LowerTwo(t, s))
<1>1. s.group_state \in GroupStates
  BY DEF LoopInv, Control, AuthTypes
<1>2. CASE s.PtkGroupInit
  BY <1>2, InitsGroup DEF StepPTKGroup
<1>3. CASE ~s.PtkGroupInit /\ s.group_state = "IDLE"
  <2>1. CASE s.GUpdateStationKeys
    BY <1>3, <2>1, NegotiatesGroup DEF StepPTKGroup
  <2>2. CASE ~s.GUpdateStationKeys
    BY <1>3, <2>2 DEF StepPTKGroup, GroupRank
  <2>. QED  BY <2>1, <2>2
<1>4. CASE ~s.PtkGroupInit /\ s.group_state = "REKEYNEGOTIATING"
  <2>. DEFINE late == s.GTimeoutCtr > wpa_group_update_count
              answered == KeyMessage(s, FALSE) /\ s.MICVerified
  <2>1. t = IF answered THEN REKEYESTABLISHED(s)
            ELSE IF late THEN KEYERROR(s)
            ELSE IF s.TimeoutEvt THEN REKEYNEGOTIATING(s) ELSE s
    BY <1>4 DEF StepPTKGroup
  <2>2. CASE answered  BY <1>4, <2>1, <2>2, Establishes
  <2>3. CASE ~answered /\ late  BY <1>4, <2>1, <2>3, GivesUp
  <2>4. CASE ~answered /\ ~late /\ s.TimeoutEvt
    BY <1>4, <2>1, <2>4, NegotiatesGroup
  <2>5. CASE ~answered /\ ~late /\ ~s.TimeoutEvt
    BY <1>4, <2>1, <2>5 DEF GroupRank
  <2>. QED  BY <2>2, <2>3, <2>4, <2>5
<1>5. CASE ~s.PtkGroupInit /\ s.group_state \in {"REKEYESTABLISHED", "KEYERROR"}
  BY <1>5, Idles DEF StepPTKGroup
<1>. QED  BY <1>1, <1>2, <1>3, <1>4, <1>5 DEF GroupStates

\* And wpa_group_sm_step(), but for a rekeying that waits for the station.
LEMMA StepsGroup ==
  ASSUME NEW s, LoopInv(s), NEW t, t = StepGroup(s)
  PROVE  /\ LoopInv(t)
         /\ \/ t = s /\ BssRest(s)
            \/ t.changed /\ Rank(t) < Rank(s)
<1>1. CASE s.wpa_group_state = "SETKEYS" /\ s.GKeyDoneStations = 0
  BY <1>1, KeysAreSet DEF StepGroup
<1>2. CASE /\ s.GTKReKey
           /\ ~(s.wpa_group_state = "SETKEYS" /\ s.GKeyDoneStations = 0)
  BY <1>2, SetsKeys DEF StepGroup
<1>3. CASE /\ ~s.GTKReKey
           /\ ~(s.wpa_group_state = "SETKEYS" /\ s.GKeyDoneStations = 0)
  BY <1>3 DEF StepGroup, BssRest
<1>. QED  BY <1>1, <1>2, <1>3
-----------------------------------------------------------------------------
\* What a pass needs to begin with: the invariant after the step of WPA_PTK.
LEMMA AfterPTK ==
  ASSUME NEW s, LoopInv(s), s.present, Calm(s), s.changed \/ PtkRank(s) = 0,
         NEW t \in {StepGroup(u) : u \in {StepPTKGroup(s)}}
  PROVE  /\ LoopInv(t)
         /\ \/ t.changed /\ Rank(t) <= Rank(s)
            \/ t = s /\ ~s.changed /\ Rest(t)
         /\ t = s \/ (t.changed /\ Rank(t) < Rank(s))
<1>. DEFINE u == StepPTKGroup(s)
<1>1. t = StepGroup(u)  OBVIOUS
<1>2. LoopInv(u) /\ ((u = s /\ GroupRank(s) = 0) \/ LowerTwo(u, s))
  BY StepsPTKGroup
<1>3. /\ LoopInv(t)
      /\ \/ t = u /\ BssRest(u)
         \/ t.changed /\ Rank(t) < Rank(u)
  BY <1>1, <1>2, StepsGroup
<1>4. Rank(s) \in Nat /\ Rank(t) \in Nat /\ Rank(u) \in Nat
  BY <1>2, <1>3, RankTypes DEF LoopInv, Control, Rank
<1>5. u = s \/ (u.changed /\ Rank(u) < Rank(s))
  <2>1. ASSUME LowerTwo(u, s) PROVE u.changed /\ Rank(u) < Rank(s)
    BY <1>2, <2>1, RankTypes DEF LowerTwo, Rank, LoopInv, Control
  <2>. QED  BY <1>2, <2>1
<1>. HIDE DEF u
<1>6. CASE t = u /\ u = s
  <2>1. GroupRank(s) = 0 /\ BssRest(s)
    <3>1. PtkRank(s) \in Nat /\ GroupRank(s) \in Nat
      BY RankTypes DEF LoopInv, Control
    <3>2. ~LowerTwo(s, s)  BY <3>1 DEF LowerTwo
    <3>. QED  BY <1>2, <1>3, <1>4, <1>6, <3>2
  <2>. QED  BY <1>3, <1>4, <1>6, <2>1 DEF Rest
<1>7. CASE t.changed /\ Rank(t) < Rank(s)
  BY <1>3, <1>4, <1>7
<1>. QED  BY <1>3, <1>4, <1>5, <1>6, <1>7

\* The loop forgets that a state was entered before.
LEMMA Unchanged ==
  ASSUME NEW s, LoopInv(s), NEW t, t = [s EXCEPT !.changed = FALSE]
  PROVE  /\ LoopInv(t) /\ ~t.changed /\ t.present = s.present
         /\ Rank(t) = Rank(s) /\ PtkRank(t) = PtkRank(s)
<1>1. Recorded(t)
  BY DEF LoopInv, Control, Recorded
<1>2. /\ AuthTypes(t) /\ Counted(t) /\ Absent(t) /\ Waiting(t) /\ Orderly(t, s)
      /\ ~t.changed /\ t.present = s.present
      /\ Rank(t) = Rank(s) /\ PtkRank(t) = PtkRank(s)
  <2>. USE DEF LoopInv, Control, Recorded, AuthFields, NewSm, NewGroup
  <2>1. AuthTypes(t)  BY DEF AuthTypes
  <2>2. Counted(t) /\ Absent(t)  BY DEF Counted, Absent, Flagged
  <2>3. Waiting(t)  BY DEF Waiting, KeyMessage, Flagged
  <2>4. ~t.changed /\ t.present = s.present  OBVIOUS
  <2>5. PtkRank(t) = PtkRank(s)
    <3>1. StateRank(t) = StateRank(s)  BY DEF StateRank, TooLate, AuthTypes, PtkStates
    <3>. QED  BY <3>1 DEF PtkRank, Flagged
  <2>6. GroupRank(t) = GroupRank(s) /\ BssRank(t) = BssRank(s)
    BY DEF GroupRank, BssRank, KeyMessage
  <2>7. Orderly(t, s)  BY DEF Orderly, Ordered, SameKey, SameKeys, Ended, Data, KeyInv
  <2>. QED  BY <2>1, <2>2, <2>3, <2>4, <2>5, <2>6, <2>7 DEF Rank
<1>. QED  BY <1>1, <1>2, OrderlyData DEF LoopInv, Control

\* A pass lowers the rank, or the machines are at rest.
LEMMA Passes ==
  ASSUME NEW s, LoopInv(s), NEW t \in Pass(s)
  PROVE  /\ LoopInv(t)
         /\ \/ t.changed /\ Rank(t) < Rank(s)
            \/ ~t.changed /\ Rest(t)
<1>1. PICK s0 : s0 = [s EXCEPT !.changed = FALSE]  OBVIOUS
<1>2. /\ LoopInv(s0) /\ ~s0.changed /\ s0.present = s.present
      /\ Rank(s0) = Rank(s)
  BY <1>1, Unchanged
<1>3. CASE s0.present
  <2>1. PICK u : u = StepPTK(s0)  OBVIOUS
  <2>2. /\ LoopInv(u) /\ Calm(u)
        /\ (u = s0 /\ PtkRank(s0) = 0) \/ Lower(u, s0)
    BY <1>2, <1>3, <2>1, StepsPTK
  <2>3. u.present /\ (u.changed \/ PtkRank(u) = 0)
    BY <1>3, <2>2 DEF Lower
  <2>4. t \in {StepGroup(v) : v \in {StepPTKGroup(u)}}
    BY <1>1, <1>3, <2>1, <2>3 DEF Pass
  <2>5. /\ LoopInv(t)
        /\ \/ t.changed /\ Rank(t) <= Rank(u)
           \/ t = u /\ ~u.changed /\ Rest(t)
        /\ t = u \/ (t.changed /\ Rank(t) < Rank(u))
    BY <2>2, <2>3, <2>4, AfterPTK
  <2>6. Rank(s0) \in Nat /\ Rank(t) \in Nat /\ Rank(u) \in Nat
    BY <1>2, <2>2, <2>5, RankTypes DEF LoopInv, Control, Rank
  <2>7. u = s0 \/ Rank(u) < Rank(s0)
    <3>1. ASSUME Lower(u, s0) PROVE Rank(u) < Rank(s0)
      BY <1>2, <2>2, <3>1, RankTypes DEF Lower, Rank, LoopInv, Control
    <3>. QED  BY <2>2, <3>1
  <2>. QED  BY <1>2, <2>2, <2>5, <2>6, <2>7 DEF Lower
<1>4. CASE ~s0.present
  <2>1. t = StepGroup(s0)
    BY <1>1, <1>4 DEF Pass
  <2>2. PtkRank(s0) = 0 /\ GroupRank(s0) = 0
    <3>1. /\ s0.ptk_state = "INITIALIZE" /\ s0.group_state = "IDLE" /\ ~Flagged(s0)
          /\ ~s0.PtkGroupInit /\ ~s0.GUpdateStationKeys
      BY <1>2, <1>4 DEF LoopInv, Control, Absent
    <3>2. StateRank(s0) = 0  BY <3>1 DEF StateRank
    <3>. QED  BY <3>1, <3>2 DEF PtkRank, Flagged, GroupRank
  <2>3. /\ LoopInv(t)
        /\ \/ t = s0 /\ BssRest(s0)
           \/ t.changed /\ Rank(t) < Rank(s0)
    BY <1>2, <2>1, StepsGroup
  <2>. QED  BY <1>2, <2>2, <2>3 DEF Rest
<1>. QED  BY <1>3, <1>4

\* How far the loop has come: states left to enter, or none.
Left(t, n) ==
  /\ LoopInv(t)
  /\ \/ t.changed /\ Rank(t) <= n
     \/ ~t.changed /\ Rest(t)

\* One more pass for each authenticator that entered a state.
LEMMA OneAgain ==
  ASSUME NEW S, S # {}, NEW n \in Int, \A t \in S : Left(t, n)
  PROVE  Again(S) # {} /\ \A t \in Again(S) : Left(t, n - 1)
<1>1. \A s : Pass(s) # {}
  BY DEF Pass
<1>2. Again(S) # {}
  BY <1>1 DEF Again
<1>3. ASSUME NEW t \in Again(S) PROVE Left(t, n - 1)
  <2>1. PICK s \in S : t \in IF s.changed THEN Pass(s) ELSE {s}
    BY DEF Again
  <2>2. CASE s.changed
    <3>1. LoopInv(s) /\ Rank(s) <= n /\ t \in Pass(s)
      BY <2>1, <2>2 DEF Left
    <3>2. LoopInv(t) /\ ((t.changed /\ Rank(t) < Rank(s)) \/ (~t.changed /\ Rest(t)))
      BY <3>1, Passes
    <3>3. Rank(s) \in Nat /\ Rank(t) \in Nat
      BY <3>1, <3>2, RankTypes DEF LoopInv, Control, Rank
    <3>. QED  BY <3>1, <3>2, <3>3 DEF Left
  <2>3. CASE ~s.changed
    BY <2>1, <2>3 DEF Left
  <2>. QED  BY <2>2, <2>3
<1>. QED  BY <1>2, <1>3

\* Four more.
LEMMA FourAgain ==
  ASSUME NEW S, S # {}, NEW n \in Int, \A t \in S : Left(t, n)
  PROVE  Again4(S) # {} /\ \A t \in Again4(S) : Left(t, n - 4)
<1>1. PICK S1 : S1 = Again(S)  OBVIOUS
<1>2. PICK S2 : S2 = Again(S1)  OBVIOUS
<1>3. PICK S3 : S3 = Again(S2)  OBVIOUS
<1>4. PICK S4 : S4 = Again(S3)  OBVIOUS
<1>5. S1 # {} /\ \A t \in S1 : Left(t, n - 1)
  BY <1>1, OneAgain
<1>6. S2 # {} /\ \A t \in S2 : Left(t, n - 2)
  <2>1. n - 1 \in Int /\ (n - 1) - 1 = n - 2  OBVIOUS
  <2>2. S2 # {} /\ \A t \in S2 : Left(t, (n - 1) - 1)  BY <1>2, <1>5, <2>1, OneAgain
  <2>. QED  BY <2>1, <2>2
<1>7. S3 # {} /\ \A t \in S3 : Left(t, n - 3)
  <2>1. n - 2 \in Int /\ (n - 2) - 1 = n - 3  OBVIOUS
  <2>2. S3 # {} /\ \A t \in S3 : Left(t, (n - 2) - 1)  BY <1>3, <1>6, <2>1, OneAgain
  <2>. QED  BY <2>1, <2>2
<1>8. S4 # {} /\ \A t \in S4 : Left(t, n - 4)
  <2>1. n - 3 \in Int /\ (n - 3) - 1 = n - 4  OBVIOUS
  <2>2. S4 # {} /\ \A t \in S4 : Left(t, (n - 3) - 1)  BY <1>4, <1>7, <2>1, OneAgain
  <2>. QED  BY <2>1, <2>2
<1>. QED  BY <1>1, <1>2, <1>3, <1>4, <1>8 DEF Again4

\* wpa_sm_step() ends with the machines at rest, when the first pass leaves no
\* more than eleven states to enter.
LEMMA LoopEnds ==
  ASSUME NEW s, \A t \in Pass(s) : Left(t, 11), NEW r, r = wpa_sm_step(s)
  PROVE  LoopInv(r) /\ ~r.changed /\ Rest(r)
<1>1. PICK S1 : S1 = Again4(Pass(s))  OBVIOUS
<1>2. PICK S2 : S2 = Again4(S1)  OBVIOUS
<1>3. PICK S3 : S3 = Again4(S2)  OBVIOUS
<1>4. S1 # {} /\ \A t \in S1 : Left(t, 7)
  <2>1. Pass(s) # {}  BY DEF Pass
  <2>2. 11 \in Int /\ 11 - 4 = 7  OBVIOUS
  <2>3. S1 # {} /\ \A t \in S1 : Left(t, 11 - 4)  BY <1>1, <2>1, <2>2, FourAgain
  <2>. QED  BY <2>2, <2>3
<1>5. S2 # {} /\ \A t \in S2 : Left(t, 3)
  <2>1. 7 \in Int /\ 7 - 4 = 3  OBVIOUS
  <2>2. S2 # {} /\ \A t \in S2 : Left(t, 7 - 4)  BY <1>2, <1>4, <2>1, FourAgain
  <2>. QED  BY <2>1, <2>2
<1>6. S3 # {} /\ \A t \in S3 : Left(t, 3 - 4)
  <2>1. 3 \in Int  OBVIOUS
  <2>. QED  BY <1>3, <1>5, <2>1, FourAgain
<1>7. r \in S3
  BY <1>1, <1>2, <1>3, <1>6 DEF wpa_sm_step
<1>8. LoopInv(r) /\ Left(r, 3 - 4)
  BY <1>6, <1>7 DEF Left
<1>9. Rank(r) \in Nat
  BY <1>8, RankTypes DEF LoopInv, Control, Rank
<1>. QED  BY <1>8, <1>9 DEF Left
-----------------------------------------------------------------------------
\* Between two operations.
Settles(s) == LoopInv(s) /\ Rest(s) /\ ~s.changed

\* What the machines rest in.
LEMMA AtRest ==
  ASSUME NEW s, Settles(s)
  PROVE  /\ ~Flagged(s) /\ PtkRank(s) = 0 /\ GroupRank(s) = 0 /\ BssRest(s)
         /\ ~s.GTKReKey /\ BssRank(s) \in 0 .. 1
         /\ s.ptk_state \in {"INITIALIZE", "PTKINITDONE", "PTKSTART",
                             "PTKCALCNEGOTIATING", "PTKINITNEGOTIATING"}
         /\ s.ptk_state = "PTKCALCNEGOTIATING" =>
              /\ ~s.MICVerified /\ ~s.TimeoutEvt /\ ~s.key_replay[1].valid
         /\ s.ptk_state \in {"PTKSTART", "PTKINITNEGOTIATING"} => ~TooLate(s) /\ ~s.TimeoutEvt
         /\ s.group_state \in {"IDLE", "REKEYNEGOTIATING"} /\ ~s.PtkGroupInit
         /\ s.group_state = "IDLE" => ~s.GUpdateStationKeys
         /\ s.group_state = "REKEYNEGOTIATING" =>
              ~s.TimeoutEvt /\ ~(s.GTimeoutCtr > wpa_group_update_count)
<1>1. PtkRank(s) = 0 /\ GroupRank(s) = 0 /\ BssRest(s) /\ ~s.GTKReKey
  BY DEF Settles, Rest, BssRest
<1>2. ~Flagged(s) /\ StateRank(s) = 0
  BY <1>1 DEF PtkRank, Flagged
<1>3. s.ptk_state \in PtkStates /\ s.group_state \in GroupStates
  BY DEF Settles, LoopInv, Control, AuthTypes
<1>4. BssRank(s) \in 0 .. 1
  BY <1>1 DEF BssRank
<1>5. /\ s.ptk_state \in {"INITIALIZE", "PTKINITDONE", "PTKSTART",
                          "PTKCALCNEGOTIATING", "PTKINITNEGOTIATING"}
      /\ s.ptk_state = "PTKCALCNEGOTIATING" => ~s.MICVerified /\ ~s.TimeoutEvt
      /\ s.ptk_state \in {"PTKSTART", "PTKINITNEGOTIATING"} => ~TooLate(s) /\ ~s.TimeoutEvt
  BY <1>2, <1>3 DEF StateRank, PtkStates
<1>6. s.ptk_state = "PTKCALCNEGOTIATING" => ~s.key_replay[1].valid
  BY DEF Settles, LoopInv, Control, Waiting
<1>7. /\ s.group_state \in {"IDLE", "REKEYNEGOTIATING"} /\ ~s.PtkGroupInit
      /\ s.group_state = "IDLE" => ~s.GUpdateStationKeys
      /\ s.group_state = "REKEYNEGOTIATING" =>
           ~s.TimeoutEvt /\ ~(s.GTimeoutCtr > wpa_group_update_count)
  BY <1>1, <1>3 DEF GroupRank, GroupStates, KeyMessage
<1>. QED  BY <1>1, <1>2, <1>4, <1>5, <1>6, <1>7

\* The loop from a state with no more than twelve states to enter.
LEMMA Runs ==
  ASSUME NEW s, LoopInv(s), Rank(s) <= 12, NEW r, r = wpa_sm_step(s)
  PROVE  Settles(r)
<1>1. ASSUME NEW t \in Pass(s) PROVE Left(t, 11)
  <2>1. LoopInv(t) /\ ((t.changed /\ Rank(t) < Rank(s)) \/ (~t.changed /\ Rest(t)))
    BY Passes
  <2>2. Rank(s) \in Nat /\ Rank(t) \in Nat
    BY <2>1, RankTypes DEF LoopInv, Control, Rank
  <2>. QED  BY <2>1, <2>2 DEF Left
<1>. QED  BY <1>1, LoopEnds DEF Settles

\* wpa_send_eapol_timeout().
LEMMA TimesOut ==
  ASSUME NEW s, Settles(s), s.timeouts > 0,
         NEW t, t = [s EXCEPT !.timeouts = @ - 1, !.TimeoutEvt = TRUE]
  PROVE  LoopInv(t) /\ Rank(t) <= 12
<1>1. Recorded(t)
  BY DEF Settles, LoopInv, Control, Recorded
<1>2. AuthTypes(t) /\ Counted(t) /\ Absent(t) /\ Waiting(t) /\ Orderly(t, s)
  <2>. USE DEF Settles, LoopInv, Control, Recorded, AuthFields, NewSm, NewGroup
  <2>1. AuthTypes(t)  BY DEF AuthTypes
  <2>2. Counted(t) /\ Absent(t)  BY DEF Counted, Absent, Flagged
  <2>3. Waiting(t)  BY AtRest DEF Waiting, KeyMessage, Flagged
  <2>4. Orderly(t, s)  BY DEF Orderly, Ordered, SameKey, SameKeys, Ended
  <2>. QED  BY <2>1, <2>2, <2>3, <2>4
<1>3. /\ Flagged(t) = Flagged(s) /\ t.ptk_state = s.ptk_state
      /\ t.MICVerified = s.MICVerified
      /\ t.group_state = s.group_state /\ t.PtkGroupInit = s.PtkGroupInit
      /\ t.GUpdateStationKeys = s.GUpdateStationKeys
      /\ t.GTKReKey = s.GTKReKey /\ t.wpa_group_state = s.wpa_group_state
  BY DEF Settles, LoopInv, Control, Recorded, AuthFields, NewSm, NewGroup, Flagged
<1>4. PtkRank(t) <= 4 /\ GroupRank(t) <= 6 /\ BssRank(t) <= 1
  <2>1. StateRank(t) <= 4
    BY <1>2, <1>3, AtRest DEF StateRank, AuthTypes, PtkStates
  <2>2. PtkRank(t) <= 4  BY <1>3, <2>1, AtRest DEF PtkRank, Flagged
  <2>3. GroupRank(t) <= 6
    <3>1. CASE s.group_state = "REKEYNEGOTIATING"
      <4>1. t.group_state = "REKEYNEGOTIATING" /\ ~t.PtkGroupInit  BY <1>3, <3>1, AtRest
      <4>. QED  BY <4>1 DEF GroupRank, KeyMessage
    <3>2. CASE s.group_state = "IDLE"
      <4>1. t.group_state = "IDLE" /\ ~t.PtkGroupInit /\ ~t.GUpdateStationKeys
        BY <1>3, <3>2, AtRest
      <4>. QED  BY <4>1 DEF GroupRank, KeyMessage
    <3>. QED  BY <3>1, <3>2, AtRest
  <2>4. BssRank(t) <= 1  BY <1>3, AtRest DEF BssRank
  <2>. QED  BY <2>2, <2>3, <2>4
<1>5. LoopInv(t)
  BY <1>1, <1>2, OrderlyData DEF Settles, LoopInv, Control
<1>. QED  BY <1>2, <1>4, <1>5, RankTypes DEF Rank

\* wpa_sm_step() at rest does nothing.
LEMMA NothingToDo ==
  ASSUME NEW s, Settles(s), s.present
  PROVE  wpa_sm_step(s) = s
<1>1. s.changed = FALSE  BY DEF Settles, LoopInv, Control, AuthTypes
<1>2. s = [s EXCEPT !.changed = FALSE]
  BY <1>1 DEF Settles, LoopInv, Control, Recorded
<1>3. LoopInv(s) /\ PtkRank(s) = 0 /\ GroupRank(s) = 0 /\ BssRest(s)
  BY DEF Settles, Rest
<1>4. s.present => StepPTK(s) = s /\ Calm(s)
  <2>1. ASSUME NEW t, AuthTypes(t) PROVE ~Lower(t, s)
    <3>1. PtkRank(t) \in Nat  BY <2>1, RankTypes
    <3>2. ~(PtkRank(t) < 0)  BY <3>1
    <3>3. PtkRank(s) = 0  BY <1>3
    <3>. QED  BY <3>2, <3>3, Zenon DEF Lower
  <2>. QED  BY <1>3, <2>1, StepsPTK DEF LoopInv, Control
<1>5. s.present => StepPTKGroup(s) = s
  <2>1. ASSUME NEW t, AuthTypes(t) PROVE ~LowerTwo(t, s)
    <3>1. PtkRank(t) \in Nat /\ GroupRank(t) \in Nat  BY <2>1, RankTypes
    <3>2. ~(PtkRank(t) + GroupRank(t) < 0)  BY <3>1
    <3>3. PtkRank(s) + GroupRank(s) = 0  BY <1>3
    <3>. QED  BY <3>2, <3>3, Zenon DEF LowerTwo
  <2>. QED  BY <1>3, <1>4, <2>1, StepsPTKGroup DEF LoopInv, Control
<1>6. StepGroup(s) = s
  BY <1>3 DEF StepGroup, BssRest
<1>7. Pass(s) = {s}
  BY <1>2, <1>4, <1>5, <1>6 DEF Pass
<1>8. Again({s}) = {s}
  BY <1>1 DEF Again
<1>9. Again4({s}) = {s}
  BY <1>8 DEF Again4
<1>. QED  BY <1>7, <1>9 DEF wpa_sm_step

\* wpa_remove_ptk() at rest.
LEMMA RemovesPtk ==
  ASSUME NEW s, LoopInv(s), NEW t, t = wpa_remove_ptk(s)
  PROVE  LoopInv(t) /\ ~t.PTK_valid /\ t.changed = s.changed
         /\ PtkRank(t) = PtkRank(s) /\ GroupRank(t) = GroupRank(s)
         /\ BssRank(t) = BssRank(s) /\ (BssRest(t) <=> BssRest(s))
         /\ t.present = s.present /\ t.ptk_state = s.ptk_state
<1>1. Recorded(t)
  BY DEF LoopInv, Control, Recorded, wpa_remove_ptk
<1>2. /\ AuthTypes(t) /\ Counted(t) /\ Absent(t) /\ Waiting(t) /\ Orderly(t, s)
      /\ PtkRank(t) = PtkRank(s) /\ GroupRank(t) = GroupRank(s)
      /\ BssRank(t) = BssRank(s) /\ (BssRest(t) <=> BssRest(s))
      /\ ~t.PTK_valid /\ t.changed = s.changed
      /\ t.present = s.present /\ t.ptk_state = s.ptk_state
  <2>. USE DEF LoopInv, Control, Recorded, AuthFields, NewSm, NewGroup, wpa_remove_ptk
  <2>1. AuthTypes(t)  BY DEF AuthTypes
  <2>2. Counted(t) /\ Absent(t)  BY DEF Counted, Absent, Flagged
  <2>3. Waiting(t)  BY DEF Waiting, KeyMessage, Flagged
  <2>4. PtkRank(t) = PtkRank(s)
    <3>1. StateRank(t) = StateRank(s)  BY DEF StateRank, TooLate, AuthTypes, PtkStates
    <3>. QED  BY <3>1 DEF PtkRank, Flagged
  <2>5. GroupRank(t) = GroupRank(s)  BY DEF GroupRank, KeyMessage
  <2>6. BssRank(t) = BssRank(s) /\ (BssRest(t) <=> BssRest(s))  BY DEF BssRank, BssRest
  <2>7. Orderly(t, s)  BY DEF Orderly, Ordered, SameKey, SameKeys, Ended
  <2>8. ~t.PTK_valid /\ t.changed = s.changed /\ t.present = s.present /\ t.ptk_state = s.ptk_state
    OBVIOUS
  <2>. QED  BY <2>1, <2>2, <2>3, <2>4, <2>5, <2>6, <2>7, <2>8
<1>. QED  BY <1>1, <1>2, OrderlyData DEF LoopInv, Control

\* Event WPA_ASSOC.
LEMMA RemovedAtRest ==
  ASSUME NEW s, Settles(s), s.present
  PROVE  /\ AfterWpaAssoc(s) = wpa_remove_ptk(s) /\ Settles(wpa_remove_ptk(s))
         /\ ~wpa_remove_ptk(s).PTK_valid /\ wpa_remove_ptk(s).present
<1>1. /\ Settles(wpa_remove_ptk(s))
      /\ ~wpa_remove_ptk(s).PTK_valid /\ wpa_remove_ptk(s).present
  BY RemovesPtk DEF Settles, Rest
<1>. QED  BY <1>1, NothingToDo DEF AfterWpaAssoc

\* wpa_rekey_gtk().
LEMMA RekeysGtk ==
  ASSUME NEW s, Settles(s), NEW t, t = [s EXCEPT !.GTKReKey = TRUE]
  PROVE  LoopInv(t) /\ Rank(t) <= 12
<1>1. Recorded(t)
  BY DEF Settles, LoopInv, Control, Recorded
<1>2. /\ AuthTypes(t) /\ Counted(t) /\ Absent(t) /\ Waiting(t) /\ Orderly(t, s)
      /\ PtkRank(t) = PtkRank(s) /\ GroupRank(t) = GroupRank(s) /\ BssRank(t) <= 9
  <2>. USE DEF Settles, LoopInv, Control, Recorded, AuthFields, NewSm, NewGroup
  <2>1. AuthTypes(t)  BY DEF AuthTypes
  <2>2. Counted(t) /\ Absent(t)  BY DEF Counted, Absent, Flagged
  <2>3. Waiting(t)  BY DEF Waiting, KeyMessage, Flagged
  <2>4. PtkRank(t) = PtkRank(s)
    <3>1. StateRank(t) = StateRank(s)  BY DEF StateRank, TooLate, AuthTypes, PtkStates
    <3>. QED  BY <3>1 DEF PtkRank, Flagged
  <2>5. GroupRank(t) = GroupRank(s)  BY DEF GroupRank, KeyMessage
  <2>6. BssRank(t) <= 9  BY DEF BssRank
  <2>7. Orderly(t, s)  BY DEF Orderly, Ordered, SameKey, SameKeys, Ended
  <2>. QED  BY <2>1, <2>2, <2>3, <2>4, <2>5, <2>6, <2>7
<1>3. LoopInv(t)
  BY <1>1, <1>2, OrderlyData DEF Settles, LoopInv, Control
<1>. QED  BY <1>2, <1>3, AtRest, RankTypes DEF Rank

\* wpa_request_new_ptk().
LEMMA RequestsPtk ==
  ASSUME NEW s, LoopInv(s), s.present, ~Flagged(s), GroupRank(s) <= 6, BssRank(s) <= 1,
         NEW t, t = wpa_request_new_ptk(s)
  PROVE  LoopInv(t) /\ Rank(t) <= 12
<1>1. Recorded(t)
  BY DEF LoopInv, Control, Recorded, wpa_request_new_ptk
<1>2. /\ AuthTypes(t) /\ Counted(t) /\ Absent(t) /\ Waiting(t) /\ Orderly(t, s)
      /\ PtkRank(t) = 4 /\ GroupRank(t) = GroupRank(s) /\ BssRank(t) = BssRank(s)
  <2>. USE DEF LoopInv, Control, Recorded, AuthFields, NewSm, NewGroup,
               wpa_request_new_ptk
  <2>1. AuthTypes(t)  BY DEF AuthTypes
  <2>2. Counted(t) /\ Absent(t)  BY DEF Counted, Absent
  <2>3. Waiting(t)  BY DEF Waiting, KeyMessage, Flagged
  <2>4. PtkRank(t) = 4  BY DEF PtkRank, Flagged
  <2>5. GroupRank(t) = GroupRank(s)  BY DEF GroupRank, KeyMessage
  <2>6. BssRank(t) = BssRank(s)  BY DEF BssRank
  <2>7. Orderly(t, s)  BY DEF Orderly, Ordered, SameKey, SameKeys, Ended
  <2>. QED  BY <2>1, <2>2, <2>3, <2>4, <2>5, <2>6, <2>7
<1>3. LoopInv(t)
  BY <1>1, <1>2, OrderlyData DEF LoopInv, Control
<1>. QED  BY <1>2, <1>3, RankTypes DEF Rank

\* Event WPA_DEAUTH.
LEMMA Deauthenticated ==
  ASSUME NEW s, Settles(s), s.present,
         NEW t, t = [s EXCEPT !.DeauthenticationRequest = TRUE]
  PROVE  LoopInv(t) /\ Rank(t) <= 12
<1>1. Recorded(t)
  BY DEF Settles, LoopInv, Control, Recorded
<1>2. /\ AuthTypes(t) /\ Counted(t) /\ Absent(t) /\ Waiting(t) /\ Orderly(t, s)
      /\ PtkRank(t) <= 7 /\ GroupRank(t) = GroupRank(s) /\ BssRank(t) = BssRank(s)
  <2>. USE DEF Settles, LoopInv, Control, Recorded, AuthFields, NewSm, NewGroup
  <2>1. AuthTypes(t)  BY DEF AuthTypes
  <2>2. Counted(t) /\ Absent(t)  BY DEF Counted, Absent
  <2>3. Waiting(t)  BY DEF Waiting, KeyMessage, Flagged
  <2>4. PtkRank(t) <= 7
    <3>. HIDE DEF Settles
    <3>1. ~s.Disconnect /\ t.DeauthenticationRequest /\ t.Disconnect = s.Disconnect
      BY AtRest DEF Flagged, Settles
    <3>. QED  BY <3>1 DEF PtkRank
  <2>5. GroupRank(t) = GroupRank(s)  BY DEF GroupRank, KeyMessage
  <2>6. BssRank(t) = BssRank(s)  BY DEF BssRank
  <2>7. Orderly(t, s)  BY DEF Orderly, Ordered, SameKey, SameKeys, Ended
  <2>. QED  BY <2>1, <2>2, <2>3, <2>4, <2>5, <2>6, <2>7
<1>3. LoopInv(t)
  BY <1>1, <1>2, OrderlyData DEF Settles, LoopInv, Control
<1>. QED  BY <1>2, <1>3, AtRest, RankTypes DEF Rank

\* wpa_auth_sta_associated() for a station machine that has been started.
LEMMA AssociatesAgain ==
  ASSUME NEW s, Settles(s), s.present, ~s.PTK_valid,
         NEW t, t = [s EXCEPT !.key_replay = NoCounters, !.ReAuthenticationRequest = TRUE]
  PROVE  LoopInv(t) /\ Rank(t) <= 12
<1>1. Recorded(t)
  BY DEF Settles, LoopInv, Control, Recorded
<1>2. /\ AuthTypes(t) /\ Counted(t) /\ Absent(t) /\ Waiting(t) /\ Orderly(t, s)
      /\ PtkRank(t) = 6 /\ GroupRank(t) = GroupRank(s) /\ BssRank(t) = BssRank(s)
  <2>. USE DEF Settles, LoopInv, Control, Recorded, AuthFields, NewSm, NewGroup
  <2>1. AuthTypes(t)  BY RetriesAssumption DEF AuthTypes, NoCounters, Slots
  <2>2. Counted(t) /\ Absent(t)  BY DEF Counted, Absent
  <2>3. Waiting(t)
    BY RetriesAssumption DEF Waiting, KeyMessage, Flagged, NoCounters, Slots
  <2>4. PtkRank(t) = 6
    <3>. HIDE DEF Settles
    <3>1. ~s.Disconnect /\ ~s.DeauthenticationRequest  BY AtRest DEF Flagged
    <3>2. ~t.Disconnect /\ ~t.DeauthenticationRequest /\ t.ReAuthenticationRequest
      BY <3>1 DEF Settles
    <3>. QED  BY <3>2 DEF PtkRank, Flagged
  <2>5. GroupRank(t) = GroupRank(s)  BY DEF GroupRank, KeyMessage
  <2>6. BssRank(t) = BssRank(s)  BY DEF BssRank
  <2>7. Orderly(t, s)  BY DEF Orderly, Ordered, SameKey, SameKeys, Ended
  <2>. QED  BY <2>1, <2>2, <2>3, <2>4, <2>5, <2>6, <2>7
<1>3. LoopInv(t)
  BY <1>1, <1>2, OrderlyData DEF Settles, LoopInv, Control
<1>. QED  BY <1>2, <1>3, AtRest, RankTypes DEF Rank

\* And for one just allocated.
LEMMA AssociatesFresh ==
  ASSUME NEW s, Settles(s), ~s.present,
         NEW t, t = Merge([NewSm EXCEPT !.started = TRUE, !.ReAuthenticationRequest = TRUE],
                          Group(s))
  PROVE  LoopInv(t) /\ Rank(t) <= 12
<1>1. Recorded(t)
  BY DEF Recorded, Merge, AuthFields
<1>2. /\ AuthTypes(t) /\ Counted(t) /\ Absent(t) /\ Waiting(t) /\ Orderly(t, s)
      /\ PtkRank(t) = 6 /\ GroupRank(t) = 0 /\ BssRank(t) = BssRank(s)
  <2>. USE DEF Settles, LoopInv, Control, Recorded, AuthFields, NewSm,
               NewGroup, Merge, Group
  <2>0. /\ t.present /\ t.ptk_state = "INITIALIZE" /\ t.group_state = "IDLE"
        /\ t.TimeoutCtr = 0 /\ t.GTimeoutCtr = 0 /\ t.timeouts = 0
        /\ t.EAPOLKeyPairwise = FALSE /\ t.EAPOLKeyReceived = FALSE
        /\ t.update_snonce = FALSE /\ t.PTK_valid = FALSE
        /\ t.GUpdateStationKeys = FALSE /\ t.PtkGroupInit = FALSE
        /\ t.Disconnect = FALSE /\ t.DeauthenticationRequest = FALSE
        /\ t.ReAuthenticationRequest = TRUE
        /\ t.key_replay = NoCounters
    OBVIOUS
  <2>1. /\ t.wpa_group_state = s.wpa_group_state /\ t.changed = s.changed
        /\ t.ANonce = s.ANonce /\ t.GTK = s.GTK /\ t.out = s.out
        /\ t.installs = s.installs /\ t.GTKReKey = s.GTKReKey
        /\ t.GKeyDoneStations = s.GKeyDoneStations
    OBVIOUS
  <2>. HIDE DEF Recorded, AuthFields, NewSm, NewGroup, Merge, Group
  <2>2. AuthTypes(t)
    <3>1. NoCounters[1] \in [counter : Nat, valid : BOOLEAN]
      BY RetriesAssumption DEF NoCounters, Slots
    <3>2. AuthTypes(s)  OBVIOUS
    <3>. HIDE DEF Settles, LoopInv, Control
    <3>3. t.ptk_state \in PtkStates /\ t.group_state \in GroupStates
      BY <2>0 DEF PtkStates, GroupStates
    <3>4. /\ t.TimeoutCtr \in Nat /\ t.GTimeoutCtr \in Nat /\ t.timeouts \in Nat
          /\ t.key_replay[1] \in [counter : Nat, valid : BOOLEAN]
      BY <2>0, <3>1
    <3>5. t.EAPOLKeyPairwise \in BOOLEAN /\ t.changed \in BOOLEAN
      BY <2>0, <2>1, <3>2 DEF AuthTypes
    <3>. QED  BY <2>1, <3>2, <3>3, <3>4, <3>5 DEF AuthTypes
  <2>3. Counted(t) /\ Absent(t)  BY <2>0, <2>1 DEF Counted, Absent
  <2>4. Waiting(t)  BY <2>0 DEF Waiting, KeyMessage
  <2>5. PtkRank(t) = 6 /\ GroupRank(t) = 0
    BY <2>0 DEF PtkRank, Flagged, GroupRank, KeyMessage
  <2>6. BssRank(t) = BssRank(s)  BY <2>1 DEF BssRank
  <2>7. Orderly(t, s)  BY <2>0, <2>1 DEF Orderly, Ordered, SameKey, SameKeys, Ended
  <2>. QED  BY <2>2, <2>3, <2>4, <2>5, <2>6, <2>7
<1>3. LoopInv(t)
  BY <1>1, <1>2, OrderlyData DEF Settles, LoopInv, Control
<1>. QED  BY <1>2, <1>3, AtRest, RankTypes DEF Rank

\* Event WPA_REAUTH: too many handshakes failed,
LEMMA Reauthenticates1 ==
  ASSUME NEW s, Settles(s), s.present, NEW t, t = [s EXCEPT !.Disconnect = TRUE]
  PROVE  LoopInv(t) /\ Rank(t) <= 12
<1>1. Recorded(t)
  BY DEF Settles, LoopInv, Control, Recorded
<1>2. /\ AuthTypes(t) /\ Counted(t) /\ Absent(t) /\ Waiting(t) /\ Orderly(t, s)
      /\ PtkRank(t) <= 8 /\ GroupRank(t) = GroupRank(s) /\ BssRank(t) = BssRank(s)
  <2>. USE DEF Settles, LoopInv, Control, Recorded, AuthFields, NewSm, NewGroup
  <2>1. AuthTypes(t)  BY DEF AuthTypes
  <2>2. Counted(t) /\ Absent(t)  BY DEF Counted, Absent
  <2>3. Waiting(t)  BY DEF Waiting, KeyMessage, Flagged
  <2>4. PtkRank(t) <= 8  BY DEF PtkRank
  <2>5. GroupRank(t) = GroupRank(s)  BY DEF GroupRank, KeyMessage
  <2>6. BssRank(t) = BssRank(s)  BY DEF BssRank
  <2>7. Orderly(t, s)  BY DEF Orderly, Ordered, SameKey, SameKeys, Ended
  <2>. QED  BY <2>1, <2>2, <2>3, <2>4, <2>5, <2>6, <2>7
<1>3. LoopInv(t)
  BY <1>1, <1>2, OrderlyData DEF Settles, LoopInv, Control
<1>. QED  BY <1>2, <1>3, AtRest, RankTypes DEF Rank

\* or another one starts.
LEMMA Reauthenticates2 ==
  ASSUME NEW s, Settles(s), s.present, ~s.PTK_valid,
         NEW t, t = [GKeyDone(s) EXCEPT !.PtkGroupInit = s.GUpdateStationKeys \/ @,
                                        !.ReAuthenticationRequest = TRUE]
  PROVE  LoopInv(t) /\ Rank(t) <= 12
<1>1. Recorded(t)
  BY DEF Settles, LoopInv, Control, Recorded, GKeyDone, wpa_gkeydone_sta
<1>2. /\ AuthTypes(t) /\ Counted(t) /\ Absent(t) /\ Waiting(t) /\ Orderly(t, s)
      /\ PtkRank(t) = 6 /\ GroupRank(t) <= 1 /\ BssRank(t) = BssRank(s)
  <2>0. /\ ~s.Disconnect /\ ~s.DeauthenticationRequest
        /\ s.group_state = "IDLE" => ~s.GUpdateStationKeys
        /\ s.group_state \in {"IDLE", "REKEYNEGOTIATING"} /\ ~s.PtkGroupInit
        /\ s.group_state = "REKEYNEGOTIATING" =>
             ~s.TimeoutEvt /\ ~(s.GTimeoutCtr > wpa_group_update_count)
        /\ GroupRank(s) = 0
    BY AtRest DEF Flagged
  <2>. USE DEF Settles, LoopInv, Control, Recorded, AuthFields, NewSm, NewGroup,
               GKeyDone, wpa_gkeydone_sta
  <2>1. AuthTypes(t)  BY DEF AuthTypes
  <2>2. Counted(t) /\ Absent(t)  BY DEF Counted, Absent
  <2>3. Waiting(t)  BY DEF Waiting, KeyMessage, Flagged
  <2>4. PtkRank(t) = 6
    <3>1. ~t.Disconnect /\ ~t.DeauthenticationRequest /\ t.ReAuthenticationRequest
      BY <2>0
    <3>. QED  BY <3>1 DEF PtkRank, Flagged
  <2>5. GroupRank(t) <= 1
    <3>1. CASE s.GUpdateStationKeys
      <4>1. t.PtkGroupInit /\ ~t.GUpdateStationKeys  BY <3>1
      <4>. QED  BY <4>1 DEF GroupRank, KeyMessage
    <3>2. CASE ~s.GUpdateStationKeys
      <4>1. /\ ~t.PtkGroupInit /\ ~t.GUpdateStationKeys /\ t.group_state = s.group_state
            /\ t.TimeoutEvt = s.TimeoutEvt /\ t.GTimeoutCtr = s.GTimeoutCtr
            /\ t.EAPOLKeyReceived = s.EAPOLKeyReceived
            /\ t.EAPOLKeyRequest = s.EAPOLKeyRequest
            /\ t.EAPOLKeyPairwise = s.EAPOLKeyPairwise /\ t.MICVerified = s.MICVerified
        BY <2>0, <3>2
      <4>. HIDE DEF Settles, LoopInv, Control, Recorded, AuthFields, NewSm, NewGroup,
                    GKeyDone, wpa_gkeydone_sta
      <4>2. GroupRank(t) = GroupRank(s)
        BY <2>0, <3>2, <4>1 DEF GroupRank, KeyMessage
      <4>. QED  BY <2>0, <4>2
    <3>. QED  BY <3>1, <3>2
  <2>6. BssRank(t) = BssRank(s)  BY DEF BssRank
  <2>7. Orderly(t, s)  BY DEF Orderly, Ordered, SameKey, SameKeys, Ended
  <2>. QED  BY <2>1, <2>2, <2>3, <2>4, <2>5, <2>6, <2>7
<1>3. LoopInv(t)
  BY <1>1, <1>2, OrderlyData DEF Settles, LoopInv, Control
<1>. QED  BY <1>2, <1>3, AtRest, RankTypes DEF Rank

\* wpa_auth_sta_deinit().
LEMMA Freed ==
  ASSUME NEW s, Settles(s), s.present,
         NEW t, t = Merge([NewSm EXCEPT !.present = FALSE], Group(GKeyDone(s)))
  PROVE  Settles(t)
<1>1. Recorded(t)
  BY DEF Recorded, Merge, AuthFields
<1>2. /\ AuthTypes(t) /\ Counted(t) /\ Absent(t) /\ Waiting(t) /\ Orderly(t, s)
      /\ Rest(t) /\ ~t.changed
  <2>1. PICK g : g = GKeyDone(s)  OBVIOUS
  <2>2. /\ Recorded(g) /\ g.wpa_group_state = s.wpa_group_state /\ g.changed = s.changed
        /\ g.ANonce = s.ANonce /\ g.GTK = s.GTK /\ g.out = s.out
        /\ g.installs = s.installs /\ g.GTKReKey = s.GTKReKey
        /\ g.GKeyDoneStations = 0
    <3>1. Recorded(g)
      BY <2>1 DEF Settles, LoopInv, Control, Recorded, GKeyDone, wpa_gkeydone_sta
    <3>2. s.GKeyDoneStations = IF s.GUpdateStationKeys THEN 1 ELSE 0
      BY DEF Settles, LoopInv, Control, Counted
    <3>3. Recorded(s)  BY DEF Settles, LoopInv, Control
    <3>4. /\ g.wpa_group_state = s.wpa_group_state /\ g.changed = s.changed
          /\ g.ANonce = s.ANonce /\ g.GTK = s.GTK /\ g.out = s.out
          /\ g.installs = s.installs /\ g.GTKReKey = s.GTKReKey
      BY <2>1, <3>3 DEF Recorded, AuthFields, NewSm, NewGroup, GKeyDone,
         wpa_gkeydone_sta
    <3>5. g.GKeyDoneStations = 0
      BY <2>1, <3>2, <3>3 DEF Recorded, AuthFields, NewSm, NewGroup, GKeyDone,
         wpa_gkeydone_sta
    <3>. QED  BY <3>1, <3>4, <3>5
  <2>3. /\ t.present = FALSE /\ t.ptk_state = "INITIALIZE" /\ t.group_state = "IDLE"
        /\ t.TimeoutCtr = 0 /\ t.GTimeoutCtr = 0 /\ t.timeouts = 0
        /\ t.EAPOLKeyPairwise = FALSE /\ t.EAPOLKeyReceived = FALSE
        /\ t.update_snonce = FALSE /\ t.PTK_valid = FALSE
        /\ t.GUpdateStationKeys = FALSE /\ t.PtkGroupInit = FALSE
        /\ t.Disconnect = FALSE /\ t.DeauthenticationRequest = FALSE
        /\ t.ReAuthenticationRequest = FALSE /\ t.PTKRequest = FALSE
        /\ t.key_replay = NoCounters
    BY DEF AuthFields, NewSm, NewGroup, Merge
  <2>4. /\ t.wpa_group_state = g.wpa_group_state /\ t.changed = g.changed
        /\ t.ANonce = g.ANonce /\ t.GTK = g.GTK /\ t.out = g.out
        /\ t.installs = g.installs /\ t.GTKReKey = g.GTKReKey
        /\ t.GKeyDoneStations = g.GKeyDoneStations
    BY <2>1 DEF AuthFields, NewSm, NewGroup, Merge, Group
  <2>5. AuthTypes(s) /\ s.changed = FALSE /\ BssRest(s)
    BY DEF Settles, LoopInv, Control, Rest, AuthTypes
  <2>6. AuthTypes(t)
    <3>1. NoCounters[1] \in [counter : Nat, valid : BOOLEAN]
      BY RetriesAssumption DEF NoCounters, Slots
    <3>2. t.ptk_state \in PtkStates /\ t.group_state \in GroupStates
      BY <2>3 DEF PtkStates, GroupStates
    <3>3. /\ t.TimeoutCtr \in Nat /\ t.GTimeoutCtr \in Nat /\ t.timeouts \in Nat
          /\ t.key_replay[1] \in [counter : Nat, valid : BOOLEAN]
      BY <2>3, <3>1
    <3>4. t.EAPOLKeyPairwise \in BOOLEAN /\ t.changed \in BOOLEAN
      BY <2>2, <2>3, <2>4, <2>5
    <3>. QED  BY <2>2, <2>4, <2>5, <3>2, <3>3, <3>4 DEF AuthTypes
  <2>7. Counted(t) /\ Absent(t)  BY <2>2, <2>3, <2>4 DEF Counted, Absent, Flagged
  <2>8. Waiting(t)  BY <2>3 DEF Waiting, KeyMessage
  <2>9. Rest(t)
    <3>1. StateRank(t) = 0  BY <2>3 DEF StateRank
    <3>2. PtkRank(t) = 0  BY <2>3, <3>1 DEF PtkRank, Flagged
    <3>3. GroupRank(t) = 0  BY <2>3 DEF GroupRank, KeyMessage
    <3>. QED  BY <2>2, <2>3, <2>4, <2>5, <3>2, <3>3 DEF Rest, BssRest
  <2>10. Orderly(t, s)
    BY <2>2, <2>3, <2>4, AtRest DEF Flagged, Orderly, Ordered, SameKey, SameKeys, Ended
  <2>. QED  BY <2>2, <2>4, <2>5, <2>6, <2>7, <2>8, <2>9, <2>10
<1>. QED  BY <1>1, <1>2, OrderlyData DEF Settles, LoopInv, Control
-----------------------------------------------------------------------------
\* What the air is known to hold of the station's frames.
Air ==
  \A f \in eapol :
    /\ f.t = "2/4" => f.nonce \in Nat
    /\ f.t = "4/4" => f.mic \in Pairs /\ f.mic.snonce \in Drawn

\* What wpa_receive() leaves alone before wpa_sm_step().
Kept(t, s) ==
  /\ Recorded(t) /\ t.timeouts \in Nat
  /\ t.key_replay[1] \in [counter : Nat, valid : BOOLEAN]
  /\ t.key_replay[1].counter = s.key_replay[1].counter
  /\ t.present = s.present /\ t.ptk_state = s.ptk_state /\ t.group_state = s.group_state
  /\ t.PTK_valid = s.PTK_valid /\ t.ANonce = s.ANonce /\ t.GTK = s.GTK
  /\ t.TimeoutCtr = s.TimeoutCtr /\ t.GTimeoutCtr = s.GTimeoutCtr
  /\ t.TimeoutEvt = s.TimeoutEvt
  /\ t.Disconnect = s.Disconnect
  /\ t.DeauthenticationRequest = s.DeauthenticationRequest
  /\ t.ReAuthenticationRequest = s.ReAuthenticationRequest
  /\ t.PTKRequest = s.PTKRequest
  /\ t.PtkGroupInit = s.PtkGroupInit /\ t.GUpdateStationKeys = s.GUpdateStationKeys
  /\ t.wpa_group_state = s.wpa_group_state /\ t.GTKReKey = s.GTKReKey
  /\ t.GKeyDoneStations = s.GKeyDoneStations
  /\ t.changed = s.changed /\ t.out = s.out /\ t.installs = s.installs

\* Such a state, with a Boolean EAPOLKeyPairwise, keeps types, count and ranks.
LEMMA KeptControl ==
  ASSUME NEW s, Settles(s), s.present, NEW t, Kept(t, s), t.EAPOLKeyPairwise \in BOOLEAN
  PROVE  /\ AuthTypes(t) /\ Counted(t) /\ Absent(t) /\ ~Flagged(t)
         /\ Ordered(t, s) /\ SameKeys(t, s) /\ BssRank(t) <= 1 /\ BssRest(t)
         /\ t.changed = FALSE
         /\ ~TooLate(t) \/ t.ptk_state \notin {"PTKSTART", "PTKINITNEGOTIATING"}
<1>1. AuthTypes(s) /\ Counted(s)
  BY DEF Settles, LoopInv, Control
<1>2. AuthTypes(t)
  BY <1>1 DEF Kept, AuthTypes
<1>3. Counted(t) /\ Absent(t)
  BY <1>1 DEF Kept, Counted, Absent
<1>4. ~Flagged(t)
  BY AtRest DEF Kept, Flagged
<1>5. Ordered(t, s) /\ SameKeys(t, s)
  BY DEF Kept, Ordered, SameKeys, Ended
<1>6. BssRank(t) <= 1 /\ BssRest(t)
  BY AtRest DEF Kept, BssRank, BssRest
<1>7. t.changed = FALSE
  BY <1>1 DEF Kept, Settles, AuthTypes
<1>8. ~TooLate(t) \/ t.ptk_state \notin {"PTKSTART", "PTKINITNEGOTIATING"}
  BY AtRest DEF Kept, TooLate
<1>. QED  BY <1>2, <1>3, <1>4, <1>5, <1>6, <1>7, <1>8

\* A frame that is not authentic.
LEMMA NotAuthentic ==
  ASSUME NEW s, Settles(s), s.present, NEW n \in Nat,
         NEW t, t = [s EXCEPT !.MICVerified = FALSE, !.timeouts = n]
  PROVE  Settles(t)
<1>1. Recorded(t)
  BY DEF Settles, LoopInv, Control, Recorded
<1>2. AuthTypes(s) /\ Recorded(s) /\ Waiting(s)
  BY DEF Settles, LoopInv, Control
<1>3. Kept(t, s)
  BY <1>1, <1>2 DEF Kept, Recorded, AuthFields, NewSm, NewGroup, AuthTypes
<1>4. /\ t.EAPOLKeyPairwise = s.EAPOLKeyPairwise
      /\ t.EAPOLKeyReceived = s.EAPOLKeyReceived
      /\ t.EAPOLKeyRequest = s.EAPOLKeyRequest /\ t.update_snonce = s.update_snonce
      /\ t.key_replay = s.key_replay /\ t.PTK = s.PTK /\ ~t.MICVerified
  BY <1>2 DEF Recorded, AuthFields, NewSm, NewGroup
<1>5. /\ AuthTypes(t) /\ Counted(t) /\ Absent(t) /\ ~Flagged(t)
      /\ Ordered(t, s) /\ SameKeys(t, s) /\ BssRest(t) /\ t.changed = FALSE
      /\ ~TooLate(t) \/ t.ptk_state \notin {"PTKSTART", "PTKINITNEGOTIATING"}
  BY <1>2, <1>3, <1>4, KeptControl DEF AuthTypes
<1>6. Waiting(t)
  BY <1>2, <1>3, <1>4 DEF Waiting, KeyMessage, Kept, Flagged
<1>7. SameKey(t, s)
  BY <1>3, <1>4 DEF SameKey, Kept
<1>8. PtkRank(t) = 0
  <2>1. StateRank(t) = 0
    BY <1>3, <1>4, <1>5, AtRest DEF StateRank, Kept
  <2>. QED  BY <1>5, <2>1 DEF PtkRank, Flagged
<1>9. GroupRank(t) = 0
  <2>1. CASE s.group_state = "REKEYNEGOTIATING"
    BY <1>3, <1>4, <2>1, AtRest DEF GroupRank, Kept, KeyMessage
  <2>2. CASE s.group_state = "IDLE"
    BY <1>3, <2>2, AtRest DEF GroupRank, Kept, KeyMessage
  <2>. QED  BY <2>1, <2>2, AtRest
<1>. QED
  BY <1>1, <1>2, <1>5, <1>6, <1>7, <1>8, <1>9, OrderlyData
  DEF Settles, LoopInv, Control, Rest, Orderly

\* The group machine has at most six states to enter.
LEMMA GroupRankBound ==
  ASSUME NEW t, ~t.PtkGroupInit,
         t.group_state = "REKEYNEGOTIATING" \/ ~t.GUpdateStationKeys
  PROVE  GroupRank(t) <= 6
<1>1. CASE t.group_state = "REKEYNEGOTIATING"  BY <1>1 DEF GroupRank, KeyMessage
<1>2. CASE t.group_state # "REKEYNEGOTIATING"  BY <1>2 DEF GroupRank, KeyMessage
<1>. QED  BY <1>1, <1>2

\* The MIC of a frame that is not a message 4/4.
LEMMA AfterMicOther ==
  ASSUME NEW s, NEW f, f.t # "4/4"
  PROVE  AfterMic(s, f) = [s EXCEPT !.MICVerified = Checked(s),
                                    !.timeouts = IF Checked(s) THEN 0 ELSE @]
BY DEF AfterMic, UsesAltSNonce

\* An EAPOL-Key Request.
LEMMA ReceivesRequest ==
  ASSUME NEW s, Settles(s), s.present, NEW f, f.t = "request",
         NEW r, r = ReceiveRequest(AfterMic(s, f), f)
  PROVE  Settles(r)
<1>1. PICK u : u = AfterMic(s, f)  OBVIOUS
<1>2. AuthTypes(s) /\ Recorded(s) /\ Waiting(s)
  BY DEF Settles, LoopInv, Control
<1>3. CASE ~Checked(s)
  <2>1. u = [s EXCEPT !.MICVerified = FALSE, !.timeouts = s.timeouts]
    BY <1>1, <1>3, AfterMicOther DEF Checked
  <2>2. Settles(u)
    BY <1>2, <2>1, NotAuthentic DEF AuthTypes
  <2>3. u.MICVerified = FALSE
    BY <1>2, <2>1 DEF Recorded, AuthFields, NewSm, NewGroup
  <2>. QED  BY <1>1, <2>2, <2>3 DEF ReceiveRequest
<1>4. CASE Checked(s)
  <2>1. PICK x : x = [u EXCEPT !.req_replay_counter = f.ctr, !.rx_mic = f.mic,
                               !.EAPOLKeyReceived = TRUE,
                               !.EAPOLKeyPairwise = TRUE, !.EAPOLKeyRequest = TRUE]
    OBVIOUS
  <2>2. u = [s EXCEPT !.MICVerified = TRUE, !.timeouts = 0]
    BY <1>1, <1>4, AfterMicOther DEF Checked
  <2>3. Recorded(x)
    BY <1>2, <2>1, <2>2 DEF Recorded
  <2>4. Kept(x, s)
    BY <1>2, <2>1, <2>2, <2>3 DEF Kept, Recorded, AuthFields, NewSm, NewGroup, AuthTypes
  <2>5. /\ x.EAPOLKeyPairwise = TRUE /\ x.EAPOLKeyRequest = TRUE /\ x.MICVerified = TRUE
        /\ x.update_snonce = s.update_snonce /\ x.key_replay = s.key_replay
        /\ x.PTK = s.PTK
        /\ u.MICVerified = TRUE
    BY <1>2, <2>1, <2>2 DEF Recorded, AuthFields, NewSm, NewGroup
  <2>6. /\ AuthTypes(x) /\ Counted(x) /\ Absent(x) /\ ~Flagged(x)
        /\ Ordered(x, s) /\ SameKeys(x, s) /\ BssRank(x) <= 1
    BY <2>4, <2>5, KeptControl
  <2>7. Waiting(x)
    BY <1>2, <2>4, <2>5, AtRest DEF Waiting, KeyMessage, Kept, Flagged
  <2>8. SameKey(x, s)
    BY <2>4, <2>5 DEF SameKey, Kept
  <2>9. GroupRank(x) <= 6
    <3>1. /\ ~x.PtkGroupInit
          /\ x.group_state = "REKEYNEGOTIATING" \/ ~x.GUpdateStationKeys
      BY <2>4, AtRest DEF Kept
    <3>. QED  BY <3>1, GroupRankBound
  <2>10. LoopInv(x) /\ x.present
    BY <1>2, <2>3, <2>4, <2>6, <2>7, <2>8, OrderlyData
    DEF Settles, LoopInv, Control, Orderly, Kept
  <2>11. PICK y : y = wpa_request_new_ptk(x)  OBVIOUS
  <2>12. LoopInv(y) /\ Rank(y) <= 12
    BY <2>6, <2>9, <2>10, <2>11, RequestsPtk
  <2>13. r = wpa_sm_step(y)
    BY <1>1, <2>1, <2>5, <2>11 DEF ReceiveRequest
  <2>. QED  BY <2>12, <2>13, Runs
<1>. QED  BY <1>3, <1>4

\* The state in which an answer is left to wpa_sm_step().
Answer(s, f) ==
  LET left == MarkInvalid(s.key_replay, f.ctr)
  IN [s EXCEPT !.key_replay = MarkAllInvalid(left),
               !.prev_key_replay = IF f.t = "2/4" THEN left ELSE NoCounters,
               !.rx_mic = f.mic, !.EAPOLKeyReceived = TRUE,
               !.EAPOLKeyPairwise = f.t # "2/2", !.EAPOLKeyRequest = FALSE,
               !.SNonce = IF f.t = "2/4" THEN f.nonce ELSE @]

Answered(x, u, s, f) ==
  /\ Kept(x, s) /\ ~x.key_replay[1].valid
  /\ x.EAPOLKeyReceived = TRUE /\ x.EAPOLKeyRequest = FALSE
  /\ f.t = "2/2" => x.EAPOLKeyPairwise = FALSE
  /\ f.t # "2/2" => x.EAPOLKeyPairwise = TRUE
  /\ f.t = "2/4" => x.SNonce = f.nonce
  /\ x.PTK = u.PTK /\ x.MICVerified = u.MICVerified
  /\ x.update_snonce = u.update_snonce

\* All counters are used up, and nothing else is lost.
LEMMA AnswerKept ==
  ASSUME NEW s, Settles(s), s.present, NEW f,
         NEW u, Kept(u, s), u.key_replay = s.key_replay,
         NEW x, x = Answer(u, f)
  PROVE  Answered(x, u, s, f)
<1>1. PICK c : c = MarkAllInvalid(MarkInvalid(u.key_replay, f.ctr))  OBVIOUS
<1>2. /\ c[1] \in [counter : Nat, valid : BOOLEAN]
      /\ c[1].counter = s.key_replay[1].counter /\ ~c[1].valid
  <2>1. 1 \in Slots  BY RetriesAssumption DEF Slots
  <2>2. PICK k : k = s.key_replay[1] /\ k \in [counter : Nat, valid : BOOLEAN]
    BY DEF Settles, LoopInv, Control, AuthTypes
  <2>3. PICK m : m = MarkInvalid(u.key_replay, f.ctr)[1]  OBVIOUS
  <2>4. m = [k EXCEPT !.valid = @ /\ k.counter # f.ctr]
    BY <2>1, <2>2, <2>3 DEF MarkInvalid
  <2>5. c[1] = [m EXCEPT !.valid = FALSE]
    BY <1>1, <2>1, <2>3 DEF MarkAllInvalid
  <2>. QED  BY <2>2, <2>4, <2>5
<1>3. Recorded(x)
  BY DEF Kept, Recorded, Answer
<1>. USE DEF Recorded, AuthFields, NewSm, NewGroup, Answer
<1>4. x.key_replay = c /\ x.timeouts = u.timeouts
  BY <1>1 DEF Kept
<1>5. /\ x.present = u.present /\ x.ptk_state = u.ptk_state
      /\ x.group_state = u.group_state
      /\ x.PTK_valid = u.PTK_valid /\ x.ANonce = u.ANonce /\ x.GTK = u.GTK
      /\ x.TimeoutCtr = u.TimeoutCtr /\ x.GTimeoutCtr = u.GTimeoutCtr
      /\ x.TimeoutEvt = u.TimeoutEvt
      /\ x.Disconnect = u.Disconnect
      /\ x.DeauthenticationRequest = u.DeauthenticationRequest
      /\ x.ReAuthenticationRequest = u.ReAuthenticationRequest
      /\ x.PTKRequest = u.PTKRequest
      /\ x.PtkGroupInit = u.PtkGroupInit /\ x.GUpdateStationKeys = u.GUpdateStationKeys
      /\ x.wpa_group_state = u.wpa_group_state /\ x.GTKReKey = u.GTKReKey
      /\ x.GKeyDoneStations = u.GKeyDoneStations
      /\ x.changed = u.changed /\ x.out = u.out /\ x.installs = u.installs
  BY DEF Kept
<1>6. /\ x.EAPOLKeyReceived = TRUE /\ x.EAPOLKeyRequest = FALSE
      /\ f.t = "2/2" => x.EAPOLKeyPairwise = FALSE
      /\ f.t # "2/2" => x.EAPOLKeyPairwise = TRUE
      /\ f.t = "2/4" => x.SNonce = f.nonce
      /\ x.PTK = u.PTK /\ x.MICVerified = u.MICVerified
      /\ x.update_snonce = u.update_snonce
  BY DEF Kept
<1>. HIDE DEF Recorded, AuthFields, NewSm, NewGroup, Answer
<1>7. Kept(x, s)
  BY <1>2, <1>3, <1>4, <1>5 DEF Kept
<1>. QED  BY <1>2, <1>4, <1>6, <1>7 DEF Answered


\* Message 2/2.
LEMMA ReceivesGroupAnswer ==
  ASSUME NEW s, Settles(s), s.present, NEW f \in eapol, f.t = "2/2",
         NEW u, Kept(u, s), u.key_replay = s.key_replay, u.PTK = s.PTK,
         u.update_snonce = s.update_snonce,
         NEW r, r = ReceiveAnswer(u, f)
  PROVE  Settles(r)
<1>1. Waiting(s)
  BY DEF Settles, LoopInv, Control
<1>2. PICK x : x = Answer(u, f)  OBVIOUS
<1>3. /\ Kept(x, s) /\ ~x.key_replay[1].valid
      /\ x.EAPOLKeyPairwise = FALSE /\ x.PTK = s.PTK
      /\ x.update_snonce = s.update_snonce
  <2>1. Answered(x, u, s, f)  BY <1>2, AnswerKept
  <2>. QED  BY <2>1 DEF Answered
<1>4. /\ AuthTypes(x) /\ Counted(x) /\ Absent(x) /\ ~Flagged(x)
      /\ Ordered(x, s) /\ SameKeys(x, s) /\ BssRank(x) <= 1
      /\ ~TooLate(x) \/ x.ptk_state \notin {"PTKSTART", "PTKINITNEGOTIATING"}
  BY <1>3, KeptControl
<1>5. /\ ~x.PtkGroupInit
      /\ x.ptk_state = "PTKCALCNEGOTIATING" => ~x.TimeoutEvt
      /\ x.group_state = "REKEYNEGOTIATING" \/ ~x.GUpdateStationKeys
  BY <1>3, AtRest DEF Kept
<1>6. Waiting(x)
  BY <1>1, <1>3, <1>5 DEF Waiting, KeyMessage
<1>7. SameKey(x, s)
  BY <1>3 DEF SameKey, Kept
<1>8. LoopInv(x)
  BY <1>3, <1>4, <1>6, <1>7, OrderlyData
  DEF Settles, LoopInv, Control, Orderly, Kept
<1>9. PtkRank(x) <= 5 /\ GroupRank(x) <= 6
  <2>1. StateRank(x) <= 5
    BY <1>3, <1>4, AtRest DEF StateRank, Kept
  <2>2. PtkRank(x) <= 5  BY <1>4, <2>1 DEF PtkRank, Flagged
  <2>. QED  BY <1>5, <2>2, GroupRankBound
<1>10. Rank(x) <= 12
  BY <1>4, <1>9, RankTypes DEF Rank
<1>11. r = wpa_sm_step(x)
  BY <1>2 DEF ReceiveAnswer, Answer
<1>. QED  BY <1>8, <1>10, <1>11, Runs

\* When WPA_PTK takes an answer up at once, the loop ends as ever.
LEMMA RunsAnswer ==
  ASSUME NEW x, x.present, x.changed = FALSE, Recorded(x),
         NEW v, v = StepPTK(x), v.present, LoopInv(v), Calm(v), v.changed, Rank(v) <= 11,
         NEW r, r = wpa_sm_step(x)
  PROVE  Settles(r)
<1>1. x = [x EXCEPT !.changed = FALSE]
  BY DEF Recorded
<1>2. ASSUME NEW t \in Pass(x) PROVE Left(t, 11)
  <2>1. t \in {StepGroup(w) : w \in {StepPTKGroup(v)}}
    BY <1>1 DEF Pass
  <2>2. /\ LoopInv(t)
        /\ \/ t.changed /\ Rank(t) <= Rank(v)
           \/ t = v /\ ~v.changed /\ Rest(t)
    BY <2>1, AfterPTK
  <2>3. Rank(v) \in Nat /\ Rank(t) \in Nat
    BY <2>2, RankTypes DEF LoopInv, Control, Rank
  <2>. QED  BY <2>2, <2>3 DEF Left
<1>. QED  BY <1>2, LoopEnds DEF Settles

\* Message 2/4.
LEMMA ReceivesMsg2 ==
  ASSUME NEW s, Settles(s), s.present, Air, NEW f \in eapol, f.t = "2/4",
         NEW u, Kept(u, s), u.key_replay = s.key_replay, u.PTK = s.PTK,
         \/ u.ptk_state = "PTKSTART"
         \/ u.ptk_state = "PTKINITNEGOTIATING" /\ u.update_snonce,
         NEW r, r = ReceiveAnswer(u, f)
  PROVE  Settles(r)
<1>1. AuthTypes(s) /\ Data(s)
  BY DEF Settles, LoopInv, Control
<1>2. PICK x : x = Answer(u, f)  OBVIOUS
<1>3. /\ Kept(x, s) /\ ~x.key_replay[1].valid
      /\ x.EAPOLKeyReceived = TRUE /\ x.EAPOLKeyRequest = FALSE
      /\ x.EAPOLKeyPairwise = TRUE /\ x.SNonce = f.nonce
      /\ x.PTK = s.PTK /\ x.update_snonce = u.update_snonce
  <2>1. Answered(x, u, s, f)  BY <1>2, AnswerKept
  <2>. QED  BY <2>1 DEF Answered
<1>4. /\ AuthTypes(x) /\ Counted(x) /\ Absent(x) /\ ~Flagged(x)
      /\ Ordered(x, s) /\ SameKeys(x, s) /\ BssRank(x) <= 1 /\ x.changed = FALSE
  BY <1>3, KeptControl
<1>5. KeyMessage(x, TRUE)
  BY <1>3 DEF KeyMessage
<1>6. PICK v : v = PTKCALCNEGOTIATING(x)  OBVIOUS
<1>7. v = StepPTK(x)
  <2>1. x.ptk_state = u.ptk_state  BY <1>3 DEF Kept
  <2>. QED  BY <1>3, <1>4, <1>5, <1>6, <2>1 DEF StepPTK, Flagged
<1>8. Recorded(x) /\ Recorded(v)
  <2>1. Recorded(x)  BY <1>3 DEF Kept
  <2>2. PICK w : w = [EnterPTK(x, "PTKCALCNEGOTIATING") EXCEPT
                        !.EAPOLKeyReceived = FALSE, !.update_snonce = FALSE]
    OBVIOUS
  <2>3. Recorded(w)  BY <2>1, <2>2 DEF Recorded, EnterPTK
  <2>4. v = CheckMsg2(w)  BY <1>6, <2>2 DEF PTKCALCNEGOTIATING
  <2>5. Recorded(v)
    <3>1. CASE w.rx_mic # PTK(w.ANonce, w.SNonce)  BY <2>3, <2>4, <3>1 DEF CheckMsg2
    <3>2. CASE w.rx_mic = PTK(w.ANonce, w.SNonce)
      BY <2>3, <2>4, <3>2 DEF CheckMsg2, Recorded
    <3>. QED  BY <3>1, <3>2
  <2>. QED  BY <2>1, <2>5
<1>9. /\ v.present = x.present /\ v.ptk_state = "PTKCALCNEGOTIATING" /\ v.changed = TRUE
      /\ v.EAPOLKeyReceived = FALSE /\ v.update_snonce = FALSE
      /\ v.group_state = x.group_state /\ v.EAPOLKeyPairwise = x.EAPOLKeyPairwise
      /\ v.ANonce = x.ANonce /\ v.GTK = x.GTK /\ v.key_replay = x.key_replay
      /\ v.TimeoutCtr = x.TimeoutCtr /\ v.GTimeoutCtr = x.GTimeoutCtr
      /\ v.TimeoutEvt = x.TimeoutEvt
      /\ v.Disconnect = x.Disconnect
      /\ v.DeauthenticationRequest = x.DeauthenticationRequest
      /\ v.ReAuthenticationRequest = x.ReAuthenticationRequest
      /\ v.PTKRequest = x.PTKRequest
      /\ v.PtkGroupInit = x.PtkGroupInit /\ v.GUpdateStationKeys = x.GUpdateStationKeys
      /\ v.wpa_group_state = x.wpa_group_state /\ v.GTKReKey = x.GTKReKey
      /\ v.GKeyDoneStations = x.GKeyDoneStations
      /\ v.out = x.out /\ v.installs = x.installs
      /\ v.timeouts \in {0, x.timeouts}
  BY <1>6, <1>8 DEF PTKCALCNEGOTIATING, CheckMsg2, EnterPTK, Recorded,
     AuthFields, NewSm, NewGroup
<1>10. \/ v.PTK_valid = x.PTK_valid /\ v.PTK = x.PTK
       \/ v.PTK = PTK(x.ANonce, x.SNonce)
  BY <1>6, <1>8 DEF PTKCALCNEGOTIATING, CheckMsg2, EnterPTK, Recorded,
     AuthFields, NewSm, NewGroup
<1>11. AuthTypes(v)
  <2>1. v.timeouts \in Nat  BY <1>4, <1>9 DEF AuthTypes
  <2>2. v.ptk_state \in PtkStates  BY <1>9 DEF PtkStates
  <2>3. v.EAPOLKeyPairwise \in BOOLEAN /\ v.changed \in BOOLEAN  BY <1>3, <1>9
  <2>. QED  BY <1>4, <1>9, <2>1, <2>2, <2>3 DEF AuthTypes
<1>12. Counted(v) /\ Absent(v) /\ ~Flagged(v)
  BY <1>3, <1>4, <1>9 DEF Counted, Absent, Flagged, Kept
<1>13. ~v.TimeoutEvt /\ Calm(v)
  BY <1>3, <1>9, <1>12, AtRest DEF Kept, Calm
<1>14. /\ ~v.PtkGroupInit
       /\ v.group_state = "REKEYNEGOTIATING" \/ ~v.GUpdateStationKeys
  BY <1>3, <1>9, AtRest DEF Kept
<1>15. Waiting(v)
  BY <1>3, <1>9, <1>13, <1>14 DEF Waiting, KeyMessage
<1>16. KeyInv(v)
  <2>1. CASE v.PTK_valid = x.PTK_valid /\ v.PTK = x.PTK
    BY <1>1, <1>3, <1>9, <2>1 DEF KeyInv, Data, Kept
  <2>2. CASE v.PTK = PTK(x.ANonce, x.SNonce)
    <3>1. f.nonce \in Nat /\ f.nonce \in Drawn  BY DEF Air, Drawn
    <3>2. x.ANonce \in Nat  BY <1>4 DEF AuthTypes
    <3>3. v.PTK \in Pairs /\ v.PTK.anonce = v.ANonce /\ v.PTK.snonce \in Drawn
      BY <1>3, <1>9, <2>2, <3>1, <3>2 DEF PTK, Pairs
    <3>. QED  BY <1>12, <3>3 DEF KeyInv, Flagged
  <2>. QED  BY <1>10, <2>1, <2>2
<1>17. Data(v)
  <2>1. Ordered(v, s)
    BY <1>3, <1>9 DEF Kept, Ordered
  <2>2. SameKeys(v, s)
    BY <1>3, <1>9 DEF Kept, SameKeys, Ended
  <2>. QED  BY <1>1, <1>11, <1>16, <2>1, <2>2, OrderedFrames, SameInstalls DEF Data
<1>18. LoopInv(v)
  BY <1>8, <1>11, <1>12, <1>15, <1>17 DEF LoopInv, Control
<1>19. Rank(v) <= 11
  <2>1. StateRank(v) <= 5  BY <1>9, <1>13 DEF StateRank
  <2>2. PtkRank(v) <= 5  BY <1>12, <2>1 DEF PtkRank, Flagged
  <2>3. GroupRank(v) <= 2
    <3>1. CASE v.group_state = "REKEYNEGOTIATING"
      <4>1. ~(v.GTimeoutCtr > wpa_group_update_count)
        <5>1. s.group_state = "REKEYNEGOTIATING" /\ v.GTimeoutCtr = s.GTimeoutCtr
          BY <1>3, <1>9, <3>1 DEF Kept
        <5>2. ~(s.GTimeoutCtr > wpa_group_update_count)  BY <5>1, AtRest
        <5>. QED  BY <5>1, <5>2
      <4>. QED  BY <1>13, <1>14, <3>1, <4>1 DEF GroupRank, KeyMessage
    <3>2. CASE v.group_state # "REKEYNEGOTIATING"
      BY <1>14, <3>2 DEF GroupRank, KeyMessage
    <3>. QED  BY <3>1, <3>2
  <2>4. BssRank(v) <= 1
    BY <1>4, <1>9 DEF BssRank
  <2>. QED  BY <1>11, <2>2, <2>3, <2>4, RankTypes DEF Rank
<1>20. r = wpa_sm_step(x)
  BY <1>2 DEF ReceiveAnswer, Answer
<1>21. x.present /\ v.present /\ v.changed
  BY <1>3, <1>9 DEF Kept
<1>. QED
  BY <1>4, <1>7, <1>8, <1>13, <1>18, <1>19, <1>20, <1>21, RunsAnswer

\* Message 4/4: the key goes to the driver.
LEMMA ReceivesMsg4 ==
  ASSUME NEW s, Settles(s), s.present, s.PTK_valid, s.installs = << >>, Air,
         NEW f \in eapol, f.t = "4/4", f.mic.anonce = s.ANonce,
         NEW u, Kept(u, s), u.key_replay = s.key_replay, u.PTK = f.mic,
         u.MICVerified = TRUE, ~u.update_snonce,
         u.ptk_state = "PTKINITNEGOTIATING",
         NEW r, r = ReceiveAnswer(u, f)
  PROVE  Settles(r)
<1>1. AuthTypes(s) /\ Data(s)
  BY DEF Settles, LoopInv, Control
<1>2. PICK x : x = Answer(u, f)  OBVIOUS
<1>3. /\ Kept(x, s) /\ ~x.key_replay[1].valid
      /\ x.EAPOLKeyReceived = TRUE /\ x.EAPOLKeyRequest = FALSE
      /\ x.EAPOLKeyPairwise = TRUE
      /\ x.PTK = f.mic /\ x.MICVerified = TRUE /\ ~x.update_snonce
  <2>1. Answered(x, u, s, f)  BY <1>2, AnswerKept
  <2>. QED  BY <2>1 DEF Answered
<1>4. /\ AuthTypes(x) /\ Counted(x) /\ Absent(x) /\ ~Flagged(x)
      /\ BssRank(x) <= 1 /\ x.changed = FALSE
  BY <1>3, KeptControl
<1>5. KeyMessage(x, TRUE)
  BY <1>3 DEF KeyMessage
<1>6. PICK v : v = PTKINITDONE(x)  OBVIOUS
<1>7. v = StepPTK(x)
  <2>1. x.ptk_state = "PTKINITNEGOTIATING"  BY <1>3 DEF Kept
  <2>. QED  BY <1>3, <1>4, <1>5, <1>6, <2>1 DEF StepPTK, Flagged
<1>8. Recorded(x) /\ Recorded(v)
  <2>1. Recorded(x)  BY <1>3 DEF Kept
  <2>. QED  BY <1>6, <2>1 DEF PTKINITDONE, EnterPTK, Recorded
<1>9. /\ v.present = x.present /\ v.ptk_state = "PTKINITDONE" /\ v.changed = TRUE
      /\ v.EAPOLKeyReceived = FALSE /\ v.update_snonce = x.update_snonce
      /\ v.group_state = x.group_state /\ v.EAPOLKeyPairwise = x.EAPOLKeyPairwise
      /\ v.ANonce = x.ANonce /\ v.GTK = x.GTK /\ v.key_replay = x.key_replay
      /\ v.TimeoutCtr = x.TimeoutCtr /\ v.GTimeoutCtr = x.GTimeoutCtr
      /\ v.TimeoutEvt = x.TimeoutEvt /\ v.timeouts = x.timeouts
      /\ v.Disconnect = x.Disconnect
      /\ v.DeauthenticationRequest = x.DeauthenticationRequest
      /\ v.ReAuthenticationRequest = x.ReAuthenticationRequest
      /\ v.PTKRequest = x.PTKRequest
      /\ v.PtkGroupInit = x.PtkGroupInit /\ v.GUpdateStationKeys = x.GUpdateStationKeys
      /\ v.wpa_group_state = x.wpa_group_state /\ v.GTKReKey = x.GTKReKey
      /\ v.GKeyDoneStations = x.GKeyDoneStations
      /\ v.out = x.out /\ v.installs = Append(x.installs, x.PTK)
      /\ v.PTK_valid = x.PTK_valid /\ v.PTK = x.PTK
  BY <1>6, <1>8 DEF PTKINITDONE, EnterPTK, Recorded, AuthFields, NewSm, NewGroup
<1>10. AuthTypes(v)
  <2>1. v.ptk_state \in PtkStates  BY <1>9 DEF PtkStates
  <2>2. v.EAPOLKeyPairwise \in BOOLEAN /\ v.changed \in BOOLEAN  BY <1>3, <1>9
  <2>. QED  BY <1>4, <1>9, <2>1, <2>2 DEF AuthTypes
<1>11. Counted(v) /\ Absent(v) /\ ~Flagged(v)
  BY <1>3, <1>4, <1>9 DEF Counted, Absent, Flagged, Kept
<1>12. ~v.TimeoutEvt /\ Calm(v)
  BY <1>3, <1>9, <1>11, AtRest DEF Kept, Calm
<1>13. /\ ~v.PtkGroupInit
       /\ v.group_state = "REKEYNEGOTIATING" \/ ~v.GUpdateStationKeys
  BY <1>3, <1>9, AtRest DEF Kept
<1>14. Waiting(v)
  BY <1>3, <1>9 DEF Waiting, KeyMessage
<1>15. f.mic \in Pairs /\ f.mic.snonce \in Drawn /\ f.mic \in Confirmed
  BY DEF Air, Confirmed
<1>16. KeyInv(v)
  <2>1. v.PTK = f.mic /\ v.ANonce = s.ANonce
    BY <1>3, <1>9 DEF Kept
  <2>. QED  BY <1>11, <1>15, <2>1 DEF KeyInv, Flagged
<1>17. InstallInv(v)
  <2>1. v.installs = <<f.mic>>
    BY <1>3, <1>9 DEF Kept
  <2>2. v.ANonce = s.ANonce /\ Ended(v) /\ ~Ended(s)
    BY <1>3, <1>9 DEF Kept, Ended
  <2>3. Past(f.mic, v)
    BY <2>2 DEF Past
  <2>4. \A i \in DOMAIN apTks : /\ apTks[i] \in Pairs /\ Past(apTks[i], v)
                                /\ apTks[i].anonce < f.mic.anonce
    BY <1>1, <2>2 DEF Data, InstallInv, Past
  <2>. QED  BY <1>15, <2>1, <2>3, <2>4 DEF InstallInv
<1>18. Data(v)
  <2>1. Ordered(v, s)
    BY <1>3, <1>9 DEF Kept, Ordered
  <2>. QED  BY <1>1, <1>10, <1>16, <1>17, <2>1, OrderedFrames DEF Data
<1>19. LoopInv(v)
  BY <1>8, <1>10, <1>11, <1>14, <1>18 DEF LoopInv, Control
<1>20. Rank(v) <= 11
  <2>1. StateRank(v) = 0  BY <1>9 DEF StateRank
  <2>2. PtkRank(v) = 0  BY <1>11, <2>1 DEF PtkRank, Flagged
  <2>3. GroupRank(v) <= 6  BY <1>13, GroupRankBound
  <2>4. BssRank(v) <= 1
    BY <1>4, <1>9 DEF BssRank
  <2>. QED  BY <1>10, <2>2, <2>3, <2>4, RankTypes DEF Rank
<1>21. r = wpa_sm_step(x)
  BY <1>2 DEF ReceiveAnswer, Answer
<1>22. x.present /\ v.present /\ v.changed
  BY <1>3, <1>9 DEF Kept
<1>. QED
  BY <1>4, <1>7, <1>8, <1>12, <1>19, <1>20, <1>21, <1>22, RunsAnswer

\* The fields that wpa_receive() sets before wpa_sm_step().
SetAlt(s, n, c) ==
  [s EXCEPT !.update_snonce = TRUE, !.alt_SNonce = n,
            !.alt_snonce_valid = TRUE, !.alt_replay_counter = c]

UseAlt(s, n, k) ==
  [s EXCEPT !.alt_snonce_valid = FALSE, !.SNonce = n, !.PTK = k]

\* The first disturbs no other field.
LEMMA SetsAltSNonce ==
  ASSUME NEW s, Recorded(s), AuthTypes(s), NEW n, NEW c,
         NEW t, t = SetAlt(s, n, c)
  PROVE  /\ Kept(t, s) /\ t.key_replay = s.key_replay /\ t.PTK = s.PTK
         /\ t.update_snonce
<1>1. Recorded(t)  BY DEF Recorded, SetAlt
<1>. QED
  BY <1>1 DEF Kept, Recorded, AuthFields, NewSm, NewGroup, AuthTypes, SetAlt

\* The second, likewise.
LEMMA SetsAltPtk ==
  ASSUME NEW s, Recorded(s), s.timeouts \in Nat,
         s.key_replay[1] \in [counter : Nat, valid : BOOLEAN],
         NEW n, NEW k,
         NEW t, t = UseAlt(s, n, k)
  PROVE  /\ Kept(t, s) /\ t.key_replay = s.key_replay
         /\ t.update_snonce = s.update_snonce
<1>1. Recorded(t)  BY DEF Recorded, UseAlt
<1>. QED
  BY <1>1 DEF Kept, Recorded, AuthFields, NewSm, NewGroup, UseAlt

AltKept(t, s, f) ==
  /\ Kept(t, s) /\ t.key_replay = s.key_replay /\ t.PTK = s.PTK
  /\ \/ t = s
     \/ /\ t.update_snonce
        /\ f.t = "2/4" /\ s.ptk_state = "PTKINITNEGOTIATING"

\* A message 2/4 with another SNonce changes nothing else.
LEMMA AltSNonceKept ==
  ASSUME NEW s, Settles(s), NEW f, NEW t, t = WithAltSNonce(s, f)
  PROVE  AltKept(t, s, f)
<1>1. AuthTypes(s) /\ Recorded(s)
  BY DEF Settles, LoopInv, Control
<1>2. CASE UpdatesSNonce(s, f)
  <2>1. t = SetAlt(s, s.SNonce, s.key_replay[1].counter)
    BY <1>2 DEF WithAltSNonce, SetAlt
  <2>3. /\ Kept(t, s) /\ t.key_replay = s.key_replay /\ t.PTK = s.PTK
        /\ t.update_snonce
    BY <1>1, <2>1, SetsAltSNonce
  <2>5. f.t = "2/4" /\ s.ptk_state = "PTKINITNEGOTIATING"
    BY <1>2 DEF UpdatesSNonce
  <2>. QED  BY <2>3, <2>5 DEF AltKept
<1>3. CASE ~UpdatesSNonce(s, f)
  <2>1. t = s  BY <1>3 DEF WithAltSNonce
  <2>2. Kept(s, s)  BY <1>1 DEF Kept, AuthTypes
  <2>. QED  BY <2>1, <2>2 DEF AltKept
<1>. QED  BY <1>2, <1>3

\* The check of the MIC leaves the rest alone too.
LEMMA MicKept ==
  ASSUME NEW s, NEW t, Kept(t, s), NEW f, NEW u, u = AfterMic(t, f)
  PROVE  /\ Kept(u, s) /\ u.key_replay = t.key_replay
         /\ u.update_snonce = t.update_snonce
         /\ f.t # "4/4" => u.PTK = t.PTK
<1>1. Recorded(t) /\ t.timeouts \in Nat  BY DEF Kept
<1>2. PICK w : w = [t EXCEPT !.MICVerified = Checked(t),
                             !.timeouts = IF Checked(t) THEN 0 ELSE @]
  OBVIOUS
<1>3. Recorded(w)  BY <1>1, <1>2 DEF Recorded
<1>4. Kept(w, s)
  BY <1>1, <1>2, <1>3 DEF Kept, Recorded, AuthFields, NewSm, NewGroup
<1>5. w.key_replay = t.key_replay /\ w.update_snonce = t.update_snonce /\ w.PTK = t.PTK
  BY <1>1, <1>2 DEF Recorded, AuthFields, NewSm, NewGroup
<1>6. CASE ~(Checked(t) /\ UsesAltSNonce(t, f))
  BY <1>2, <1>4, <1>5, <1>6 DEF AfterMic
<1>7. CASE Checked(t) /\ UsesAltSNonce(t, f)
  <2>1. u = UseAlt(w, t.alt_SNonce, f.mic)
    BY <1>2, <1>7 DEF AfterMic, UseAlt
  <2>3. /\ Kept(u, w) /\ u.key_replay = w.key_replay
        /\ u.update_snonce = w.update_snonce
    <3>1. /\ w.timeouts \in Nat
          /\ w.key_replay[1] \in [counter : Nat, valid : BOOLEAN]
      BY <1>4 DEF Kept
    <3>. QED  BY <1>3, <2>1, <3>1, SetsAltPtk
  <2>4. Kept(u, s)  BY <1>4, <2>3 DEF Kept
  <2>6. f.t = "4/4"  BY <1>7 DEF UsesAltSNonce
  <2>. QED  BY <1>5, <2>3, <2>4, <2>6
<1>. QED  BY <1>6, <1>7

\* An authentic message 4/4 leaves the authenticator with the key of its MIC.
LEMMA MicOfMsg4 ==
  ASSUME NEW s, Recorded(s), NEW f, f.t = "4/4", Checked(s), Authentic(s, f),
         NEW u, u = AfterMic(s, f)
  PROVE  u.PTK = f.mic /\ u.MICVerified = TRUE
<1>1. PICK w : w = [s EXCEPT !.MICVerified = Checked(s),
                             !.timeouts = IF Checked(s) THEN 0 ELSE @]
  OBVIOUS
<1>2. Recorded(w) /\ w.PTK = s.PTK /\ w.MICVerified = TRUE
  <2>1. Recorded(w)  BY <1>1 DEF Recorded
  <2>2. w.PTK = s.PTK  BY <1>1 DEF Recorded, AuthFields, NewSm, NewGroup
  <2>3. Checked(s) = TRUE  BY DEF Checked
  <2>4. w.MICVerified = TRUE  BY <1>1, <2>3 DEF Recorded, AuthFields, NewSm, NewGroup
  <2>. QED  BY <2>1, <2>2, <2>4
<1>3. CASE UsesAltSNonce(s, f)
  <2>1. u = [w EXCEPT !.alt_snonce_valid = FALSE, !.SNonce = s.alt_SNonce, !.PTK = f.mic]
    BY <1>1, <1>3 DEF AfterMic
  <2>. QED  BY <1>2, <2>1 DEF Recorded, AuthFields, NewSm, NewGroup
<1>4. CASE ~UsesAltSNonce(s, f)
  <2>1. u = w  BY <1>1, <1>4 DEF AfterMic
  <2>2. f.mic = s.PTK  BY <1>4 DEF Authentic
  <2>. QED  BY <1>2, <2>1, <2>2
<1>. QED  BY <1>3, <1>4

\* wpa_receive().
LEMMA Receives ==
  ASSUME NEW s, Settles(s), s.present, s.installs = << >>, Air,
         NEW f \in eapol, f.t \in {"2/4", "4/4", "2/2", "request"},
         NEW r, r = Receive(s, f)
  PROVE  Settles(r)
<1>1. AuthTypes(s) /\ Recorded(s) /\ Waiting(s) /\ KeyInv(s)
  BY DEF Settles, LoopInv, Control, Data
<1>2. PICK t : t = WithAltSNonce(s, f)  OBVIOUS
<1>3. PICK u : u = AfterMic(t, f)  OBVIOUS
<1>4. /\ Kept(t, s) /\ t.key_replay = s.key_replay /\ t.PTK = s.PTK
      /\ \/ t = s
         \/ /\ t.update_snonce
            /\ f.t = "2/4" /\ s.ptk_state = "PTKINITNEGOTIATING"
  <2>1. AltKept(t, s, f)  BY <1>2, AltSNonceKept
  <2>. QED  BY <2>1 DEF AltKept
<1>5. /\ Kept(u, s) /\ u.key_replay = s.key_replay
      /\ u.update_snonce = t.update_snonce
      /\ f.t # "4/4" => u.PTK = s.PTK
  <2>1. /\ Kept(u, s) /\ u.key_replay = t.key_replay
        /\ u.update_snonce = t.update_snonce
        /\ f.t # "4/4" => u.PTK = t.PTK
    BY <1>3, <1>4, MicKept
  <2>. QED  BY <1>4, <2>1
<1>6. CASE ~ValidCounter(s, f)
  BY <1>6 DEF Receive
<1>7. CASE ValidCounter(s, f) /\ ~ValidState(t, f)
  <2>1. r = t  BY <1>2, <1>7 DEF Receive
  <2>2. t = s
    BY <1>4, <1>7 DEF ValidState, Kept
  <2>. QED  BY <2>1, <2>2
<1>8. CASE ValidCounter(s, f) /\ ValidState(t, f) /\ Checked(t) /\ ~Authentic(t, f)
  <2>1. t = s  BY <1>4, <1>8 DEF Checked
  <2>2. r = [s EXCEPT !.MICVerified = FALSE]
    BY <1>2, <1>8, <2>1 DEF Receive
  <2>3. r = [s EXCEPT !.MICVerified = FALSE, !.timeouts = s.timeouts]
    BY <1>1, <2>2 DEF Recorded
  <2>4. s.timeouts \in Nat  BY <1>1 DEF AuthTypes
  <2>. QED  BY <2>3, <2>4, NotAuthentic
<1>9. CASE ValidCounter(s, f) /\ ValidState(t, f) /\ ~(Checked(t) /\ ~Authentic(t, f))
  <2>1. r = IF f.t = "request" THEN ReceiveRequest(u, f) ELSE ReceiveAnswer(u, f)
    BY <1>2, <1>3, <1>9 DEF Receive
  <2>2. CASE f.t = "request"
    <3>1. t = s /\ r = ReceiveRequest(AfterMic(s, f), f)
      BY <1>3, <1>4, <2>1, <2>2
    <3>. QED  BY <2>2, <3>1, ReceivesRequest
  <2>3. CASE f.t = "2/2"
    <3>1. t = s /\ r = ReceiveAnswer(u, f) /\ u.PTK = s.PTK
      BY <1>4, <1>5, <2>1, <2>3
    <3>2. u.update_snonce = s.update_snonce  BY <1>5, <3>1
    <3>. QED  BY <1>5, <2>3, <3>1, <3>2, ReceivesGroupAnswer
  <2>4. CASE f.t = "2/4"
    <3>1. r = ReceiveAnswer(u, f) /\ u.PTK = s.PTK
      BY <1>5, <2>1, <2>4
    <3>2. t.ptk_state = s.ptk_state /\ u.ptk_state = s.ptk_state
      BY <1>4, <1>5 DEF Kept
    <3>3. s.ptk_state # "PTKCALCNEGOTIATING"
      <4>1. SUFFICES ASSUME s.ptk_state = "PTKCALCNEGOTIATING"  PROVE FALSE
        OBVIOUS
      <4>2. ~s.key_replay[1].valid  BY <4>1, AtRest
      <4>3. ~wpa_replay_counter_valid(s.key_replay, f.ctr)
        BY <4>2, RetriesAssumption DEF wpa_replay_counter_valid, Slots
      <4>. QED  BY <1>9, <2>4, <4>1, <4>3 DEF ValidCounter, UpdatesSNonce
    <3>4. \/ u.ptk_state = "PTKSTART"
          \/ u.ptk_state = "PTKINITNEGOTIATING" /\ u.update_snonce
      BY <1>5, <1>9, <2>4, <3>2, <3>3 DEF ValidState
    <3>. QED  BY <1>5, <2>4, <3>1, <3>4, ReceivesMsg2
  <2>5. CASE f.t = "4/4"
    <3>1. t = s /\ r = ReceiveAnswer(u, f)
      BY <1>4, <2>1, <2>5
    <3>2. s.ptk_state = "PTKINITNEGOTIATING" /\ s.PTK_valid /\ ~s.update_snonce
      BY <1>1, <1>9, <2>5, <3>1 DEF ValidState, Waiting
    <3>3. Checked(s) /\ Authentic(s, f)
      BY <1>9, <3>1, <3>2 DEF Checked
    <3>4. u.PTK = f.mic /\ u.MICVerified = TRUE
      BY <1>1, <1>3, <2>5, <3>1, <3>3, MicOfMsg4
    <3>5. f.mic.anonce = s.ANonce
      BY <1>1, <3>2, <3>3 DEF Authentic, UsesAltSNonce, PTK, KeyInv
    <3>6. ~u.update_snonce /\ u.ptk_state = "PTKINITNEGOTIATING"
      BY <1>5, <3>1, <3>2 DEF Kept
    <3>. QED  BY <1>5, <2>5, <3>1, <3>2, <3>4, <3>5, <3>6, ReceivesMsg4
  <2>. QED  BY <2>2, <2>3, <2>4, <2>5
<1>. QED  BY <1>6, <1>7, <1>8, <1>9

-----------------------------------------------------------------------------
(***************************************************************************)
(* The station installs no pairwise key twice, whatever the AP and the air *)
(* do: the proof uses nothing of WpaAuth but that it only adds frames to   *)
(* the air.                                                                *)
(***************************************************************************)

\* The PTKs the station can derive from the frames in the air.
PTKs == [anonce : {f.nonce : f \in eapol}, snonce : Nat]

Types ==
  /\ snonce \in Nat
  /\ tks \in Seq(PTKs)
  /\ tptk = NULL \/ tptk \in PTKs
  /\ ptk = NULL \/ ptk \in PTKs

\* An SNonce that may still be used belongs to no installed key.
FreshSNonce ==
  \A i \in 1..Len(tks) : /\ tks[i].snonce <= snonce
                         /\ ~renew_snonce => tks[i].snonce # snonce

\* The SNonce of the temporary PTK belongs to no installed key.
FreshTptk ==
  tptk # NULL =>
    /\ tptk.snonce <= snonce
    /\ \A i \in 1..Len(tks) : tks[i].snonce # tptk.snonce

\* Nor does that of a PTK verified but not installed, which can neither be
\* used again nor be that of the temporary PTK.
FreshPtk ==
  ptk # NULL /\ ~installed =>
    /\ ptk.snonce <= snonce
    /\ ~renew_snonce => ptk.snonce # snonce
    /\ tptk # NULL => ptk.snonce # tptk.snonce
    /\ \A i \in 1..Len(tks) : tks[i].snonce # ptk.snonce

IInv == Types /\ FreshSNonce /\ FreshTptk /\ FreshPtk /\ InstalledOnce

\* What the invariant reads of the supplicant.
keys == <<snonce, renew_snonce, tptk, ptk, installed, tks>>
-----------------------------------------------------------------------------
\* More frames in the air make no derived key ill-typed.
LEMMA PTKsGrow ==
  ASSUME eapol \subseteq eapol'
  PROVE  PTKs \subseteq PTKs'
  BY DEF PTKs

\* The SNonces of the keys are numbers.
LEMMA SNonceTypes ==
  ASSUME Types
  PROVE  /\ Len(tks) \in Nat
         /\ \A i \in 1..Len(tks) : tks[i] \in PTKs /\ tks[i].snonce \in Nat
         /\ tptk # NULL => tptk.snonce \in Nat
         /\ ptk # NULL => ptk.snonce \in Nat
<1>1. \A k \in PTKs : k.snonce \in Nat  BY DEF PTKs
<1>. QED  BY <1>1 DEF Types

\* Steps that leave the supplicant's keys alone preserve the invariant.
LEMMA OtherSteps ==
  ASSUME IInv, UNCHANGED keys, eapol \subseteq eapol'
  PROVE  IInv'
<1>1. Types'
  <2>1. PTKs \subseteq PTKs'  BY PTKsGrow
  <2>2. Seq(PTKs) \subseteq Seq(PTKs')  BY <2>1
  <2>. QED  BY <2>1, <2>2 DEF IInv, Types, keys
<1>2. FreshSNonce' /\ FreshTptk' /\ FreshPtk' /\ InstalledOnce'
  BY DEF IInv, keys, FreshSNonce, FreshTptk, FreshPtk, InstalledOnce
<1>. QED  BY <1>1, <1>2 DEF IInv

\* Appending a key with an SNonce that no installed key has.
LEMMA InstallFresh ==
  ASSUME NEW S, NEW s \in Seq(S), NEW k \in S,
         \A i, j \in 1..Len(s) : s[i] = s[j] => i = j,
         \A i \in 1..Len(s) : s[i].snonce # k.snonce
  PROVE  /\ Append(s, k) \in Seq(S)
         /\ Len(Append(s, k)) = Len(s) + 1 /\ Len(s) \in Nat
         /\ \A i \in 1..Len(s) : Append(s, k)[i] = s[i]
         /\ Append(s, k)[Len(s) + 1] = k
         /\ \A i, j \in 1..Len(Append(s, k)) :
               Append(s, k)[i] = Append(s, k)[j] => i = j
  OBVIOUS

\* The station forgets its keys: it associates or leaves.
LEMMA ClearPtk ==
  ASSUME IInv, wpa_sm_clear_ptk, UNCHANGED <<snonce, tks>>,
         eapol \subseteq eapol', renew_snonce' \/ UNCHANGED renew_snonce
  PROVE  IInv'
<1>1. Types'
  <2>1. PTKs \subseteq PTKs'  BY PTKsGrow
  <2>2. Seq(PTKs) \subseteq Seq(PTKs')  BY <2>1
  <2>. QED  BY <2>1, <2>2 DEF IInv, Types, wpa_sm_clear_ptk
<1>2. FreshSNonce' /\ FreshTptk' /\ FreshPtk' /\ InstalledOnce'
  BY DEF IInv, wpa_sm_clear_ptk, FreshSNonce, FreshTptk, FreshPtk, InstalledOnce
<1>. QED  BY <1>1, <1>2 DEF IInv

\* A message 1/4 gives the temporary PTK an SNonce that no key has used.
LEMMA Process1of4 ==
  ASSUME IInv, NEW f \in eapol, NEW redraw \in BOOLEAN,
         process_1_of_4(f, redraw)
  PROVE  IInv'
<1> DEFINE s == IF renew_snonce \/ redraw THEN snonce + 1 ELSE snonce
<1>1. /\ s \in Nat /\ snonce' = s /\ ~renew_snonce'
      /\ tptk' = [anonce |-> f.nonce, snonce |-> s]
      /\ UNCHANGED <<ptk, installed, tks>>
  BY DEF process_1_of_4, PTK, IInv, Types
<1>2. eapol \subseteq eapol'  BY DEF process_1_of_4
<1>3. Len(tks) \in Nat /\ \A i \in 1..Len(tks) : tks[i].snonce \in Nat
  BY SNonceTypes DEF IInv
<1>4. Types'
  <2>1. PTKs \subseteq PTKs'  BY <1>2, PTKsGrow
  <2>2. Seq(PTKs) \subseteq Seq(PTKs')  BY <2>1
  <2>3. tptk' \in PTKs'  BY <1>1, <1>2 DEF PTKs
  <2>. QED  BY <1>1, <2>1, <2>2, <2>3 DEF IInv, Types
<1>5. \A i \in 1..Len(tks) : tks[i].snonce < s
  <2>1. CASE renew_snonce \/ redraw
    BY <2>1, <1>3 DEF IInv, Types, FreshSNonce
  <2>2. CASE ~(renew_snonce \/ redraw)
    BY <2>2, <1>3 DEF IInv, Types, FreshSNonce
  <2>. QED  BY <2>1, <2>2
<1>6. ptk # NULL /\ ~installed => ptk.snonce \in Nat /\ ptk.snonce < s
  <2>1. ptk # NULL => ptk.snonce \in Nat  BY SNonceTypes DEF IInv
  <2>2. CASE renew_snonce \/ redraw
    BY <2>1, <2>2 DEF IInv, Types, FreshPtk
  <2>3. CASE ~(renew_snonce \/ redraw)
    BY <2>1, <2>3 DEF IInv, Types, FreshPtk
  <2>. QED  BY <2>2, <2>3
<1>7. FreshSNonce'  BY <1>1, <1>3, <1>5 DEF FreshSNonce
<1>8. FreshTptk'  BY <1>1, <1>3, <1>5 DEF FreshTptk
<1>9. FreshPtk'  BY <1>1, <1>3, <1>6 DEF FreshPtk, IInv
<1>10. InstalledOnce'  BY <1>1 DEF InstalledOnce, IInv
<1>. QED  BY <1>4, <1>7, <1>8, <1>9, <1>10 DEF IInv

\* A message 3/4 installs its key unless the station has, and a key that is
\* installed has an SNonce of its own.
LEMMA Process3of4 ==
  ASSUME IInv, NEW f \in eapol, process_3_of_4(f)
  PROVE  IInv'
<1>1. eapol \subseteq eapol'  BY DEF process_3_of_4
<1>2. PTKs \subseteq PTKs' /\ Seq(PTKs) \subseteq Seq(PTKs')
  <2>1. PTKs \subseteq PTKs'  BY <1>1, PTKsGrow
  <2>. QED  BY <2>1
<1>3. /\ f.mic # NULL /\ f.mic \in {tptk, ptk} /\ f.mic \in PTKs
      /\ f.mic.snonce \in Nat
  BY SNonceTypes
  DEF process_3_of_4, verify_eapol_key_mic, MicOk, IInv, Types
<1>4. /\ ptk' = f.mic /\ installed' /\ renew_snonce' /\ UNCHANGED snonce
      /\ tptk' = IF f.mic = tptk THEN NULL ELSE tptk
  BY DEF process_3_of_4, NextTptk
<1>5. FreshPtk'  BY <1>4 DEF FreshPtk
<1>6. CASE installed /\ f.mic # tptk
  <2>1. UNCHANGED tks
    BY <1>6 DEF process_3_of_4, InstallPtk, VerifiedInstalled
  <2>2. Types'  BY <1>2, <1>3, <1>4, <2>1 DEF IInv, Types
  <2>3. FreshSNonce' /\ FreshTptk' /\ InstalledOnce'
    BY <1>4, <1>6, <2>1 DEF IInv, FreshSNonce, FreshTptk, InstalledOnce
  <2>. QED  BY <1>5, <2>2, <2>3 DEF IInv
<1>7. CASE ~(installed /\ f.mic # tptk)
  <2>1. tks' = Append(tks, f.mic)
    BY <1>7 DEF process_3_of_4, InstallPtk, VerifiedInstalled
  <2>2. /\ f.mic.snonce <= snonce
        /\ \A i \in 1..Len(tks) : tks[i].snonce # f.mic.snonce
        /\ tptk # NULL /\ f.mic # tptk => tptk.snonce # f.mic.snonce
    <3>1. CASE f.mic = tptk  BY <3>1, <1>3 DEF IInv, FreshTptk
    <3>2. CASE f.mic # tptk
      BY <3>2, <1>3, <1>7 DEF IInv, FreshPtk
    <3>. QED  BY <3>1, <3>2
  <2>3. /\ Append(tks, f.mic) \in Seq(PTKs)
        /\ Len(Append(tks, f.mic)) = Len(tks) + 1 /\ Len(tks) \in Nat
        /\ \A i \in 1..Len(tks) : Append(tks, f.mic)[i] = tks[i]
        /\ Append(tks, f.mic)[Len(tks) + 1] = f.mic
        /\ \A i, j \in 1..Len(Append(tks, f.mic)) :
              Append(tks, f.mic)[i] = Append(tks, f.mic)[j] => i = j
    BY <1>3, <2>2, InstallFresh DEF IInv, Types, InstalledOnce
  <2>4. Types'
    BY <1>2, <1>3, <1>4, <2>1, <2>3 DEF IInv, Types
  <2>5. \A i \in 1..Len(tks') :
           \/ i \in 1..Len(tks) /\ tks'[i] = tks[i]
           \/ tks'[i] = f.mic
    BY <2>1, <2>3
  <2>6. FreshSNonce'
    BY <1>4, <2>2, <2>5 DEF IInv, FreshSNonce
  <2>7. FreshTptk'
    BY <1>4, <2>2, <2>5 DEF IInv, FreshTptk
  <2>8. InstalledOnce'  BY <2>1, <2>3 DEF InstalledOnce
  <2>. QED  BY <1>5, <2>4, <2>6, <2>7, <2>8 DEF IInv
<1>. QED  BY <1>6, <1>7

\* A message 1/2 may verify the temporary PTK without installing it.
LEMMA Process1of2 ==
  ASSUME IInv, NEW f \in eapol, process_1_of_2(f)
  PROVE  IInv'
<1>1. eapol \subseteq eapol'  BY DEF process_1_of_2
<1>2. PTKs \subseteq PTKs' /\ Seq(PTKs) \subseteq Seq(PTKs')
  <2>1. PTKs \subseteq PTKs'  BY <1>1, PTKsGrow
  <2>. QED  BY <2>1
<1>3. f.mic # NULL /\ f.mic \in {tptk, ptk}
  BY DEF process_1_of_2, verify_eapol_key_mic, MicOk
<1>4. /\ ptk' = f.mic /\ installed' = (installed /\ f.mic # tptk)
      /\ renew_snonce' = (f.mic = tptk \/ renew_snonce)
      /\ tptk' = IF f.mic = tptk THEN NULL ELSE tptk
      /\ UNCHANGED <<snonce, tks>>
  BY DEF process_1_of_2, NextTptk, NextRenew, VerifiedInstalled
<1>5. Types'  BY <1>2, <1>3, <1>4 DEF IInv, Types
<1>6. CASE f.mic = tptk
  <2>1. tptk' = NULL /\ renew_snonce' /\ ptk' = tptk /\ tptk # NULL
    BY <1>3, <1>4, <1>6
  <2>2. FreshSNonce' /\ FreshTptk' /\ FreshPtk' /\ InstalledOnce'
    BY <1>4, <2>1
    DEF IInv, FreshSNonce, FreshTptk, FreshPtk, InstalledOnce
  <2>. QED  BY <1>5, <2>2 DEF IInv
<1>7. CASE f.mic # tptk
  <2>1. /\ UNCHANGED <<tptk, ptk, tks, snonce>>
        /\ installed' <=> installed
        /\ renew_snonce' <=> renew_snonce
    BY <1>3, <1>4, <1>7
  <2>2. FreshSNonce' /\ FreshTptk' /\ FreshPtk' /\ InstalledOnce'
    BY <2>1 DEF IInv, FreshSNonce, FreshTptk, FreshPtk, InstalledOnce
  <2>. QED  BY <1>5, <2>2 DEF IInv
<1>. QED  BY <1>6, <1>7

\* A frame that fails the checks of its handler: the station disconnects.
LEMMA ProcessFailedKeeps ==
  ASSUME IInv, NEW f \in eapol, ProcessFailed(f)
  PROVE  IInv'
<1>1. /\ wpa_sm_clear_ptk /\ UNCHANGED <<snonce, tks>> /\ eapol \subseteq eapol'
      /\ renew_snonce' = (f.mic = tptk \/ renew_snonce)
  BY DEF ProcessFailed, Disassociated, NextRenew
<1>2. FreshSNonce'  BY <1>1 DEF IInv, FreshSNonce
<1>3. Types'
  <2>1. PTKs \subseteq PTKs'  BY <1>1, PTKsGrow
  <2>2. Seq(PTKs) \subseteq Seq(PTKs')  BY <2>1
  <2>. QED  BY <1>1, <2>1, <2>2 DEF IInv, Types, wpa_sm_clear_ptk
<1>4. FreshTptk' /\ FreshPtk' /\ InstalledOnce'
  BY <1>1 DEF IInv, wpa_sm_clear_ptk, FreshTptk, FreshPtk, InstalledOnce
<1>. QED  BY <1>2, <1>3, <1>4 DEF IInv

-----------------------------------------------------------------------------
\* The AP's operations only add frames to the air.
LEMMA ApOnlySends ==
  ASSUME NEW s, Becomes(s)
  PROVE  eapol \subseteq eapol'
  BY DEF Becomes

\* One step of the system.
LEMMA Inductive ==
  ASSUME IInv, [Next]_vars
  PROVE  IInv'
<1>1. CASE UNCHANGED vars
  BY <1>1, OtherSteps DEF vars, suppVars, keys
<1>2. CASE NewAssociation
  <2>1. eapol \subseteq eapol'
    BY <1>2, ApOnlySends DEF NewAssociation, wpa_auth_sta_associated
  <2>. QED  BY <1>2, <2>1, OtherSteps
            DEF NewAssociation, AssociationRequested, suppVars, keys
<1>3. CASE Reassociation
  <2>1. eapol \subseteq eapol'
    BY <1>3, ApOnlySends DEF Reassociation, WpaReauth
  <2>. QED  BY <1>3, <2>1, OtherSteps
            DEF Reassociation, AssociationRequested, suppVars, keys
<1>4. CASE AssociationResponse
  BY <1>4, ClearPtk DEF AssociationResponse, wpa_sm_notify_assoc
<1>5. CASE Leave
  BY <1>5, ClearPtk DEF Leave, wpa_sm_notify_disassoc, Disassociated
<1>6. CASE StationReceives
  <2>1. PICK f \in eapol : \/ process_1_of_4(f, FALSE) \/ process_3_of_4(f)
                           \/ process_1_of_2(f) \/ ProcessFailed(f)
    BY <1>6 DEF StationReceives, SuppReceives
  <2>. QED
    BY <2>1, Process1of4, Process3of4, Process1of2, ProcessFailedKeeps
<1>7. CASE StationRedraws
  BY <1>7, Process1of4 DEF StationRedraws, RedrawsSNonce
<1>8. CASE RequestRekey
  BY <1>8, OtherSteps DEF RequestRekey, wpa_sm_key_request, keys
<1>9. CASE AuthReceives
  <2>1. eapol \subseteq eapol'
    BY <1>9, ApOnlySends DEF AuthReceives, wpa_receive
  <2>. QED  BY <1>9, <2>1, OtherSteps DEF AuthReceives, suppVars, keys
<1>10. CASE Timeout
  <2>1. eapol \subseteq eapol'
    BY <1>10, ApOnlySends DEF Timeout, wpa_send_eapol_timeout
  <2>. QED  BY <1>10, <2>1, OtherSteps DEF Timeout, suppVars, keys
<1>11. CASE RekeyPtk
  <2>1. eapol \subseteq eapol'
    BY <1>11, ApOnlySends DEF RekeyPtk, wpa_rekey_ptk
  <2>. QED  BY <1>11, <2>1, OtherSteps DEF RekeyPtk, suppVars, keys
<1>12. CASE RekeyGtk
  <2>1. eapol \subseteq eapol'
    BY <1>12, ApOnlySends DEF RekeyGtk, wpa_rekey_gtk
  <2>. QED  BY <1>12, <2>1, OtherSteps DEF RekeyGtk, suppVars, keys
<1>13. CASE Deauth
  <2>1. eapol \subseteq eapol'
    BY <1>13, ApOnlySends DEF Deauth, WpaDeauth
  <2>. QED  BY <1>13, <2>1, OtherSteps DEF Deauth, suppVars, keys
<1>14. CASE FreeSta
  <2>1. eapol \subseteq eapol'
    BY <1>14, ApOnlySends DEF FreeSta, wpa_auth_sta_deinit
  <2>. QED  BY <1>14, <2>1, OtherSteps DEF FreeSta, suppVars, keys
<1>. QED
  BY <1>1, <1>2, <1>3, <1>4, <1>5, <1>6, <1>7, <1>8, <1>9, <1>10, <1>11,
     <1>12, <1>13, <1>14 DEF Next

\* The station never installs a pairwise key twice (rsn_supp/wpa.c), for every
\* number of associations, handshakes and retransmissions, and whatever frames
\* the AP sends and the air repeats.
THEOREM InstalledOnceAlways == Spec => []InstalledOnce
<1>1. Init => IInv
  BY DEF Init, SuppInit, IInv, Types, FreshSNonce, FreshTptk, FreshPtk,
         InstalledOnce, PTKs
<1>2. IInv /\ [Next]_vars => IInv'
  BY Inductive
<1>3. IInv => InstalledOnce
  BY DEF IInv
<1>. QED  BY <1>1, <1>2, <1>3, PTL DEF Spec

-----------------------------------------------------------------------------
(***************************************************************************)
(* The two ends together.  The station's handlers are added to what each   *)
(* operation of the AP preserves, which gives the order of the pairwise keys *)
(* and of the group keys.                                                  *)
(***************************************************************************)

\* The AP between two operations.
ApInv ==
  /\ Settles(au) /\ au.out = {} /\ au.installs = << >>
  /\ apTks \in Seq(Pairs)
  /\ \A i \in 1..Len(apTks) : apTks[i] \in Confirmed
  /\ \A i, j \in 1..Len(apTks) : i < j => apTks[i].anonce < apTks[j].anonce

\* The station's frames: SNonces it has drawn, keys it has installed.
AirInv ==
  /\ Air
  /\ \A n \in Drawn : n <= snonce
  /\ \A k \in Confirmed : \E i \in 1..Len(tks) : tks[i] = k

\* A frame of the AP with a later SNonce has no older ANonce.
NoOlder(k) ==
  \A f \in eapol : Micd(f) /\ k.snonce < f.mic.snonce => k.anonce <= f.mic.anonce

Known(k) == k \in Pairs /\ k.anonce <= au.ANonce /\ NoOlder(k)

\* The temporary PTK has the last SNonce, the PTK an earlier one.
TptkInv == tptk # NULL => tptk \in Pairs /\ tptk.snonce = snonce

PtkInv ==
  ptk # NULL =>
    /\ Known(ptk) /\ ptk.snonce <= snonce
    /\ tptk # NULL \/ ~renew_snonce => ptk.snonce < snonce
    /\ installed => \E i \in 1..Len(tks) : tks[i] = ptk
    /\ ~installed => \A i \in 1..Len(tks) : tks[i].snonce < ptk.snonce

TksInv ==
  /\ \A i \in 1..Len(tks) : Known(tks[i])
  /\ \A i, j \in 1..Len(tks) : i < j => tks[i].anonce <= tks[j].anonce

\* The GTK in use came with the last frame accepted, under the PTK in use.
LastFrame(l) ==
  Micd(l) /\ l.mic = ptk /\ l.gtk = gtk /\ l.ctr = rx_replay_counter

GtkInv ==
  /\ gtks \in Seq(Nat) /\ GtksIncrease
  /\ gtks # << >> => /\ ptk # NULL /\ gtks[Len(gtks)] = gtk
                     /\ \E l \in eapol : LastFrame(l)

StaInv == AirInv /\ TptkInv /\ PtkInv /\ TksInv /\ GtkInv /\ assoc \in BOOLEAN

KeysInv == IInv /\ ApInv /\ StaInv
-----------------------------------------------------------------------------
\* When an operation of the AP takes effect, frames and keys leave the record.
LEMMA Emptied ==
  ASSUME NEW r, Settles(r), NEW a, a = [r EXCEPT !.out = {}, !.installs = << >>]
  PROVE  /\ Control(a) /\ Rest(a) /\ ~a.changed /\ a.out = {} /\ a.installs = << >>
         /\ a.PTK_valid = r.PTK_valid /\ a.PTK = r.PTK /\ a.ANonce = r.ANonce
         /\ a.ReAuthenticationRequest = r.ReAuthenticationRequest
         /\ a.PTKRequest = r.PTKRequest /\ a.GTK = r.GTK /\ a.present = r.present
         /\ a.key_replay = r.key_replay /\ a.ptk_state = r.ptk_state
<1>1. Recorded(r) /\ Control(r) /\ Rest(r) /\ ~r.changed
  BY DEF Settles, LoopInv, Control
<1>2. Recorded(a)  BY <1>1 DEF Recorded
<1>3. /\ a.present = r.present /\ a.ptk_state = r.ptk_state
      /\ a.group_state = r.group_state
      /\ a.PTK_valid = r.PTK_valid /\ a.PTK = r.PTK /\ a.ANonce = r.ANonce
      /\ a.GTK = r.GTK
      /\ a.key_replay = r.key_replay /\ a.timeouts = r.timeouts
      /\ a.TimeoutCtr = r.TimeoutCtr /\ a.GTimeoutCtr = r.GTimeoutCtr
      /\ a.TimeoutEvt = r.TimeoutEvt /\ a.MICVerified = r.MICVerified
      /\ a.Disconnect = r.Disconnect
      /\ a.DeauthenticationRequest = r.DeauthenticationRequest
      /\ a.ReAuthenticationRequest = r.ReAuthenticationRequest
      /\ a.PTKRequest = r.PTKRequest /\ a.update_snonce = r.update_snonce
      /\ a.PtkGroupInit = r.PtkGroupInit /\ a.GUpdateStationKeys = r.GUpdateStationKeys
      /\ a.wpa_group_state = r.wpa_group_state /\ a.GTKReKey = r.GTKReKey
      /\ a.GKeyDoneStations = r.GKeyDoneStations /\ a.changed = r.changed
      /\ a.EAPOLKeyReceived = r.EAPOLKeyReceived
      /\ a.EAPOLKeyRequest = r.EAPOLKeyRequest
      /\ a.EAPOLKeyPairwise = r.EAPOLKeyPairwise
      /\ a.out = {} /\ a.installs = << >>
  BY <1>1 DEF Recorded, AuthFields, NewSm, NewGroup
<1>4. AuthTypes(a)
  BY <1>1, <1>3 DEF Control, AuthTypes
<1>5. Counted(a) /\ Absent(a)
  BY <1>1, <1>3 DEF Control, Counted, Absent, Flagged
<1>6. Waiting(a)
  BY <1>1, <1>3 DEF Control, Waiting, KeyMessage, Flagged
<1>7. PtkRank(a) = 0
  <2>1. StateRank(a) = StateRank(r)  BY <1>3 DEF StateRank, TooLate
  <2>2. PtkRank(a) = PtkRank(r)  BY <1>3, <2>1 DEF PtkRank, Flagged
  <2>. QED  BY <1>1, <2>2 DEF Rest
<1>8. GroupRank(a) = 0
  <2>1. GroupRank(a) = GroupRank(r)  BY <1>3 DEF GroupRank, KeyMessage
  <2>. QED  BY <1>1, <2>1 DEF Rest
<1>9. BssRest(a)
  BY <1>1, <1>3 DEF Rest, BssRest
<1>. QED
  BY <1>1, <1>2, <1>3, <1>4, <1>5, <1>6, <1>7, <1>8, <1>9 DEF Control, Rest

\* More frames of the AP, or of the station, are no fewer nonces and keys.
LEMMA MoreFrames ==
  ASSUME eapol \subseteq eapol'
  PROVE  Drawn \subseteq Drawn' /\ Confirmed \subseteq Confirmed'
BY DEF Drawn, Confirmed

\* An operation of the AP that ends with the machines at rest.
LEMMA ApTakesEffect ==
  ASSUME ApInv, NEW r, Settles(r), Becomes(r)
  PROVE  /\ ApInv'
         /\ au.ANonce <= au'.ANonce /\ au.ANonce \in Nat /\ au'.ANonce \in Nat
         /\ \A f \in eapol' : f \in eapol \/ f.t = "1/4"
                              \/ (Micd(f) /\ au.ANonce <= f.mic.anonce)
<1>1. /\ au' = [r EXCEPT !.out = {}, !.installs = << >>]
      /\ eapol' = eapol \cup r.out /\ apTks' = apTks \o r.installs
      /\ wpa_pairwise_update_count' = wpa_pairwise_update_count
  BY DEF Becomes
<1>2. /\ Control(au') /\ Rest(au') /\ ~au'.changed
      /\ au'.out = {} /\ au'.installs = << >>
      /\ au'.PTK_valid = r.PTK_valid /\ au'.PTK = r.PTK /\ au'.ANonce = r.ANonce
      /\ au'.ReAuthenticationRequest = r.ReAuthenticationRequest
      /\ au'.PTKRequest = r.PTKRequest /\ au'.GTK = r.GTK /\ au'.present = r.present
      /\ au'.key_replay = r.key_replay /\ au'.ptk_state = r.ptk_state
  BY <1>1, Emptied
<1>3. Control(au)' /\ Rest(au)'
  <2>1. Control(au)'  BY <1>2
  <2>2. Rest(au)'
    BY <1>1, <1>2 DEF Rest, PtkRank, StateRank, Flagged, TooLate, GroupRank,
       KeyMessage, BssRest
  <2>. QED  BY <2>1, <2>2
<1>4. Drawn \subseteq Drawn' /\ Confirmed \subseteq Confirmed'
  BY <1>1, MoreFrames
<1>5. Data(r) /\ AuthTypes(r)
  BY DEF Settles, LoopInv, Control
<1>6. KeyInv(au)'
  BY <1>2, <1>4, <1>5 DEF KeyInv, Data
<1>7. FrameInv(au, eapol \cup au.out)'
  <2>1. FrameInv(r, eapol')  BY <1>1, <1>5 DEF Data
  <2>2. (eapol \cup au.out)' = eapol'  BY <1>2
  <2>3. FrameBound(au, eapol)'
    BY <1>2, <1>4, <2>1 DEF FrameInv, FrameBound
  <2>4. FrameTypes(eapol') /\ FrameOrder(eapol')  BY <2>1 DEF FrameInv
  <2>5. Recent(au, eapol)'
    BY <1>2, <1>5 DEF Recent, AuthTypes
  <2>. QED  BY <2>2, <2>3, <2>4, <2>5 DEF FrameInv
<1>8. /\ \A f \in eapol' : f \in eapol \/ f.t = "1/4"
                           \/ (Micd(f) /\ au.ANonce <= f.mic.anonce)
      /\ au.ANonce \in Nat /\ au.ANonce <= r.ANonce
  BY <1>1, <1>5 DEF Data, FrameInv, Recent
<1>9. /\ apTks' \in Seq(Pairs)
      /\ \A i \in 1..Len(apTks') : apTks'[i] \in Confirmed /\ Past(apTks'[i], r)
      /\ \A i, j \in 1..Len(apTks') : i < j => apTks'[i].anonce < apTks'[j].anonce
  <2>1. \A i \in 1..Len(apTks) : apTks[i] \in Pairs /\ Past(apTks[i], r)
    BY <1>5 DEF Data, InstallInv, ApInv
  <2>2. CASE r.installs = << >>
    <3>1. apTks' = apTks  BY <1>1, <2>2 DEF ApInv
    <3>. QED  BY <2>1, <3>1 DEF ApInv
  <2>3. CASE r.installs # << >>
    <3>1. PICK k \in Confirmed : /\ k \in Pairs /\ r.installs = <<k>> /\ Past(k, r)
                                 /\ \A i \in DOMAIN apTks : apTks[i].anonce < k.anonce
      BY <1>5, <2>3 DEF Data, InstallInv
    <3>2. /\ apTks' \in Seq(Pairs) /\ Len(apTks') = Len(apTks) + 1 /\ Len(apTks) \in Nat
          /\ \A i \in 1..Len(apTks) : apTks'[i] = apTks[i]
          /\ apTks'[Len(apTks) + 1] = k
      BY <1>1, <3>1 DEF ApInv
    <3>3. \A i \in 1..Len(apTks) : apTks[i].anonce < k.anonce
      BY <3>1 DEF ApInv
    <3>4. \A i \in 1..Len(apTks') : i \in 1..Len(apTks) \/ i = Len(apTks) + 1
      BY <3>2
    <3>5. \A i \in 1..Len(apTks') : apTks'[i] \in Confirmed /\ Past(apTks'[i], r)
      BY <2>1, <3>1, <3>2, <3>4 DEF ApInv
    <3>6. \A i, j \in 1..Len(apTks') : i < j => apTks'[i].anonce < apTks'[j].anonce
      BY <3>2, <3>3, <3>4 DEF ApInv
    <3>. QED  BY <3>2, <3>5, <3>6
  <2>. QED  BY <2>2, <2>3
<1>10. InstallInv(au)'
  <2>1. \A i \in 1..Len(apTks') : apTks'[i] \in Pairs /\ Past(apTks'[i], au')
    BY <1>2, <1>9 DEF Past, Ended
  <2>. QED  BY <1>2, <1>9, <2>1 DEF InstallInv
<1>11. Settles(au)'
  BY <1>2, <1>3, <1>6, <1>7, <1>10 DEF Settles, LoopInv, Data
<1>12. ApInv'
  BY <1>2, <1>4, <1>9, <1>11 DEF ApInv
<1>. QED  BY <1>2, <1>5, <1>8, <1>12 DEF AuthTypes

-----------------------------------------------------------------------------
\* Each operation of the AP leaves its machines at rest: a timeout,
LEMMA TimeoutSettles ==
  ASSUME ApInv, wpa_send_eapol_timeout
  PROVE  \E r : Settles(r) /\ Becomes(r)
<1>1. PICK t : t = [au EXCEPT !.timeouts = @ - 1, !.TimeoutEvt = TRUE]  OBVIOUS
<1>2. LoopInv(t) /\ Rank(t) <= 12
  BY <1>1, TimesOut DEF ApInv, wpa_send_eapol_timeout
<1>3. Settles(wpa_sm_step(t))  BY <1>2, Runs
<1>. QED  BY <1>1, <1>3 DEF wpa_send_eapol_timeout

\* wpa_rekey_ptk().
LEMMA RekeyPtkSettles ==
  ASSUME ApInv, wpa_rekey_ptk
  PROVE  \E r : Settles(r) /\ Becomes(r)
<1>1. PICK t : t = wpa_request_new_ptk(au)  OBVIOUS
<1>2. Settles(au) /\ LoopInv(au) /\ au.present
  BY DEF ApInv, Settles, wpa_rekey_ptk
<1>3. ~Flagged(au) /\ GroupRank(au) = 0 /\ BssRank(au) \in 0 .. 1
  BY <1>2, AtRest
<1>4. GroupRank(au) <= 6 /\ BssRank(au) <= 1  BY <1>3
<1>5. LoopInv(t) /\ Rank(t) <= 12
  BY <1>1, <1>2, <1>3, <1>4, RequestsPtk
<1>6. Settles(wpa_sm_step(t))  BY <1>5, Runs
<1>. QED  BY <1>1, <1>6 DEF wpa_rekey_ptk

\* wpa_rekey_gtk().
LEMMA RekeyGtkSettles ==
  ASSUME ApInv, wpa_rekey_gtk
  PROVE  \E r : Settles(r) /\ Becomes(r)
<1>1. PICK t : t = [au EXCEPT !.GTKReKey = TRUE]  OBVIOUS
<1>2. LoopInv(t) /\ Rank(t) <= 12
  BY <1>1, RekeysGtk DEF ApInv
<1>3. Settles(wpa_sm_step(t))  BY <1>2, Runs
<1>. QED  BY <1>1, <1>3 DEF wpa_rekey_gtk

\* An association, of a station known or new.
LEMMA AssociationSettles ==
  ASSUME ApInv, wpa_auth_sta_associated
  PROVE  \E r : Settles(r) /\ Becomes(r)
<1>0. Settles(au)  BY DEF ApInv
<1>1. CASE au.present
  <2>1. PICK s : s = wpa_remove_ptk(au)  OBVIOUS
  <2>2. AfterWpaAssoc(au) = s /\ Settles(s) /\ ~s.PTK_valid /\ s.present
    BY <1>0, <1>1, <2>1, RemovedAtRest
  <2>3. PICK t : t = [s EXCEPT !.key_replay = NoCounters,
                               !.ReAuthenticationRequest = TRUE]
    OBVIOUS
  <2>4. LoopInv(t) /\ Rank(t) <= 12
    BY <2>2, <2>3, AssociatesAgain
  <2>5. Settles(wpa_sm_step(t))  BY <2>4, Runs
  <2>. QED  BY <1>1, <2>2, <2>3, <2>5 DEF wpa_auth_sta_associated
<1>2. CASE ~au.present
  <2>1. PICK t : t = Merge([NewSm EXCEPT !.started = TRUE,
                                         !.ReAuthenticationRequest = TRUE], Group(au))
    OBVIOUS
  <2>2. LoopInv(t) /\ Rank(t) <= 12
    BY <1>0, <1>2, <2>1, AssociatesFresh
  <2>3. Settles(wpa_sm_step(t))  BY <2>2, Runs
  <2>. QED  BY <1>2, <2>1, <2>3 DEF wpa_auth_sta_associated
<1>. QED  BY <1>1, <1>2

\* wpa_remove_ptk() leaves as many states to enter.
LEMMA RemovesThenRuns ==
  ASSUME NEW t, LoopInv(t), Rank(t) <= 12
  PROVE  Settles(wpa_sm_step(wpa_remove_ptk(t)))
<1>1. PICK u : u = wpa_remove_ptk(t)  OBVIOUS
<1>2. LoopInv(u) /\ Rank(u) <= 12
  BY <1>1, RemovesPtk DEF Rank
<1>. QED  BY <1>1, <1>2, Runs

\* A reassociation.
LEMMA ReauthSettles ==
  ASSUME ApInv, WpaReauth
  PROVE  \E r : Settles(r) /\ Becomes(r)
<1>1. Settles(au) /\ au.present  BY DEF ApInv, WpaReauth
<1>2. PICK s : s = wpa_remove_ptk(au)  OBVIOUS
<1>3. AfterWpaAssoc(au) = s /\ Settles(s) /\ ~s.PTK_valid /\ s.present
  BY <1>1, <1>2, RemovedAtRest
<1>4. PICK t1 : t1 = [s EXCEPT !.Disconnect = TRUE]  OBVIOUS
<1>5. PICK t2 : t2 = [GKeyDone(s) EXCEPT !.PtkGroupInit = s.GUpdateStationKeys \/ @,
                                         !.ReAuthenticationRequest = TRUE]
  OBVIOUS
<1>6. LoopInv(t1) /\ Rank(t1) <= 12
  BY <1>3, <1>4, Reauthenticates1
<1>7. LoopInv(t2) /\ Rank(t2) <= 12
  BY <1>3, <1>5, Reauthenticates2
<1>8. \/ Becomes(wpa_sm_step(wpa_remove_ptk(t1)))
      \/ Becomes(wpa_sm_step(wpa_remove_ptk(t2)))
  BY <1>3, <1>4, <1>5 DEF WpaReauth
<1>. QED  BY <1>6, <1>7, <1>8, RemovesThenRuns

\* A deauthentication.
LEMMA DeauthSettles ==
  ASSUME ApInv, WpaDeauth
  PROVE  \E r : Settles(r) /\ Becomes(r)
<1>1. Settles(au) /\ au.present  BY DEF ApInv, WpaDeauth
<1>2. PICK t : t = [au EXCEPT !.DeauthenticationRequest = TRUE]  OBVIOUS
<1>3. LoopInv(t) /\ Rank(t) <= 12
  BY <1>1, <1>2, Deauthenticated
<1>. QED  BY <1>2, <1>3, RemovesThenRuns DEF WpaDeauth

\* wpa_auth_sta_deinit().
LEMMA FreeSettles ==
  ASSUME ApInv, wpa_auth_sta_deinit
  PROVE  \E r : Settles(r) /\ Becomes(r)
<1>1. Settles(au) /\ au.present  BY DEF ApInv, wpa_auth_sta_deinit
<1>. QED  BY <1>1, Freed DEF wpa_auth_sta_deinit

\* wpa_receive().
LEMMA ReceiveSettles ==
  ASSUME ApInv, Air, NEW f \in eapol, wpa_receive(f)
  PROVE  \E r : Settles(r) /\ Becomes(r)
<1>1. /\ Settles(au) /\ au.present /\ au.installs = << >>
      /\ f.t \in {"2/4", "4/4", "2/2", "request"}
  BY DEF ApInv, wpa_receive
<1>2. Settles(Receive(au, f))  BY <1>1, Receives
<1>. QED  BY <1>2 DEF wpa_receive

-----------------------------------------------------------------------------
\* What the AP's invariant says of the frames and of the number ANonce.
LEMMA FramesOf ==
  ASSUME ApInv
  PROVE  /\ FrameTypes(eapol) /\ FrameOrder(eapol) /\ FrameBound(au, eapol)
         /\ au.ANonce \in Nat
         /\ \A f \in eapol : Micd(f) =>
              /\ f.mic \in Pairs /\ f.mic.anonce \in Nat /\ f.mic.snonce \in Nat
              /\ f.ctr \in Nat /\ f.gtk \in Nat
              /\ f.mic.anonce <= au.ANonce /\ f.mic.snonce \in Drawn
<1>1. FrameInv(au, eapol \cup au.out) /\ au.out = {} /\ au.ANonce \in Nat
  BY DEF ApInv, Settles, LoopInv, Control, Data, AuthTypes
<1>2. eapol \cup au.out = eapol  BY <1>1
<1>3. FrameTypes(eapol) /\ FrameOrder(eapol) /\ FrameBound(au, eapol)
  BY <1>1, <1>2 DEF FrameInv
<1>. QED  BY <1>1, <1>3 DEF FrameTypes, FrameBound, Pairs

\* What the station sends does not disturb the AP.
LEMMA StationSends ==
  ASSUME ApInv, UNCHANGED authVars, eapol \subseteq eapol',
         \A f \in eapol' : f \in eapol \/ f.t \in {"2/4", "4/4", "2/2", "request"}
  PROVE  ApInv'
<1>1. /\ au' = au /\ apTks' = apTks
      /\ wpa_pairwise_update_count' = wpa_pairwise_update_count
  BY DEF authVars
<1>2. Drawn \subseteq Drawn' /\ Confirmed \subseteq Confirmed'
  BY MoreFrames
<1>3. /\ Control(au) /\ Rest(au) /\ ~au.changed /\ Data(au)
      /\ au.out = {} /\ au.installs = << >>
  BY DEF ApInv, Settles, LoopInv
<1>4. Control(au)'  BY <1>1, <1>3
<1>5. Rest(au)'
  BY <1>1, <1>3
  DEF Rest, PtkRank, StateRank, Flagged, TooLate, GroupRank, KeyMessage, BssRest
<1>6. KeyInv(au)'
  BY <1>1, <1>2, <1>3 DEF Data, KeyInv
<1>7. FrameInv(au, eapol \cup au.out)'
  <2>1. (eapol \cup au.out)' = eapol'  BY <1>1, <1>3
  <2>2. /\ FrameTypes(eapol) /\ FrameOrder(eapol) /\ FrameBound(au, eapol)
        /\ au.ANonce \in Nat
    BY FramesOf
  <2>3. \A f \in eapol' : f.t = "1/4" \/ Micd(f) => f \in eapol
    BY DEF Micd
  <2>4. FrameTypes(eapol')  BY <2>2, <2>3 DEF FrameTypes
  <2>5. FrameOrder(eapol')  BY <2>2, <2>3 DEF FrameOrder
  <2>6. FrameBound(au, eapol)'  BY <1>1, <1>2, <2>2, <2>3 DEF FrameBound
  <2>7. Recent(au, eapol)'  BY <1>1, <2>2 DEF Recent
  <2>. QED  BY <2>1, <2>4, <2>5, <2>6, <2>7 DEF FrameInv
<1>8. InstallInv(au)'
  BY <1>1, <1>3 DEF Data, InstallInv, Past, Ended
<1>9. Settles(au)'
  BY <1>1, <1>3, <1>4, <1>5, <1>6, <1>7, <1>8 DEF Settles, LoopInv, Data
<1>. QED  BY <1>1, <1>2, <1>3, <1>9 DEF ApInv

\* A key stays known while the AP's ANonces grow.
LEMMA KnownGrows ==
  ASSUME ApInv, NEW k, Known(k), au'.ANonce \in Nat, au.ANonce <= au'.ANonce,
         \A f \in eapol' : \/ f \in eapol \/ ~Micd(f)
                           \/ au.ANonce <= f.mic.anonce /\ f.mic.anonce \in Nat
  PROVE  Known(k)'
<1>1. k \in Pairs /\ k.anonce \in Nat /\ k.anonce <= au.ANonce /\ NoOlder(k) /\ au.ANonce \in Nat
  BY FramesOf DEF Known, Pairs
<1>2. NoOlder(k)'
  BY <1>1 DEF NoOlder
<1>. QED  BY <1>1, <1>2 DEF Known

\* The station's keys, when it is left alone.
LEMMA KeysKept ==
  ASSUME ApInv, StaInv, IInv, au'.ANonce \in Nat, au.ANonce <= au'.ANonce,
         eapol \subseteq eapol',
         \A f \in eapol' : \/ f \in eapol \/ ~Micd(f)
                           \/ au.ANonce <= f.mic.anonce /\ f.mic.anonce \in Nat
  PROVE  /\ ptk # NULL /\ UNCHANGED ptk => Known(ptk)'
         /\ UNCHANGED tks => TksInv'
         /\ UNCHANGED <<ptk, tptk, snonce, renew_snonce, installed, tks>> => PtkInv'
         /\ UNCHANGED <<gtks, gtk, ptk, rx_replay_counter>> => GtkInv'
<1>1. ASSUME ptk # NULL, UNCHANGED ptk  PROVE Known(ptk)'
  <2>1. PICK k : k = ptk  OBVIOUS
  <2>2. Known(k)  BY <1>1, <2>1 DEF StaInv, PtkInv
  <2>3. Known(k)'  BY <2>2, KnownGrows
  <2>. QED  BY <1>1, <2>1, <2>3 DEF Known, NoOlder
<1>2. ASSUME UNCHANGED tks  PROVE TksInv'
  <2>1. ASSUME NEW i \in 1..Len(tks)  PROVE Known(tks[i])'
    <3>1. PICK k : k = tks[i]  OBVIOUS
    <3>2. Known(k)  BY <3>1 DEF StaInv, TksInv
    <3>3. Known(k)'  BY <3>2, KnownGrows
    <3>. QED  BY <1>2, <3>1, <3>3 DEF Known, NoOlder
  <2>. QED  BY <1>2, <2>1 DEF StaInv, TksInv
<1>3. ASSUME UNCHANGED <<ptk, tptk, snonce, renew_snonce, installed, tks>>
      PROVE  PtkInv'
  BY <1>1, <1>3 DEF StaInv, PtkInv
<1>4. ASSUME UNCHANGED <<gtks, gtk, ptk, rx_replay_counter>>  PROVE GtkInv'
  BY <1>4 DEF StaInv, GtkInv, GtksIncrease, LastFrame
<1>. QED  BY <1>1, <1>2, <1>3, <1>4

\* An operation of the AP.
LEMMA ApStep ==
  ASSUME ApInv, StaInv, IInv, UNCHANGED suppVars,
         \E r : Settles(r) /\ Becomes(r)
  PROVE  ApInv' /\ StaInv'
<1>1. PICK r : Settles(r) /\ Becomes(r)  OBVIOUS
<1>2. /\ ApInv'
      /\ au.ANonce <= au'.ANonce /\ au.ANonce \in Nat /\ au'.ANonce \in Nat
      /\ \A f \in eapol' : f \in eapol \/ f.t = "1/4"
                           \/ (Micd(f) /\ au.ANonce <= f.mic.anonce)
  BY <1>1, ApTakesEffect
<1>3. eapol \subseteq eapol'  BY <1>1 DEF Becomes
<1>4. \A f \in eapol' : Micd(f) => f.mic \in Pairs
  <2>1. FrameTypes(eapol \cup au.out)'
    BY <1>2 DEF ApInv, Settles, LoopInv, Data, FrameInv
  <2>. QED  BY <2>1 DEF FrameTypes
<1>5. \A f \in eapol' : \/ f \in eapol \/ ~Micd(f)
                        \/ au.ANonce <= f.mic.anonce /\ f.mic.anonce \in Nat
  BY <1>2, <1>4 DEF Micd, Pairs
<1>6. /\ snonce' = snonce /\ tptk' = tptk /\ ptk' = ptk /\ installed' = installed
      /\ renew_snonce' = renew_snonce /\ tks' = tks /\ gtks' = gtks /\ gtk' = gtk
      /\ rx_replay_counter' = rx_replay_counter /\ assoc' = assoc
  BY DEF suppVars
<1>7. TksInv' /\ PtkInv' /\ GtkInv'
  BY <1>2, <1>3, <1>5, <1>6, KeysKept
<1>8. Drawn' = Drawn /\ Confirmed' = Confirmed
  BY <1>2, <1>3 DEF Drawn, Confirmed, Micd
<1>9. AirInv'
  <2>1. Air'  BY <1>2, <1>3, <1>8 DEF StaInv, AirInv, Air, Micd
  <2>. QED  BY <1>6, <1>8, <2>1 DEF StaInv, AirInv
<1>10. TptkInv'  BY <1>6 DEF StaInv, TptkInv
<1>. QED  BY <1>2, <1>6, <1>7, <1>9, <1>10 DEF StaInv

\* The station forgets its keys.
LEMMA ClearKeys ==
  ASSUME ApInv, StaInv, IInv, wpa_sm_clear_ptk, assoc' \in BOOLEAN,
         UNCHANGED <<authVars, eapol, snonce, tks>>
  PROVE  ApInv' /\ StaInv'
<1>1. ApInv'  BY StationSends
<1>2. au.ANonce \in Nat /\ au' = au  BY FramesOf DEF authVars
<1>3. TksInv'
  BY <1>2, KeysKept
<1>4. TptkInv' /\ PtkInv' /\ GtkInv'
  BY DEF wpa_sm_clear_ptk, TptkInv, PtkInv, GtkInv, GtksIncrease
<1>5. AirInv'
  BY DEF StaInv, AirInv, Air, Drawn, Confirmed
<1>. QED  BY <1>1, <1>3, <1>4, <1>5 DEF StaInv

-----------------------------------------------------------------------------
\* Message 1/4.
LEMMA KeysAfter1of4 ==
  ASSUME ApInv, StaInv, IInv, UNCHANGED authVars,
         NEW f \in eapol, NEW redraw \in BOOLEAN, process_1_of_4(f, redraw)
  PROVE  ApInv' /\ StaInv'
<1>1. PICK s : s = IF renew_snonce \/ redraw THEN snonce + 1 ELSE snonce  OBVIOUS
<1>2. PICK g : g = Frame("2/4", f.ctr, s, PTK(f.nonce, s), NULL)  OBVIOUS
<1>3. /\ snonce' = s /\ ~renew_snonce' /\ tptk' = PTK(f.nonce, s)
      /\ eapol' = eapol \cup {g} /\ g.t = "2/4" /\ g.nonce = s /\ f.t = "1/4"
      /\ UNCHANGED <<assoc, rx_replay_counter, ptk, installed, gtk, tks, gtks>>
  BY <1>1, <1>2 DEF process_1_of_4, Frame
<1>4. snonce \in Nat /\ s \in Nat /\ snonce <= s /\ (renew_snonce => snonce < s)
  BY <1>1 DEF IInv, Types
<1>5. au' = au /\ au.ANonce \in Nat /\ f.nonce \in Nat
  BY <1>3, FramesOf DEF authVars, FrameTypes
<1>6. ApInv'  BY <1>3, StationSends
<1>7. ~Micd(g)  BY <1>3 DEF Micd
<1>8. TksInv' /\ GtkInv' /\ (ptk # NULL => Known(ptk)')
  BY <1>3, <1>5, <1>7, KeysKept
<1>9. TptkInv'
  BY <1>3, <1>4, <1>5 DEF TptkInv, PTK, Pairs
<1>10. PtkInv'
  <2>1. SUFFICES ASSUME ptk # NULL  PROVE PtkInv'  BY <1>3 DEF PtkInv
  <2>2. ptk.snonce \in Nat /\ ptk.snonce < s
    BY <1>4, <2>1 DEF StaInv, PtkInv, Known, Pairs
  <2>. QED  BY <1>3, <1>4, <1>8, <2>1, <2>2 DEF StaInv, PtkInv
<1>11. Drawn' = Drawn \cup {s} /\ Confirmed' = Confirmed
  BY <1>3 DEF Drawn, Confirmed
<1>12. AirInv'
  <2>1. Air'  BY <1>3, <1>4, <1>11 DEF StaInv, AirInv, Air
  <2>2. \A n \in Drawn : n \in Nat /\ n <= snonce
    BY DEF StaInv, AirInv, Air, Drawn
  <2>. QED  BY <1>3, <1>4, <1>11, <2>1, <2>2 DEF StaInv, AirInv
<1>. QED  BY <1>3, <1>6, <1>8, <1>9, <1>10, <1>12 DEF StaInv

\* A frame with a good MIC: its key is the temporary PTK, or the PTK in use.
LEMMA GoodMic ==
  ASSUME ApInv, StaInv, IInv, NEW f \in eapol, Micd(f), MicOk(f)
  PROVE  /\ f.mic # NULL /\ f.mic \in Pairs /\ f.mic.snonce \in Drawn
         /\ Known(f.mic) /\ f.mic.snonce \in Nat /\ f.mic.snonce <= snonce
         /\ f.mic # tptk => f.mic = ptk /\ ptk # NULL
         /\ f.mic = tptk => \A i \in 1..Len(tks) : tks[i].snonce < f.mic.snonce
<1>1. /\ f.mic # NULL /\ (f.mic = tptk \/ f.mic = ptk)
      /\ f.mic \in Pairs /\ f.mic.snonce \in Drawn /\ f.mic.snonce \in Nat
      /\ f.mic.anonce <= au.ANonce
  BY FramesOf DEF MicOk
<1>2. CASE f.mic = tptk
  <2>1. f.mic.snonce = snonce  BY <1>1, <1>2 DEF StaInv, TptkInv
  <2>2. NoOlder(f.mic)
    <3>1. ASSUME NEW g \in eapol, Micd(g)  PROVE ~(snonce < g.mic.snonce)
      <4>1. g.mic.snonce \in Drawn /\ g.mic.snonce \in Nat  BY <3>1, FramesOf
      <4>2. g.mic.snonce <= snonce  BY <4>1 DEF StaInv, AirInv
      <4>. QED  BY <1>1, <2>1, <4>1, <4>2
    <3>. QED  BY <2>1, <3>1 DEF NoOlder
  <2>3. \A i \in 1..Len(tks) : tks[i].snonce < f.mic.snonce
    BY <1>1, <1>2, <2>1, SNonceTypes DEF IInv, FreshSNonce, FreshTptk
  <2>. QED  BY <1>1, <1>2, <2>1, <2>2, <2>3 DEF Known
<1>3. CASE f.mic # tptk
  <2>1. f.mic = ptk /\ ptk # NULL  BY <1>1, <1>3
  <2>2. Known(f.mic) /\ f.mic.snonce <= snonce  BY <2>1 DEF StaInv, PtkInv
  <2>. QED  BY <1>1, <1>3, <2>1, <2>2
<1>. QED  BY <1>2, <1>3

\* Such a frame brings no older GTK.
LEMMA NoOlderGtk ==
  ASSUME ApInv, StaInv, IInv, NEW f \in eapol, Micd(f), MicOk(f), CounterIncreased(f),
         gtks # << >>
  PROVE  gtk <= f.gtk
<1>1. PICK l \in eapol : LastFrame(l)
  BY DEF StaInv, GtkInv
<1>2. /\ Micd(l) /\ l.mic = ptk /\ l.gtk = gtk /\ l.ctr = rx_replay_counter
      /\ ptk # NULL
  BY <1>1 DEF LastFrame, StaInv, GtkInv
<1>3. /\ l.mic.anonce \in Nat /\ l.mic.snonce \in Nat /\ l.ctr \in Nat
      /\ f.mic.anonce \in Nat /\ f.mic.snonce \in Nat /\ f.ctr \in Nat
  BY <1>2, FramesOf
<1>4. l.ctr < f.ctr
  BY <1>2, <1>3, NullAssumption DEF CounterIncreased
<1>5. l.mic.anonce <= f.mic.anonce
  <2>1. CASE f.mic = ptk  BY <1>2, <1>3, <2>1
  <2>2. CASE f.mic # ptk
    <3>1. f.mic = tptk /\ tptk # NULL  BY <2>2 DEF MicOk
    <3>2. f.mic.snonce = snonce  BY <3>1 DEF StaInv, TptkInv
    <3>3. ptk.snonce < snonce /\ NoOlder(ptk)
      BY <1>2, <3>1 DEF StaInv, PtkInv, Known
    <3>. QED  BY <1>2, <3>2, <3>3 DEF NoOlder
  <2>. QED  BY <2>1, <2>2
<1>6. Before(l, f)
  BY <1>3, <1>4, <1>5 DEF Before
<1>7. l.gtk <= f.gtk
  BY <1>2, <1>6, FramesOf DEF FrameOrder
<1>. QED  BY <1>2, <1>7

\* The GTK of such a frame is installed unless it is in use.
LEMMA GtkAccepted ==
  ASSUME ApInv, StaInv, IInv, NEW f \in eapol, Micd(f), MicOk(f), CounterIncreased(f),
         eapol \subseteq eapol', rx_replay_counter' = f.ctr, ptk' = f.mic,
         gtks' = InstallGtk(f.gtk), gtk' = f.gtk
  PROVE  GtkInv'
<1>1. f.gtk \in Nat /\ f.mic # NULL  BY FramesOf, GoodMic
<1>2. gtks \in Seq(Nat) /\ Len(gtks) \in Nat /\ GtksIncrease
  BY DEF StaInv, GtkInv
<1>3. f \in eapol' /\ LastFrame(f)'  BY DEF LastFrame
<1>4. CASE f.gtk = gtk
  <2>1. gtks' = gtks /\ gtk' = gtk  BY <1>4 DEF InstallGtk
  <2>. QED  BY <1>1, <1>3, <2>1 DEF StaInv, GtkInv, GtksIncrease
<1>5. CASE f.gtk # gtk
  <2>1. gtks' = Append(gtks, f.gtk)  BY <1>5 DEF InstallGtk
  <2>2. /\ gtks' \in Seq(Nat) /\ Len(gtks') = Len(gtks) + 1
        /\ \A i \in 1..Len(gtks) : gtks'[i] = gtks[i]
        /\ gtks'[Len(gtks) + 1] = f.gtk
    BY <1>1, <1>2, <2>1
  <2>3. \A i \in 1..Len(gtks) : gtks[i] < f.gtk
    <3>1. SUFFICES ASSUME NEW i \in 1..Len(gtks)  PROVE gtks[i] < f.gtk
      OBVIOUS
    <3>2. gtks # << >> /\ Len(gtks) \in 1..Len(gtks)  BY <1>2
    <3>3. gtk <= f.gtk  BY <3>2, NoOlderGtk
    <3>4. gtks[Len(gtks)] = gtk  BY <3>2 DEF StaInv, GtkInv
    <3>5. gtk \in Nat /\ gtks[i] \in Nat  BY <1>2, <3>2, <3>4
    <3>6. gtks[i] <= gtk
      <4>1. CASE i = Len(gtks)  BY <3>4, <3>5, <4>1
      <4>2. CASE i < Len(gtks)
        <5>1. gtks[i] < gtks[Len(gtks)]  BY <1>2, <3>2, <4>2 DEF GtksIncrease
        <5>. QED  BY <3>4, <3>5, <5>1
      <4>. QED  BY <1>2, <4>1, <4>2
    <3>. QED  BY <1>1, <1>5, <3>3, <3>5, <3>6
  <2>4. \A i \in 1..Len(gtks') : i \in 1..Len(gtks) \/ i = Len(gtks) + 1
    BY <1>2, <2>2
  <2>5. GtksIncrease'
    <3>1. SUFFICES ASSUME NEW i \in 1..Len(gtks'), NEW j \in 1..Len(gtks'), i < j
                   PROVE  gtks'[i] < gtks'[j]
      BY DEF GtksIncrease
    <3>2. i \in 1..Len(gtks)  BY <1>2, <2>2, <2>4, <3>1
    <3>3. CASE j \in 1..Len(gtks)
      BY <1>2, <2>2, <3>1, <3>2, <3>3 DEF GtksIncrease
    <3>4. CASE j = Len(gtks) + 1
      BY <2>2, <2>3, <3>2, <3>4
    <3>. QED  BY <2>4, <3>3, <3>4
  <2>6. gtks'[Len(gtks')] = gtk'  BY <2>2
  <2>. QED  BY <1>1, <1>3, <2>2, <2>5, <2>6 DEF GtkInv
<1>. QED  BY <1>4, <1>5

\* A key stays known when the station sends.
LEMMA KnownKept ==
  ASSUME ApInv, NEW k, Known(k), au' = au,
         \A g \in eapol' : g \in eapol \/ ~Micd(g)
  PROVE  Known(k)'
<1>1. au.ANonce \in Nat  BY FramesOf
<1>. QED  BY <1>1, KnownGrows

\* Message 3/4: the key is installed unless it is, after all older ones.
LEMMA KeysAfter3of4 ==
  ASSUME ApInv, StaInv, IInv, UNCHANGED authVars, NEW f \in eapol, process_3_of_4(f)
  PROVE  ApInv' /\ StaInv'
<1>1. PICK g : g = Frame("4/4", f.ctr, NULL, f.mic, NULL)  OBVIOUS
<1>2. /\ Micd(f) /\ MicOk(f) /\ CounterIncreased(f) /\ rx_replay_counter' = f.ctr
      /\ eapol' = eapol \cup {g} /\ g.t = "4/4" /\ g.mic = f.mic
      /\ ptk' = f.mic /\ renew_snonce' = TRUE /\ installed' = TRUE
      /\ tptk' = NextTptk(f) /\ tks' = InstallPtk(f.mic, VerifiedInstalled(f))
      /\ gtks' = InstallGtk(f.gtk) /\ gtk' = f.gtk
      /\ UNCHANGED <<assoc, snonce>>
  BY <1>1 DEF process_3_of_4, verify_eapol_key_mic, Received, Micd, Frame
<1>3. /\ f.mic # NULL /\ f.mic \in Pairs /\ f.mic.snonce \in Drawn
      /\ Known(f.mic) /\ f.mic.snonce \in Nat /\ f.mic.snonce <= snonce
      /\ f.mic # tptk => f.mic = ptk /\ ptk # NULL
      /\ f.mic = tptk => \A i \in 1..Len(tks) : tks[i].snonce < f.mic.snonce
  BY <1>2, GoodMic
<1>4. ApInv'  BY <1>2, StationSends
<1>5. ~Micd(g) /\ au' = au  BY <1>2 DEF Micd, authVars
<1>6. GtkInv'  BY <1>2, GtkAccepted
<1>7. PICK k : k = f.mic  OBVIOUS
<1>8. Known(k)'  BY <1>2, <1>3, <1>5, <1>7, KnownKept
<1>9. /\ tks \in Seq(PTKs) /\ Len(tks) \in Nat
  BY DEF IInv, Types
<1>10. /\ Len(tks') \in Nat
       /\ \A i \in 1..Len(tks) : i \in 1..Len(tks') /\ tks'[i] = tks[i]
       /\ \E i \in 1..Len(tks') : tks'[i] = k
       /\ TksInv'
  <2>1. CASE VerifiedInstalled(f)
    <3>1. tks' = tks /\ installed /\ f.mic = ptk /\ ptk # NULL
      BY <1>2, <1>3, <2>1 DEF InstallPtk, VerifiedInstalled
    <3>2. \E i \in 1..Len(tks) : tks[i] = ptk
      BY <3>1 DEF StaInv, PtkInv
    <3>3. TksInv'
      <4>1. au.ANonce \in Nat  BY FramesOf
      <4>2. au'.ANonce \in Nat /\ au.ANonce <= au'.ANonce  BY <1>5, <4>1
      <4>3. eapol \subseteq eapol' /\ \A h \in eapol' : h \in eapol \/ ~Micd(h)
        BY <1>2, <1>5
      <4>. QED  BY <3>1, <4>2, <4>3, KeysKept
    <3>. QED  BY <1>7, <1>9, <3>1, <3>2, <3>3
  <2>2. CASE ~VerifiedInstalled(f)
    <3>1. tks' = Append(tks, k)
      BY <1>2, <1>7, <2>2 DEF InstallPtk
    <3>2. k \in PTKs
      BY <1>2, <1>3, <1>7 DEF IInv, Types, MicOk
    <3>3. /\ Len(tks') = Len(tks) + 1 /\ Len(tks') \in Nat
          /\ \A i \in 1..Len(tks) : i \in 1..Len(tks') /\ tks'[i] = tks[i]
          /\ tks'[Len(tks) + 1] = k
          /\ \A i \in 1..Len(tks') : i \in 1..Len(tks) \/ i = Len(tks) + 1
      BY <1>9, <3>1, <3>2
    <3>4. \A i \in 1..Len(tks) : tks[i].snonce < k.snonce
      <4>1. CASE f.mic = tptk  BY <1>3, <1>7, <4>1
      <4>2. CASE f.mic # tptk
        BY <1>3, <1>7, <2>2, <4>2 DEF StaInv, PtkInv, VerifiedInstalled
      <4>. QED  BY <4>1, <4>2
    <3>5. \A i \in 1..Len(tks) : tks[i].anonce <= k.anonce
      BY <1>2, <1>7, <3>4 DEF StaInv, TksInv, Known, NoOlder
    <3>6. ASSUME NEW i \in 1..Len(tks')  PROVE Known(tks[i])'
      <4>1. CASE i \in 1..Len(tks)
        <5>1. PICK m : m = tks[i]  OBVIOUS
        <5>2. Known(m)  BY <4>1, <5>1 DEF StaInv, TksInv
        <5>3. Known(m)'  BY <1>2, <1>5, <5>2, KnownKept
        <5>4. tks'[i] = m  BY <3>3, <4>1, <5>1
        <5>. QED  BY <5>3, <5>4 DEF Known, NoOlder
      <4>2. CASE i = Len(tks) + 1
        <5>1. tks'[i] = k  BY <3>3, <4>2
        <5>. QED  BY <1>8, <5>1 DEF Known, NoOlder
      <4>. QED  BY <3>3, <4>1, <4>2
    <3>7. \A i, j \in 1..Len(tks') : i < j => tks'[i].anonce <= tks'[j].anonce
      BY <1>9, <3>3, <3>5 DEF StaInv, TksInv
    <3>8. TksInv'  BY <3>6, <3>7 DEF TksInv
    <3>9. Len(tks) + 1 \in 1..Len(tks')  BY <1>9, <3>3
    <3>. QED  BY <3>3, <3>8, <3>9
  <2>. QED  BY <2>1, <2>2
<1>11. TptkInv'  BY <1>2 DEF StaInv, TptkInv, NextTptk
<1>12. PtkInv'
  <2>1. ptk' = k /\ k.snonce <= snonce' /\ Known(ptk)'
    BY <1>2, <1>3, <1>7, <1>8 DEF Known, NoOlder
  <2>2. tptk' # NULL => k.snonce < snonce'
    BY <1>2, <1>3, <1>7 DEF NextTptk, StaInv, PtkInv
  <2>. QED  BY <1>2, <1>10, <2>1, <2>2 DEF PtkInv
<1>13. Drawn' = Drawn /\ Confirmed' = Confirmed \cup {k}
  BY <1>2, <1>7 DEF Drawn, Confirmed
<1>14. AirInv'
  <2>1. Air'  BY <1>2, <1>3, <1>13 DEF StaInv, AirInv, Air
  <2>2. \A m \in Confirmed' : \E i \in 1..Len(tks') : tks'[i] = m
    BY <1>10, <1>13 DEF StaInv, AirInv
  <2>. QED  BY <1>2, <1>13, <2>1, <2>2 DEF StaInv, AirInv
<1>. QED  BY <1>2, <1>4, <1>6, <1>10, <1>11, <1>12, <1>14 DEF StaInv

\* Message 1/2: it may verify the temporary PTK, which is then not installed.
LEMMA KeysAfter1of2 ==
  ASSUME ApInv, StaInv, IInv, UNCHANGED authVars, NEW f \in eapol, process_1_of_2(f)
  PROVE  ApInv' /\ StaInv'
<1>1. PICK g : g = Frame("2/2", f.ctr, NULL, f.mic, NULL)  OBVIOUS
<1>2. /\ Micd(f) /\ MicOk(f) /\ CounterIncreased(f) /\ rx_replay_counter' = f.ctr
      /\ eapol' = eapol \cup {g} /\ g.t = "2/2"
      /\ ptk' = f.mic /\ installed' = VerifiedInstalled(f)
      /\ renew_snonce' = NextRenew(f) /\ tptk' = NextTptk(f)
      /\ gtks' = InstallGtk(f.gtk) /\ gtk' = f.gtk
      /\ UNCHANGED <<assoc, snonce, tks>>
  BY <1>1 DEF process_1_of_2, verify_eapol_key_mic, Received, Micd, Frame
<1>3. /\ f.mic # NULL /\ f.mic \in Pairs
      /\ Known(f.mic) /\ f.mic.snonce \in Nat /\ f.mic.snonce <= snonce
      /\ f.mic # tptk => f.mic = ptk /\ ptk # NULL
      /\ f.mic = tptk => \A i \in 1..Len(tks) : tks[i].snonce < f.mic.snonce
  BY <1>2, GoodMic
<1>4. ApInv'  BY <1>2, StationSends
<1>5. ~Micd(g) /\ au' = au  BY <1>2 DEF Micd, authVars
<1>6. GtkInv'  BY <1>2, GtkAccepted
<1>7. PICK k : k = f.mic  OBVIOUS
<1>8. Known(k)'  BY <1>2, <1>3, <1>5, <1>7, KnownKept
<1>9. TksInv'
  <2>1. au.ANonce \in Nat  BY FramesOf
  <2>2. au'.ANonce \in Nat /\ au.ANonce <= au'.ANonce  BY <1>5, <2>1
  <2>3. eapol \subseteq eapol' /\ \A h \in eapol' : h \in eapol \/ ~Micd(h)
    BY <1>2, <1>5
  <2>. QED  BY <1>2, <2>2, <2>3, KeysKept
<1>10. TptkInv'  BY <1>2 DEF StaInv, TptkInv, NextTptk
<1>11. PtkInv'
  <2>1. ptk' = k /\ k.snonce <= snonce' /\ Known(ptk)'
    BY <1>2, <1>3, <1>7, <1>8 DEF Known, NoOlder
  <2>2. CASE f.mic = tptk
    <3>1. tptk' = NULL /\ renew_snonce' /\ ~installed'
      BY <1>2, <2>2 DEF NextTptk, NextRenew, VerifiedInstalled
    <3>. QED  BY <1>2, <1>3, <1>7, <2>1, <2>2, <3>1 DEF PtkInv
  <2>3. CASE f.mic # tptk
    <3>1. /\ k = ptk /\ ptk # NULL /\ tptk' = tptk
          /\ (renew_snonce' <=> renew_snonce) /\ (installed' <=> installed)
      BY <1>2, <1>3, <1>7, <2>3 DEF NextTptk, NextRenew, VerifiedInstalled
    <3>. QED  BY <1>2, <2>1, <3>1 DEF StaInv, PtkInv
  <2>. QED  BY <2>2, <2>3
<1>12. Drawn' = Drawn /\ Confirmed' = Confirmed
  BY <1>2 DEF Drawn, Confirmed
<1>13. AirInv'
  <2>1. Air'  BY <1>2, <1>12 DEF StaInv, AirInv, Air
  <2>. QED  BY <1>2, <1>12, <2>1 DEF StaInv, AirInv
<1>. QED  BY <1>2, <1>4, <1>6, <1>9, <1>10, <1>11, <1>13 DEF StaInv

\* An EAPOL-Key Request.
LEMMA KeysAfterRequest ==
  ASSUME ApInv, StaInv, IInv, UNCHANGED authVars, wpa_sm_key_request
  PROVE  ApInv' /\ StaInv'
<1>1. PICK g : g = Frame("request", request_counter, NULL, ptk, NULL)  OBVIOUS
<1>2. /\ eapol' = eapol \cup {g} /\ g.t = "request"
      /\ UNCHANGED <<assoc, rx_replay_counter, snonce, renew_snonce, tptk, ptk,
                     installed, gtk, tks, gtks>>
  BY <1>1 DEF wpa_sm_key_request, Frame
<1>3. ApInv'  BY <1>2, StationSends
<1>4. TksInv' /\ PtkInv' /\ GtkInv'
  <2>1. au.ANonce \in Nat /\ au' = au  BY FramesOf DEF authVars
  <2>2. au'.ANonce \in Nat /\ au.ANonce <= au'.ANonce  BY <2>1
  <2>3. eapol \subseteq eapol' /\ \A h \in eapol' : h \in eapol \/ ~Micd(h)
    BY <1>2 DEF Micd
  <2>. QED  BY <1>2, <2>2, <2>3, KeysKept
<1>5. Drawn' = Drawn /\ Confirmed' = Confirmed
  BY <1>2 DEF Drawn, Confirmed
<1>6. AirInv'
  <2>1. Air'  BY <1>2, <1>5 DEF StaInv, AirInv, Air
  <2>. QED  BY <1>2, <1>5, <2>1 DEF StaInv, AirInv
<1>7. TptkInv'  BY <1>2 DEF StaInv, TptkInv
<1>. QED  BY <1>2, <1>3, <1>4, <1>6, <1>7 DEF StaInv
-----------------------------------------------------------------------------
\* One step of the system.
LEMMA KeysInductive ==
  ASSUME KeysInv, [Next]_vars
  PROVE  KeysInv'
<1>. USE DEF KeysInv
<1>1. IInv'  BY Inductive
<1>2. CASE UNCHANGED vars
  <2>1. UNCHANGED suppVars /\ UNCHANGED authVars /\ eapol' = eapol
    BY <1>2 DEF vars
  <2>2. ApInv'  BY <2>1, StationSends
  <2>3. au.ANonce \in Nat /\ au' = au  BY <2>1, FramesOf DEF authVars
  <2>4. au'.ANonce \in Nat /\ au.ANonce <= au'.ANonce  BY <2>3
  <2>5. TksInv' /\ PtkInv' /\ GtkInv'
    BY <2>1, <2>4, KeysKept DEF suppVars
  <2>6. AirInv' /\ TptkInv' /\ assoc' \in BOOLEAN
    BY <2>1 DEF StaInv, AirInv, Air, Drawn, Confirmed, TptkInv, suppVars
  <2>. QED  BY <1>1, <2>2, <2>5, <2>6 DEF StaInv
<1>3. CASE NewAssociation
  BY <1>1, <1>3, AssociationSettles, ApStep DEF NewAssociation, AssociationRequested
<1>4. CASE Reassociation
  BY <1>1, <1>4, ReauthSettles, ApStep DEF Reassociation, AssociationRequested
<1>5. CASE AssociationResponse
  <2>1. /\ wpa_sm_clear_ptk /\ assoc' \in BOOLEAN
        /\ UNCHANGED <<authVars, eapol, snonce, tks>>
    BY <1>5 DEF AssociationResponse, wpa_sm_notify_assoc
  <2>. QED  BY <1>1, <2>1, ClearKeys
<1>6. CASE Leave
  <2>1. /\ wpa_sm_clear_ptk /\ assoc' \in BOOLEAN
        /\ UNCHANGED <<authVars, eapol, snonce, tks>>
    BY <1>6 DEF Leave, wpa_sm_notify_disassoc, Disassociated
  <2>. QED  BY <1>1, <2>1, ClearKeys
<1>7. CASE StationReceives
  <2>1. UNCHANGED authVars  BY <1>7 DEF StationReceives
  <2>2. PICK f \in eapol : \/ process_1_of_4(f, FALSE) \/ process_3_of_4(f)
                           \/ process_1_of_2(f) \/ ProcessFailed(f)
    BY <1>7 DEF StationReceives, SuppReceives
  <2>3. CASE process_1_of_4(f, FALSE)
    BY <1>1, <2>1, <2>3, KeysAfter1of4
  <2>4. CASE process_3_of_4(f)
    BY <1>1, <2>1, <2>4, KeysAfter3of4
  <2>5. CASE process_1_of_2(f)
    BY <1>1, <2>1, <2>5, KeysAfter1of2
  <2>6. CASE ProcessFailed(f)
    <3>1. /\ wpa_sm_clear_ptk /\ assoc' \in BOOLEAN
          /\ UNCHANGED <<authVars, eapol, snonce, tks>>
      BY <2>1, <2>6 DEF ProcessFailed, Disassociated
    <3>. QED  BY <1>1, <3>1, ClearKeys
  <2>. QED  BY <2>2, <2>3, <2>4, <2>5, <2>6
<1>8. CASE StationRedraws
  <2>1. PICK f \in eapol : process_1_of_4(f, TRUE)
    BY <1>8 DEF StationRedraws, RedrawsSNonce
  <2>2. UNCHANGED authVars  BY <1>8 DEF StationRedraws
  <2>. QED  BY <1>1, <2>1, <2>2, KeysAfter1of4
<1>9. CASE RequestRekey
  BY <1>1, <1>9, KeysAfterRequest DEF RequestRekey
<1>10. CASE AuthReceives
  <2>1. PICK f \in eapol : wpa_receive(f)  BY <1>10 DEF AuthReceives
  <2>2. UNCHANGED suppVars  BY <1>10 DEF AuthReceives
  <2>3. \E r : Settles(r) /\ Becomes(r)
    BY <2>1, ReceiveSettles DEF StaInv, AirInv
  <2>. QED  BY <1>1, <2>2, <2>3, ApStep
<1>11. CASE Timeout
  BY <1>1, <1>11, TimeoutSettles, ApStep DEF Timeout
<1>12. CASE RekeyPtk
  BY <1>1, <1>12, RekeyPtkSettles, ApStep DEF RekeyPtk
<1>13. CASE RekeyGtk
  BY <1>1, <1>13, RekeyGtkSettles, ApStep DEF RekeyGtk
<1>14. CASE Deauth
  BY <1>1, <1>14, DeauthSettles, ApStep DEF Deauth
<1>15. CASE FreeSta
  BY <1>1, <1>15, FreeSettles, ApStep DEF FreeSta
<1>. QED
  BY <1>2, <1>3, <1>4, <1>5, <1>6, <1>7, <1>8, <1>9, <1>10, <1>11, <1>12,
     <1>13, <1>14, <1>15 DEF Next

\* The system starts in the invariant.
LEMMA KeysInitially ==
  ASSUME Init
  PROVE  KeysInv
<1>1. IInv
  BY DEF Init, SuppInit, IInv, Types, FreshSNonce, FreshTptk, FreshPtk,
         InstalledOnce, PTKs
<1>2. /\ au = Merge([NewSm EXCEPT !.present = FALSE], NewGroup)
      /\ apTks = << >> /\ eapol = {}
  BY DEF Init, AuthInit
<1>3. Recorded(au)  BY <1>2 DEF Recorded, Merge, AuthFields
<1>4. /\ au.present = FALSE /\ au.ptk_state = "INITIALIZE" /\ au.group_state = "IDLE"
      /\ au.PTK_valid = FALSE /\ au.ANonce = 0 /\ au.GTK = 1
      /\ au.key_replay = NoCounters /\ au.timeouts = 0
      /\ au.TimeoutCtr = 0 /\ au.GTimeoutCtr = 0 /\ au.TimeoutEvt = FALSE
      /\ au.Disconnect = FALSE /\ au.DeauthenticationRequest = FALSE
      /\ au.ReAuthenticationRequest = FALSE /\ au.PTKRequest = FALSE
      /\ au.update_snonce = FALSE /\ au.PtkGroupInit = FALSE
      /\ au.GUpdateStationKeys = FALSE /\ au.wpa_group_state = "SETKEYSDONE"
      /\ au.GTKReKey = FALSE /\ au.GKeyDoneStations = 0 /\ au.changed = FALSE
      /\ au.EAPOLKeyReceived = FALSE /\ au.EAPOLKeyPairwise = FALSE
      /\ au.out = {} /\ au.installs = << >>
  BY <1>2 DEF Merge, NewSm, NewGroup
<1>5. AuthTypes(au)
  <2>1. NoCounters[1] \in [counter : Nat, valid : BOOLEAN]
    BY RetriesAssumption DEF NoCounters, Slots
  <2>2. /\ au.ptk_state \in PtkStates /\ au.group_state \in GroupStates
        /\ au.wpa_group_state \in {"SETKEYS", "SETKEYSDONE"}
    BY <1>4 DEF PtkStates, GroupStates
  <2>3. au.EAPOLKeyPairwise \in BOOLEAN /\ au.changed \in BOOLEAN
    BY <1>4
  <2>4. /\ au.TimeoutCtr \in Nat /\ au.GTimeoutCtr \in Nat /\ au.timeouts \in Nat
        /\ au.ANonce \in Nat /\ au.GTK \in Nat
    BY <1>4
  <2>5. au.key_replay[1] \in [counter : Nat, valid : BOOLEAN]
    BY <1>4, <2>1
  <2>. QED  BY <2>2, <2>3, <2>4, <2>5 DEF AuthTypes
<1>6. Counted(au) /\ Absent(au)
  BY <1>4 DEF Counted, Absent, Flagged
<1>7. Waiting(au)
  BY <1>4 DEF Waiting, KeyMessage
<1>8. Rest(au)
  BY <1>4 DEF Rest, PtkRank, StateRank, Flagged, GroupRank, KeyMessage, BssRest
<1>9. Data(au)
  <2>1. KeyInv(au)  BY <1>4 DEF KeyInv
  <2>2. eapol \cup au.out = {}  BY <1>2, <1>4
  <2>3. au.ANonce \in Nat /\ au.ANonce <= au.ANonce  BY <1>4
  <2>4. FrameInv(au, {})
    BY <2>3 DEF FrameInv, FrameTypes, FrameOrder, FrameBound, Recent
  <2>5. InstallInv(au)  BY <1>2, <1>4 DEF InstallInv
  <2>. QED  BY <2>1, <2>2, <2>4, <2>5 DEF Data
<1>10. ApInv
  <2>1. Settles(au)
    BY <1>3, <1>4, <1>5, <1>6, <1>7, <1>8, <1>9 DEF Settles, LoopInv, Control
  <2>2. apTks \in Seq(Pairs) /\ Len(apTks) = 0  BY <1>2
  <2>. QED  BY <1>4, <2>1, <2>2 DEF ApInv
<1>11. StaInv
  <2>1. /\ assoc = FALSE /\ tptk = NULL /\ ptk = NULL /\ tks = << >> /\ gtks = << >>
    BY DEF Init, SuppInit
  <2>2. Len(tks) = 0 /\ Len(gtks) = 0 /\ gtks \in Seq(Nat)  BY <2>1
  <2>3. AirInv  BY <1>2 DEF AirInv, Air, Drawn, Confirmed
  <2>4. TptkInv /\ PtkInv  BY <2>1 DEF TptkInv, PtkInv
  <2>5. TksInv  BY <2>2 DEF TksInv
  <2>6. GtkInv  BY <2>1, <2>2 DEF GtkInv, GtksIncrease
  <2>7. assoc \in BOOLEAN  BY <2>1
  <2>. QED  BY <2>3, <2>4, <2>5, <2>6, <2>7 DEF StaInv
<1>. QED  BY <1>1, <1>10, <1>11 DEF KeysInv

\* The keys of the AP are among those of the station, in the same order.
LEMMA KeysInvAgree ==
  ASSUME KeysInv
  PROVE  KeysAgree
<1>1. \A i \in 1..Len(apTks) : \E j \in 1..Len(tks) : tks[j] = apTks[i]
  BY DEF KeysInv, ApInv, StaInv, AirInv
<1>2. PICK at : at = [i \in 1..Len(apTks) |-> CHOOSE j \in 1..Len(tks) : tks[j] = apTks[i]]
  OBVIOUS
<1>3. at \in [1..Len(apTks) -> 1..Len(tks)]
      /\ \A i \in 1..Len(apTks) : apTks[i] = tks[at[i]]
  BY <1>1, <1>2
<1>4. ASSUME NEW i \in 1..Len(apTks), NEW j \in 1..Len(apTks), i < j
      PROVE  at[i] < at[j]
  <2>1. apTks[i].anonce < apTks[j].anonce
    BY <1>4 DEF KeysInv, ApInv
  <2>2. apTks[i].anonce \in Nat /\ apTks[j].anonce \in Nat
    <3>1. apTks[i] \in Pairs /\ apTks[j] \in Pairs  BY DEF KeysInv, ApInv
    <3>. QED  BY <3>1 DEF Pairs
  <2>3. at[i] \in 1..Len(tks) /\ at[j] \in 1..Len(tks) /\ Len(tks) \in Nat
    BY <1>3 DEF KeysInv, IInv, Types
  <2>4. tks[at[i]] = apTks[i] /\ tks[at[j]] = apTks[j]
    BY <1>3
  <2>5. at[i] # at[j]
    BY <2>1, <2>2, <2>4
  <2>6. ~(at[j] < at[i])
    <3>1. at[j] < at[i] => tks[at[j]].anonce <= tks[at[i]].anonce
      BY <2>3 DEF KeysInv, StaInv, TksInv
    <3>. QED  BY <2>1, <2>2, <2>4, <3>1
  <2>. QED  BY <2>3, <2>5, <2>6
<1>. QED  BY <1>3, <1>4 DEF KeysAgree

\* The invariant holds for every number of associations, handshakes, timeouts,
\* group rekeyings and frames lost, repeated and delayed.
THEOREM KeysInvariance == Spec => []KeysInv
<1>1. Init => KeysInv  BY KeysInitially
<1>2. KeysInv /\ [Next]_vars => KeysInv'  BY KeysInductive
<1>. QED  BY <1>1, <1>2, PTL DEF Spec

\* Between two events wpa_sm_step() leaves the machines of the AP in states
\* they rest in.
THEOREM RestingStates == Spec => []TypeOK
<1>1. KeysInv => TypeOK
  <2>1. SUFFICES ASSUME KeysInv  PROVE TypeOK  OBVIOUS
  <2>2. Settles(au)  BY <2>1 DEF KeysInv, ApInv
  <2>3. /\ au.ptk_state \in {"INITIALIZE", "PTKINITDONE", "PTKSTART",
                             "PTKCALCNEGOTIATING", "PTKINITNEGOTIATING"}
        /\ au.group_state \in {"IDLE", "REKEYNEGOTIATING"}
    BY <2>2, AtRest
  <2>4. au.wpa_group_state \in {"SETKEYS", "SETKEYSDONE"} /\ au.timeouts \in Nat
    BY <2>2 DEF Settles, LoopInv, Control, AuthTypes
  <2>5. au.GKeyDoneStations \in Nat
    BY <2>2 DEF Settles, LoopInv, Control, Counted
  <2>6. snonce \in Nat /\ assoc \in BOOLEAN
    BY <2>1 DEF KeysInv, IInv, Types, StaInv
  <2>. QED  BY <2>3, <2>4, <2>5, <2>6 DEF TypeOK
<1>. QED  BY <1>1, KeysInvariance, PTL

\* The AP protects traffic only with pairwise keys that the station has
\* installed, and takes them up in the station's order (wpa_receive(),
\* wpa_try_alt_snonce(), wpa_supplicant_install_ptk()).
THEOREM KeysAgreeAlways == Spec => []KeysAgree
<1>1. KeysInv => KeysAgree  BY KeysInvAgree
<1>. QED  BY <1>1, KeysInvariance, PTL

\* Within an association the station only moves to newer GTKs
\* (wpa_supplicant_install_gtk()).
THEOREM GtksIncreaseAlways == Spec => []GtksIncrease
<1>1. KeysInv => GtksIncrease  BY DEF KeysInv, StaInv, GtkInv
<1>. QED  BY <1>1, KeysInvariance, PTL

\* A group rekeying waits for exactly the stations that are marked
\* (wpa_gkeydone_sta(), wpa_group_update_sta()).
THEOREM Counts == Spec => []GKeyDoneCounts
<1>1. KeysInv => GKeyDoneCounts
  BY DEF KeysInv, ApInv, Settles, LoopInv, Control, Counted, GKeyDoneCounts
<1>. QED  BY <1>1, KeysInvariance, PTL

\* The loop of wpa_sm_step() ends, within 13 passes.
THEOREM LoopSettles == Spec => []Settled
<1>1. KeysInv => Settled
  BY DEF KeysInv, ApInv, Settles, Settled
<1>. QED  BY <1>1, KeysInvariance, PTL
==============================================================================
