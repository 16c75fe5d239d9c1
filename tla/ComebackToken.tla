---------------------------- MODULE ComebackToken ----------------------------
(***************************************************************************)
(* The anti-clogging tokens of hostapd (hostap/src/ap/comeback_token.c)    *)
(* under load: every station that comes without a token is given one and   *)
(* has to come back with it.  SAE and PASN share the key and the table of  *)
(* pending indices, but only SAE keeps a note of when the key was updated: *)
(* PASN's is in its session, which ends with the request for a token.      *)
(*                                                                         *)
(* A token is an HMAC under the key over the station's address and an      *)
(* index, known by its arguments.  The entry of the table a station uses   *)
(* is a hash under the key as well, so a new key may put any stations      *)
(* together.                                                               *)
(***************************************************************************)
EXTENDS Integers, FiniteSets

CONSTANTS
  NULL,
  Sae,          \* stations that use SAE
  Pasn,         \* stations that use PASN
  Slot,         \* entries of comeback_pending_idx (256 in the code)
  Key,          \* the values of the key
  KeyLifetime,  \* 60 seconds
  MaxNow,       \* bound on the clock
  Configs       \* the stations there are, and a bound on events: connections
                \* begun again and repeated frames

Sta == Sae \cup Pasn

ASSUME TokenAssumption ==
  /\ NULL \notin Key \cup Nat /\ Slot # {}
  /\ KeyLifetime \in Nat /\ MaxNow \in Nat
  /\ \A c \in Configs : c.sta \subseteq Sta /\ c.events \in Nat

VARIABLES
  conf,                  \* which of the configurations it is
  now,                   \* os_get_reltime()
  comeback_key,          \* NULL until the first one is drawn
  slot,                  \* comeback_token_hash() under this key
  last_update,           \* hapd->last_comeback_key_update, NULL while zero
  comeback_pending_idx,
  token,                 \* the token a station holds, or NULL
  through,               \* stations that were let through
  frame,                 \* the token a station presented last: its frame may be
                         \* received again
  events,
  credit,                \* history: tokens given out minus tokens accepted, per
                         \* entry, where giving out another one adds nothing
  spent                  \* history: stations in whose entry a token was accepted
                         \* since they were given theirs

apVars == <<comeback_key, slot, last_update, comeback_pending_idx>>
vars   == <<conf, now, apVars, token, through, frame, events, credit, spent>>

Init ==
  /\ conf \in Configs /\ now = 0
  /\ comeback_key = NULL
  /\ slot = [s \in Sta |-> CHOOSE i \in Slot : TRUE]
  /\ last_update = NULL
  /\ comeback_pending_idx = [i \in Slot |-> 0]
  /\ token = [s \in Sta |-> NULL]
  /\ frame = [s \in Sta |-> NULL]
  /\ through = {} /\ events = 0
  /\ credit = [i \in Slot |-> 0] /\ spent = {}
-----------------------------------------------------------------------------
\* hapd->comeback_idx is passed by value and never assigned.
comeback_idx == 0

\* The key is too old by the caller's note of its last update, or there is
\* no such note.  A new PASN session has none.
Renew(s) ==
  s \notin Pasn /\ last_update # NULL => now - last_update > KeyLifetime

\* A random key is none that was used before; one that no token was made with
\* can take its place.
InUse ==
  {comeback_key} \cup {token[s].key : s \in {u \in Sta : token[u] # NULL}}
                 \cup {frame[s].key : s \in {u \in Sta : frame[u] # NULL}}

RandomKey == CHOOSE k \in Key : k \notin InUse

\* Faulty: the time of the update is not kept.
NewKeyForgotten(s) ==
  /\ Key \ InUse # {}
  /\ comeback_key' = RandomKey
  /\ slot' \in [Sta -> Slot]
  /\ UNCHANGED last_update

\* A random key, which changes every station's entry.
NewKey(s) ==
  /\ Key \ InUse # {}
  /\ comeback_key' = RandomKey
  /\ slot' \in [Sta -> Slot]
  /\ last_update' = IF s \in Pasn THEN last_update ELSE now

\* Faulty: the index is not advanced.
TokenIdxKept(pending) == IF pending = 0 THEN comeback_idx ELSE pending

\* The index in the station's entry, or a new one if there is none.
TokenIdx(pending) == IF pending = 0 THEN comeback_idx + 1 ELSE pending

\* Gives s a token; table, given and used are the entries, the credit and the
\* stations in spent before that.
Issue(s, table, given, used) ==
  LET i   == slot'[s]
      idx == TokenIdx(table[i])
  IN /\ comeback_pending_idx' = [table EXCEPT ![i] = idx]
     /\ token' = [token EXCEPT ![s] = [key |-> comeback_key', idx |-> idx]]
     /\ credit' = [given EXCEPT ![i] = 1]
     /\ spent' = used \ {s}

auth_build_token_req(s) ==
  \/ /\ Renew(s)
     /\ NewKey(s)
     /\ Issue(s, [i \in Slot |-> 0], [i \in Slot |-> 0], {})
  \/ /\ ~Renew(s)
     /\ UNCHANGED <<comeback_key, slot, last_update>>
     /\ Issue(s, comeback_pending_idx, credit, spent)

\* handle_auth_sae() and handle_auth_pasn() for a frame without a token; the
\* latter frees the session at once.
Request(s) ==
  /\ s \notin through /\ token[s] = NULL
  /\ auth_build_token_req(s)
  /\ UNCHANGED <<conf, now, through, frame, events>>
-----------------------------------------------------------------------------
\* The index is the pending one, and the MAC is right.
Valid(s, t) ==
  /\ comeback_pending_idx[slot[s]] # 0
  /\ comeback_pending_idx[slot[s]] = t.idx
  /\ t.key = comeback_key

\* Faulty: the entry is cleared before the MAC is checked.
InvalidatedFirst(s, t) ==
  comeback_pending_idx' =
    IF comeback_pending_idx[slot[s]] = t.idx
    THEN [comeback_pending_idx EXCEPT ![slot[s]] = 0] ELSE comeback_pending_idx

\* Faulty: the used token stays pending.
NotInvalidated(s, t) == UNCHANGED comeback_pending_idx

Invalidated(s, t) ==
  comeback_pending_idx' =
    IF Valid(s, t) THEN [comeback_pending_idx EXCEPT ![slot[s]] = 0]
    ELSE comeback_pending_idx

check_comeback_token(s, t) ==
  /\ Invalidated(s, t)
  /\ credit' = IF Valid(s, t) THEN [credit EXCEPT ![slot[s]] = @ - 1] ELSE credit
  /\ spent' = IF Valid(s, t) THEN spent \cup {u \in Sta : slot[u] = slot[s]}
              ELSE spent
  /\ UNCHANGED <<comeback_key, slot, last_update>>

\* The station comes back.  A wrong token ends the attempt.
Present(s) ==
  /\ token[s] # NULL
  /\ check_comeback_token(s, token[s])
  /\ through' = IF Valid(s, token[s]) THEN through \cup {s} ELSE through
  /\ frame' = [frame EXCEPT ![s] = token[s]]
  /\ token' = [token EXCEPT ![s] = NULL]
  /\ UNCHANGED <<conf, now, events>>
-----------------------------------------------------------------------------
Event == events < conf.events /\ events' = events + 1

\* A frame with a token is received again.
Repeat(s) ==
  /\ Event
  /\ frame[s] # NULL
  /\ check_comeback_token(s, frame[s])
  /\ UNCHANGED <<conf, now, token, through, frame>>

\* A station connects again, or has not heard of its token.
StartOver(s) ==
  /\ Event
  /\ s \in through \/ token[s] # NULL
  /\ through' = through \ {s}
  /\ token' = [token EXCEPT ![s] = NULL]
  /\ UNCHANGED <<conf, now, apVars, frame, credit, spent>>

Tick ==
  /\ now < MaxNow /\ now' = now + 1
  /\ UNCHANGED <<conf, apVars, token, through, frame, events, credit, spent>>

Next ==
  \/ \E s \in conf.sta : Request(s) \/ Present(s) \/ StartOver(s) \/ Repeat(s)
  \/ Tick

Spec == Init /\ [][Next]_vars

\* Stations keep trying.
FairSpec ==
  Spec /\ \A s \in Sta : /\ WF_vars(s \in conf.sta /\ Request(s))
                         /\ WF_vars(s \in conf.sta /\ Present(s))
-----------------------------------------------------------------------------
\* The largest u16.
MaxIdx == 65535

\* An entry of the table; 0 means that no index is pending.
U16 == 0..MaxIdx
Idx == 1..MaxIdx

Token == [key : Key, idx : Idx]

\* The types of the AP's data and of the tokens.
TypeOK ==
  /\ conf \in Configs
  /\ now \in Nat /\ comeback_key \in Key \cup {NULL}
  /\ slot \in [Sta -> Slot]
  /\ last_update \in Nat \cup {NULL}
  /\ comeback_pending_idx \in [Slot -> U16]
  /\ token \in [Sta -> Token \cup {NULL}] /\ frame \in [Sta -> Token \cup {NULL}]
  /\ through \subseteq Sta
  /\ credit \in [Slot -> Int] /\ spent \subseteq Sta

\* Between any two frames let through on a token of one entry of the table, a
\* station of that entry was made to come back: repeated frames, changes of
\* the key and stations that share the entry never let more frames through
\* than were held up.
PaidFor == \A i \in Slot : credit[i] >= 0

\* A token is good until the key changes or a token of the same entry is
\* used: no other station's request, wrong token or repeated frame makes
\* check_comeback_token() refuse it.
Honoured ==
  \A s \in Sta :
    token[s] # NULL /\ token[s].key = comeback_key /\ s \notin spent
      => Valid(s, token[s])

\* Every station gets through in the end, although stations of one entry use
\* up each other's tokens and a PASN station takes away everyone's; two PASN
\* stations can do that to each other for ever.
EveryoneThrough ==
  Cardinality(conf.sta \cap Pasn) <= 1
    => \A s \in Sta : []<>(s \in conf.sta => s \in through)
=============================================================================
