--------------------------- MODULE SaeCommitQueue ---------------------------
(***************************************************************************)
(* The queue through which hostapd handles SAE Commit frames, and the      *)
(* anti-clogging decision taken when a frame leaves it                     *)
(* (hostap/src/ap/ieee802_11.c, infrastructure BSS).                       *)
(*                                                                         *)
(* A Commit (transaction 1) is always queued.  A Confirm (transaction 2)   *)
(* is queued only while some frame of its sender is queued, otherwise it   *)
(* is handled at once.  One eloop timeout drains the queue, one frame per  *)
(* expiry.  A new frame replaces, in place, a queued one of the same       *)
(* station and transaction.                                                *)
(*                                                                         *)
(* The outcome of handling a frame is abstracted to what the queue and the *)
(* anti-clogging test see: the SAE state of the station and its group.     *)
(* Module SaeAp has the handler in full.                                   *)
(***************************************************************************)
EXTENDS Naturals, Sequences, FiniteSets

CONSTANTS
  Stations,      \* station addresses
  QueueMax,      \* frames the queue holds (15 in the code)
  Threshold,     \* anti_clogging_threshold (5 by default)
  MaxAttempt,    \* bound: authentication attempts per station
  Groups,        \* numbers of the groups that are allowed
  GroupOf        \* the group a station uses in each of its attempts (0: it
                 \* does not make this attempt)

ASSUME StationsAssumption   == IsFiniteSet(Stations)
ASSUME QueueMaxAssumption   == QueueMax \in Nat \ {0}
ASSUME ThresholdAssumption  == Threshold \in Nat
ASSUME MaxAttemptAssumption == MaxAttempt \in Nat \ {0}
ASSUME GroupAssumption ==
  GroupOf \in [Stations -> [1..MaxAttempt -> Groups \cup {0}]]

VARIABLES
  queue,      \* hapd->sae_commit_queue, head first
  timer,      \* the auth_sae_process_commit timeout is registered
  session,    \* sta->sae->state of each station ("none": no sta->sae)
  group,      \* sta->sae->group (0: none yet)
  accepted,   \* the attempt whose scalar is peer_commit_scalar_accepted
  asked,      \* a comeback token is outstanding for the station
  tokenless,  \* history: stations whose last open session began without token
  client,     \* each station's attempt and what it is doing
  reply       \* an AP Commit is on its way to the station

handlerVars == <<session, group, accepted, asked, tokenless, reply>>
vars == <<queue, timer, session, group, accepted, asked, tokenless, client, reply>>

Commit  == 1
Confirm == 2
Attempt == 1..MaxAttempt
Frame   == [sa : Stations, trans : {Commit, Confirm}, att : Attempt,
            tok : BOOLEAN]
-----------------------------------------------------------------------------
(***************************************************************************)
(* The queue.                                                              *)
(***************************************************************************)
auth_sae_queued_addr(sa) == \E i \in DOMAIN queue : queue[i].sa = sa

SameSlot(f, g) == f.sa = g.sa /\ f.trans = g.trans

Slots(f) == {i \in DOMAIN queue : SameSlot(queue[i], f)}

\* Faulty: a repeated frame is not recognised.
QueuedTwice(f) == Append(queue, f)

\* Faulty: the old entry is unlinked and the new one added at the end.
QueuedAtTail(f) ==
  LET other(h) == ~SameSlot(h, f) IN Append(SelectSeq(queue, other), f)

\* The queue with f in it: in the place of the entry with f's station and
\* transaction if there is one (never two: OneSlotPerTransaction), else last.
Queued(f) ==
  IF Slots(f) # {} THEN [queue EXCEPT ![CHOOSE i \in Slots(f) : TRUE] = f]
                   ELSE Append(queue, f)

\* Faulty: the length test is off by one.
auth_sae_queue_16(f) ==
  \/ /\ Len(queue) > QueueMax
     /\ UNCHANGED <<queue, timer>>
  \/ /\ Len(queue) <= QueueMax
     /\ queue' = Queued(f)
     /\ timer' = TRUE

\* The length is tested before the search for an entry to replace: a full
\* queue refuses even a frame that would only take the place of an old one.
auth_sae_queue(f) ==
  \/ /\ Len(queue) >= QueueMax
     /\ UNCHANGED <<queue, timer>>
  \/ /\ Len(queue) < QueueMax
     /\ queue' = Queued(f)
     /\ timer' = TRUE
-----------------------------------------------------------------------------
(***************************************************************************)
(* The handler, as far as sessions and tokens go.                          *)
(***************************************************************************)
Open == {s \in Stations : session[s] \in {"committed", "confirmed"}}

\* The Commit f has the group of the session.
SameGroup(f) == group[f.sa] = GroupOf[f.sa][f.att]

\* The state of the session once the Commit f has been parsed.  Committed is
\* reset by the handler.  A new group, also one in Confirmed or Accepted, makes
\* sae_set_group() clear all data and with them the state.
Prepared(f) ==
  IF session[f.sa] \in {"confirmed", "accepted"} /\ SameGroup(f)
  THEN session[f.sa] ELSE "nothing"

\* The open sessions when a Commit f has been parsed.
OpenAt(f) == {s \in Open : s = f.sa => Prepared(f) = "confirmed"}

\* Faulty: open sessions may exceed the threshold by one.
use_anti_clogging_late(f, waiting) ==
  \/ Threshold = 0
  \/ Cardinality(OpenAt(f)) + Len(waiting) > Threshold

\* The frame being handled has left the queue, which is `waiting' by then.
use_anti_clogging(f, waiting) ==
  \/ Threshold = 0
  \/ Cardinality(OpenAt(f)) >= Threshold
  \/ Cardinality(OpenAt(f)) + Len(waiting) >= Threshold

\* Only a Committed session with the group of the Commit is reused.
allow_reuse(f) ==
  session[f.sa] = "committed" /\ SameGroup(f)

\* What every Commit does that is not discarded: the parser takes its group.
Parsed(f) ==
  /\ group'    = [group EXCEPT ![f.sa] = GroupOf[f.sa][f.att]]
  /\ accepted' = [accepted EXCEPT ![f.sa] = IF SameGroup(f) THEN @ ELSE 0]

Drop(f) ==
  /\ Parsed(f)
  /\ session' = [session EXCEPT ![f.sa] = Prepared(f)]
  /\ UNCHANGED <<tokenless, reply>>

\* Commit for an instance that sae_check_big_sync() has disabled for ten
\* seconds.  (Time and the count of repetitions are left open.)
Disabled(f) == session[f.sa] = "nothing" /\ UNCHANGED handlerVars

\* Commit with a token that does not verify: wrong, used, or overwritten by
\* the token of a station that shares its entry in the table of pending ones.
BadToken(f) ==
  /\ f.tok
  /\ \E still \in BOOLEAN : asked' = [asked EXCEPT ![f.sa] = @ /\ still]
  /\ Drop(f)

Fresh(f) == ~(Prepared(f) = "accepted" /\ accepted[f.sa] = f.att)

\* Commit refused by the parser: the scalar of the accepted session again.
Replayed(f) ==
  /\ ~Fresh(f)
  /\ f.tok => asked[f.sa]
  /\ asked' = [asked EXCEPT ![f.sa] = @ /\ ~f.tok]
  /\ Drop(f)

\* A session in Confirmed, or with another group, can be asked as well.
AskForToken(f, waiting) ==
  /\ Fresh(f) /\ ~f.tok /\ ~allow_reuse(f) /\ use_anti_clogging(f, waiting)
  /\ asked' = [asked EXCEPT ![f.sa] = TRUE]
  /\ Drop(f)

\* The states to which sae_sm_step() goes when it answers a Commit.  From
\* Nothing it goes on to Confirmed with sae_confirm_immediate.
Answered ==
  [nothing |-> {"committed", "confirmed"}, confirmed |-> {"confirmed"},
   accepted |-> {"committed"}]

\* Commit that reaches sae_sm_step().  It may still fail there (nothing to
\* send, or the driver refuses to send it), leaving the state as prepared;
\* too many of them in Confirmed end the session (sae_check_big_sync()).
Answer(f, waiting) ==
  LET s == f.sa
      goesOn == allow_reuse(f) \/ Prepared(f) = "confirmed"
  IN
  /\ Fresh(f)
  /\ f.tok => asked[s]
  /\ f.tok \/ allow_reuse(f) \/ ~use_anti_clogging(f, waiting)
  /\ Parsed(f)
  /\ asked' = [asked EXCEPT ![s] = @ /\ ~f.tok]
  /\ \/ /\ \E state \in Answered[Prepared(f)] :
             session' = [session EXCEPT ![s] = state]
        /\ tokenless' = IF goesOn THEN tokenless
                        ELSE IF f.tok THEN tokenless \ {s}
                        ELSE tokenless \cup {s}
        /\ reply'     = [reply EXCEPT ![s] = TRUE]
     \/ /\ session' = [session EXCEPT ![s] = Prepared(f)]
        /\ UNCHANGED <<tokenless, reply>>
     \/ /\ Prepared(f) = "confirmed"
        /\ session' = [session EXCEPT ![s] = "nothing"]
        /\ UNCHANGED <<tokenless, reply>>

\* A Confirm that verifies moves an open session to Accepted, or no further
\* than Confirmed if sae_accept_sta() cannot assign the VLAN; whether it
\* verifies is the subject of DecoyAuth and left open here.
HandleConfirm(f) ==
  /\ \/ /\ f.sa \in Open
        /\ session'  = [session EXCEPT ![f.sa] = "accepted"]
        /\ accepted' = [accepted EXCEPT ![f.sa] = f.att]
     \/ /\ session[f.sa] = "committed"
        /\ session' = [session EXCEPT ![f.sa] = "confirmed"]
        /\ UNCHANGED accepted
     \/ UNCHANGED <<session, accepted>>
  /\ UNCHANGED <<group, asked, tokenless, reply>>

\* One frame through handle_auth_sae(), `waiting' being the rest of the queue.
handle_auth_sae(f, waiting) ==
  \/ f.trans = Commit /\ Disabled(f)
  \/ f.trans = Commit /\ BadToken(f)
  \/ f.trans = Commit /\ Replayed(f)
  \/ f.trans = Commit /\ AskForToken(f, waiting)
  \/ f.trans = Commit /\ Answer(f, waiting)
  \/ f.trans = Confirm /\ HandleConfirm(f)

\* The timeout expires with nothing queued.
ProcessEmpty ==
  /\ timer /\ queue = << >>
  /\ timer' = FALSE
  /\ UNCHANGED <<queue, handlerVars, client>>

\* Faulty: the timeout is not registered again after a frame.
ProcessHeadOnce ==
  /\ timer /\ queue # << >>
  /\ queue' = Tail(queue)
  /\ timer' = FALSE
  /\ handle_auth_sae(Head(queue), Tail(queue))
  /\ UNCHANGED client

\* Faulty: a Commit waits in the queue for the end of an open session.
ProcessHeadLater ==
  /\ timer /\ queue # << >>
  /\ Head(queue).trans = Commit => Head(queue).sa \notin Open
  /\ queue' = Tail(queue)
  /\ timer' = TRUE
  /\ handle_auth_sae(Head(queue), Tail(queue))
  /\ UNCHANGED client

\* The timeout expires: the head is taken off and handled, and the timeout is
\* registered again, even when the queue has become empty.
ProcessHead ==
  /\ timer /\ queue # << >>
  /\ queue' = Tail(queue)
  /\ timer' = TRUE
  /\ handle_auth_sae(Head(queue), Tail(queue))
  /\ UNCHANGED client

auth_sae_process_commit == ProcessEmpty \/ ProcessHead

\* A received authentication frame: queued, or a Confirm handled at once.
handle_auth(f) ==
  \/ /\ f.trans = Commit \/ auth_sae_queued_addr(f.sa)
     /\ auth_sae_queue(f)
     /\ UNCHANGED handlerVars
  \/ /\ f.trans = Confirm /\ ~auth_sae_queued_addr(f.sa)
     /\ handle_auth_sae(f, queue)
     /\ UNCHANGED <<queue, timer>>
-----------------------------------------------------------------------------
(***************************************************************************)
(* The stations.  A station starts attempts, repeats the Commit of the     *)
(* current one while it waits for the AP's Commit (with the token once it  *)
(* was asked for one), and answers whichever AP Commit reaches it first:   *)
(* nothing in that frame says which of its Commits it answers.             *)
(***************************************************************************)
RxCommit(s, att, tok) ==
  /\ \/ att = client[s].att + 1 /\ ~tok
     \/ att = client[s].att /\ client[s].phase = "committed"
  /\ GroupOf[s][att] # 0
  /\ tok => asked[s]
  /\ client' = [client EXCEPT ![s] = [att |-> att, phase |-> "committed"]]
  /\ handle_auth([sa |-> s, trans |-> Commit, att |-> att, tok |-> tok])

GetReply(s) ==
  /\ reply[s] /\ client[s].phase = "committed"
  /\ client' = [client EXCEPT ![s].phase = "answering"]
  /\ reply'  = [reply EXCEPT ![s] = FALSE]
  /\ UNCHANGED <<queue, timer, session, group, accepted, asked, tokenless>>

RxConfirm(s) ==
  /\ client[s].phase = "answering"
  /\ client' = [client EXCEPT ![s].phase = "confirmed"]
  /\ handle_auth([sa |-> s, trans |-> Confirm, att |-> client[s].att,
                  tok |-> FALSE])

\* The station's entry is removed (deauthentication, inactivity); what it has
\* in the queue stays there.
ap_free_sta(s) ==
  /\ session[s] # "none"
  /\ session'  = [session EXCEPT ![s] = "none"]
  /\ group'    = [group EXCEPT ![s] = 0]
  /\ accepted' = [accepted EXCEPT ![s] = 0]
  /\ UNCHANGED <<queue, timer, asked, tokenless, client, reply>>
-----------------------------------------------------------------------------
Init ==
  /\ queue     = << >>
  /\ timer     = FALSE
  /\ session   = [s \in Stations |-> "none"]
  /\ group     = [s \in Stations |-> 0]
  /\ accepted  = [s \in Stations |-> 0]
  /\ asked     = [s \in Stations |-> FALSE]
  /\ tokenless = {}
  /\ client    = [s \in Stations |-> [att |-> 0, phase |-> "idle"]]
  /\ reply     = [s \in Stations |-> FALSE]

Next ==
  \/ auth_sae_process_commit
  \/ \E s \in Stations :
       \/ \E att \in Attempt, tok \in BOOLEAN : RxCommit(s, att, tok)
       \/ GetReply(s)
       \/ RxConfirm(s)
       \/ ap_free_sta(s)

\* eloop runs a registered timeout once it is due; nothing is assumed of the
\* stations.
Spec == Init /\ [][Next]_vars /\ WF_vars(auth_sae_process_commit)
-----------------------------------------------------------------------------
(***************************************************************************)
(* Properties.                                                             *)
(***************************************************************************)
\* The queue, the handler's view of each station and the stations are well
\* formed, and the queue stays within the 15 entries auth_sae_queue() allows.
TypeOK ==
  /\ queue \in Seq(Frame) /\ Len(queue) <= QueueMax
  /\ timer \in BOOLEAN
  /\ session   \in [Stations -> {"none", "nothing", "committed", "confirmed",
                                  "accepted"}]
  /\ group     \in [Stations -> Groups \cup {0}]
  /\ accepted  \in [Stations -> 0..MaxAttempt]
  /\ asked     \in [Stations -> BOOLEAN]
  /\ tokenless \in SUBSET Stations
  /\ client    \in [Stations -> [att : 0..MaxAttempt,
                     phase : {"idle", "committed", "answering", "confirmed"}]]
  /\ reply     \in [Stations -> BOOLEAN]

\* auth_sae_queue() replaces, so no station ever holds two entries with the
\* same transaction number: one station occupies at most two of the entries,
\* and a retry storm cannot push other stations out.
OneSlotPerTransaction ==
  \A i, j \in DOMAIN queue : SameSlot(queue[i], queue[j]) => i = j

\* A queued frame always has a registered timeout that will take it off: the
\* re-registration in auth_sae_process_commit() and the one in
\* auth_sae_queue() leave no interleaving in which a frame is forgotten.
NoLostWakeup == queue # << >> => timer

\* Sessions opened without a token never exceed anti_clogging_threshold,
\* however retries, changes of group, reauthentications, removals and the
\* queue interleave.
TokenlessOpenBounded == Cardinality(Open \cap tokenless) <= Threshold

\* A queued frame of one station never moves back: a later frame of any
\* station, or a replacement, never makes it wait longer.
KeepsPlace ==
  [][\A i \in DOMAIN queue :
       \/ \E j \in DOMAIN queue' : j <= i /\ SameSlot(queue'[j], queue[i])
       \/ i = 1 /\ queue' = Tail(queue)]_vars

Waiting(s, t) == \E i \in DOMAIN queue : queue[i].sa = s /\ queue[i].trans = t

\* Every queued frame is handled, even if its station and all the others keep
\* sending: the station's slot becomes free again only by its handling.
EveryFrameServed ==
  \A s \in Stations, t \in {Commit, Confirm} : []<>~Waiting(s, t)
=============================================================================
