------------------------ MODULE SaeCommitQueueProofs ------------------------
(***************************************************************************)
(* Proofs about SaeCommitQueue for every set of stations, queue length,    *)
(* threshold and number of attempts.                                       *)
(***************************************************************************)
EXTENDS SaeCommitQueue, FiniteSetTheorems, TLAPS

(***************************************************************************)
(* The queue after a frame was put into it.                                *)
(***************************************************************************)
\* The entry that auth_sae_queue() replaces is an entry of f's slot.
LEMMA SlotChosen ==
  ASSUME NEW f, Slots(f) # {}
  PROVE  (CHOOSE i \in Slots(f) : TRUE) \in Slots(f)
BY DEF Slots

\* auth_sae_queue() yields a queue of frames no longer than allowed, not empty.
LEMMA QueuedType ==
  ASSUME TypeOK, NEW f \in Frame, Len(queue) < QueueMax
  PROVE  /\ Queued(f) \in Seq(Frame) /\ Len(Queued(f)) <= QueueMax
         /\ Queued(f) # << >>
<1> DEFINE k == CHOOSE i \in Slots(f) : TRUE
<1>0. queue \in Seq(Frame) /\ Len(queue) \in Nat /\ QueueMax \in Nat
  BY QueueMaxAssumption DEF TypeOK
<1>1. CASE Slots(f) # {}
  <2>1. k \in 1..Len(queue)
    BY <1>0, <1>1, SlotChosen DEF Slots
  <2>2. Queued(f) = [queue EXCEPT ![k] = f]
    BY <1>1 DEF Queued
  <2>3. Queued(f) \in Seq(Frame) /\ Len(Queued(f)) = Len(queue)
    BY <1>0, <2>1, <2>2
  <2> QED BY <1>0, <2>1, <2>3
<1>2. CASE Slots(f) = {}
  <2>1. Queued(f) = Append(queue, f)
    BY <1>2 DEF Queued
  <2>2. Queued(f) \in Seq(Frame) /\ Len(Queued(f)) = Len(queue) + 1
    BY <1>0, <2>1
  <2> QED BY <1>0, <2>2
<1> QED BY <1>1, <1>2

\* Putting a frame into the queue keeps one entry per station and transaction.
LEMMA QueuedOneSlot ==
  ASSUME TypeOK, OneSlotPerTransaction, NEW f \in Frame
  PROVE  \A i, j \in DOMAIN Queued(f) :
           SameSlot(Queued(f)[i], Queued(f)[j]) => i = j
<1> DEFINE k == CHOOSE i \in Slots(f) : TRUE
<1>0. queue \in Seq(Frame) BY DEF TypeOK
<1>1. CASE Slots(f) # {}
  <2>1. k \in DOMAIN queue /\ SameSlot(queue[k], f)
    BY <1>1, SlotChosen DEF Slots
  <2>2. Queued(f) = [queue EXCEPT ![k] = f]
    BY <1>1 DEF Queued
  <2>3. DOMAIN Queued(f) = DOMAIN queue
    BY <2>2
  <2>4. \A i \in DOMAIN queue : Queued(f)[i] = IF i = k THEN f ELSE queue[i]
    BY <2>1, <2>2, <1>0
  <2> QED BY <2>1, <2>3, <2>4 DEF OneSlotPerTransaction, SameSlot
<1>2. CASE Slots(f) = {}
  <2>1. Queued(f) = Append(queue, f)
    BY <1>2 DEF Queued
  <2>2. /\ DOMAIN Queued(f) = 1..(Len(queue) + 1) /\ DOMAIN queue = 1..Len(queue)
        /\ Len(queue) \in Nat
        /\ Queued(f)[Len(queue) + 1] = f
        /\ \A i \in 1..Len(queue) : Queued(f)[i] = queue[i]
    BY <1>0, <2>1
  <2>3. \A i \in 1..Len(queue) : ~SameSlot(queue[i], f)
    BY <1>2, <2>2 DEF Slots
  <2> QED BY <2>2, <2>3 DEF OneSlotPerTransaction, SameSlot
<1> QED BY <1>1, <1>2

\* Taking the head off the queue keeps its type and one entry per slot.
LEMMA TailOneSlot ==
  ASSUME TypeOK, OneSlotPerTransaction, queue # << >>
  PROVE  /\ Head(queue) \in Frame
         /\ Tail(queue) \in Seq(Frame) /\ Len(Tail(queue)) <= QueueMax
         /\ \A i, j \in DOMAIN Tail(queue) :
              SameSlot(Tail(queue)[i], Tail(queue)[j]) => i = j
<1>1. queue \in Seq(Frame) /\ Len(queue) \in Nat /\ QueueMax \in Nat
  BY QueueMaxAssumption DEF TypeOK
<1>2. /\ Head(queue) \in Frame /\ Tail(queue) \in Seq(Frame)
      /\ Len(Tail(queue)) = Len(queue) - 1
      /\ \A i \in 1..Len(Tail(queue)) : Tail(queue)[i] = queue[i + 1]
  BY <1>1
<1>3. DOMAIN Tail(queue) = 1..Len(Tail(queue)) /\ DOMAIN queue = 1..Len(queue)
  BY <1>1, <1>2
<1>4. \A i \in DOMAIN Tail(queue) : i + 1 \in DOMAIN queue
  BY <1>1, <1>2, <1>3
<1>5. ASSUME NEW i \in DOMAIN Tail(queue), NEW j \in DOMAIN Tail(queue),
             SameSlot(Tail(queue)[i], Tail(queue)[j])
      PROVE  i = j
  <2>1. i + 1 = j + 1
    BY <1>2, <1>3, <1>4, <1>5 DEF OneSlotPerTransaction
  <2> QED BY <2>1, <1>3
<1> QED BY <1>1, <1>2, <1>5 DEF TypeOK
-----------------------------------------------------------------------------
(***************************************************************************)
(* What handling a frame and receiving one do.                             *)
(***************************************************************************)
\* The part of TypeOK about the variables handle_auth_sae() writes.
HandlerTypeOK ==
  /\ session   \in [Stations -> {"none", "nothing", "committed", "confirmed",
                                  "accepted"}]
  /\ group     \in [Stations -> Groups \cup {0}]
  /\ accepted  \in [Stations -> 0..MaxAttempt]
  /\ asked     \in [Stations -> BOOLEAN]
  /\ tokenless \in SUBSET Stations
  /\ reply     \in [Stations -> BOOLEAN]

\* handle_auth_sae() keeps its variables within their types.
LEMMA HandlerType ==
  ASSUME TypeOK, NEW f \in Frame, NEW waiting, handle_auth_sae(f, waiting)
  PROVE  HandlerTypeOK'
<1>1. /\ f.sa \in Stations /\ f.att \in Attempt /\ f.tok \in BOOLEAN
      /\ Attempt \subseteq 0..MaxAttempt
  BY MaxAttemptAssumption DEF Frame, Attempt
<1>2. ASSUME Parsed(f)
      PROVE  /\ group' \in [Stations -> Groups \cup {0}]
             /\ accepted' \in [Stations -> 0..MaxAttempt]
  <2>1. GroupOf[f.sa][f.att] \in Groups \cup {0}
    BY <1>1, GroupAssumption DEF Attempt
  <2>2. 0 \in 0..MaxAttempt
    BY MaxAttemptAssumption
  <2> QED BY <1>1, <1>2, <2>1, <2>2 DEF Parsed, TypeOK
<1>3. ASSUME Drop(f), asked' \in [Stations -> BOOLEAN]
      PROVE  HandlerTypeOK'
  BY <1>1, <1>2, <1>3 DEF TypeOK, HandlerTypeOK, Drop, Prepared
<1>4. CASE BadToken(f)
  BY <1>1, <1>3, <1>4 DEF TypeOK, BadToken
<1>5. CASE Replayed(f)
  BY <1>1, <1>3, <1>5 DEF TypeOK, Replayed
<1>6. CASE AskForToken(f, waiting)
  BY <1>1, <1>3, <1>6 DEF TypeOK, AskForToken
<1>7. CASE Answer(f, waiting)
  <2>1. /\ group' \in [Stations -> Groups \cup {0}]
        /\ accepted' \in [Stations -> 0..MaxAttempt]
        /\ asked' \in [Stations -> BOOLEAN]
    BY <1>1, <1>2, <1>7 DEF TypeOK, Answer
  <2>2. session' \in [Stations -> {"none", "nothing", "committed", "confirmed",
                                   "accepted"}]
    <3>1. Prepared(f) \in {"nothing", "confirmed", "accepted"}
      BY <1>1 DEF TypeOK, Prepared
    <3>2. Answered[Prepared(f)] \subseteq {"committed", "confirmed"}
      BY <3>1 DEF Answered
    <3>3. PICK state \in {"nothing", "committed", "confirmed", "accepted"} :
            session' = [session EXCEPT ![f.sa] = state]
      BY <1>7, <3>1, <3>2 DEF Answer
    <3> QED BY <1>1, <3>3 DEF TypeOK
  <2>3. tokenless' \in SUBSET Stations /\ reply' \in [Stations -> BOOLEAN]
    BY <1>1, <1>7 DEF TypeOK, Answer
  <2> QED BY <2>1, <2>2, <2>3 DEF TypeOK, HandlerTypeOK
<1>8. CASE HandleConfirm(f)
  BY <1>1, <1>8 DEF TypeOK, HandlerTypeOK, HandleConfirm
<1>9. CASE Disabled(f)
  BY <1>9 DEF TypeOK, HandlerTypeOK, Disabled, handlerVars
<1> QED BY <1>4, <1>5, <1>6, <1>7, <1>8, <1>9 DEF handle_auth_sae

\* A station that is not idle has begun an attempt, so its frames carry one.
Begun ==
  \A s \in Stations : client[s].phase # "idle" => client[s].att \in Attempt

\* The inductive invariant of the queue.  Begun is what keeps the frames a
\* station sends within Frame.
QueueInv == TypeOK /\ OneSlotPerTransaction /\ NoLostWakeup /\ Begun

\* Receiving a frame keeps all of QueueInv but the stations' own variable.
LEMMA ReceiveInv ==
  ASSUME QueueInv, NEW f \in Frame, handle_auth(f)
  PROVE  /\ queue' \in Seq(Frame) /\ Len(queue') <= QueueMax
         /\ timer' \in BOOLEAN
         /\ HandlerTypeOK'
         /\ OneSlotPerTransaction' /\ NoLostWakeup'
<1> USE DEF QueueInv
<1>1. CASE auth_sae_queue(f) /\ UNCHANGED handlerVars
  <2>1. HandlerTypeOK'
    BY <1>1 DEF TypeOK, HandlerTypeOK, handlerVars
  <2>2. CASE UNCHANGED <<queue, timer>>
    BY <2>1, <2>2 DEF TypeOK, OneSlotPerTransaction, NoLostWakeup
  <2>3. CASE Len(queue) < QueueMax /\ queue' = Queued(f) /\ timer' = TRUE
    <3>1. OneSlotPerTransaction'
      BY <2>3, QueuedOneSlot DEF OneSlotPerTransaction
    <3> QED BY <2>1, <2>3, <3>1, QueuedType DEF NoLostWakeup
  <2> QED BY <1>1, <2>2, <2>3 DEF auth_sae_queue
<1>2. CASE handle_auth_sae(f, queue) /\ UNCHANGED <<queue, timer>>
  BY <1>2, HandlerType DEF TypeOK, OneSlotPerTransaction, NoLostWakeup
<1> QED BY <1>1, <1>2 DEF handle_auth

\* Every step keeps the inductive invariant.
LEMMA QueueInvStep == QueueInv /\ [Next]_vars => QueueInv'
<1> SUFFICES ASSUME QueueInv, [Next]_vars PROVE QueueInv'
  OBVIOUS
<1> USE DEF QueueInv
<1>1. CASE ProcessEmpty
  BY <1>1
  DEF ProcessEmpty, handlerVars, TypeOK, OneSlotPerTransaction, NoLostWakeup, Begun
<1>2. CASE ProcessHead
  <2>1. HandlerTypeOK'
    BY <1>2, TailOneSlot, HandlerType DEF ProcessHead
  <2>2. queue' = Tail(queue) /\ timer' = TRUE /\ client' = client /\ queue # << >>
    BY <1>2 DEF ProcessHead
  <2>3. OneSlotPerTransaction' /\ NoLostWakeup'
    BY <2>2, TailOneSlot DEF OneSlotPerTransaction, NoLostWakeup
  <2>4. TypeOK'
    BY <2>1, <2>2, TailOneSlot DEF TypeOK, HandlerTypeOK
  <2> QED BY <2>2, <2>3, <2>4 DEF Begun
<1>3. ASSUME NEW s \in Stations, NEW att \in Attempt, NEW tok \in BOOLEAN,
             RxCommit(s, att, tok)
      PROVE  QueueInv'
  <2>1. [sa |-> s, trans |-> Commit, att |-> att, tok |-> tok] \in Frame
    BY DEF Frame
  <2>2. client' \in [Stations -> [att : 0..MaxAttempt,
                     phase : {"idle", "committed", "answering", "confirmed"}]]
    BY <1>3, MaxAttemptAssumption DEF RxCommit, TypeOK, Attempt
  <2>3. Begun'
    BY <1>3 DEF RxCommit, TypeOK, Begun
  <2> QED BY <1>3, <2>1, <2>2, <2>3, ReceiveInv DEF RxCommit, TypeOK, HandlerTypeOK
<1>4. ASSUME NEW s \in Stations, GetReply(s)
      PROVE  QueueInv'
  BY <1>4 DEF GetReply, TypeOK, OneSlotPerTransaction, NoLostWakeup, Begun
<1>5. ASSUME NEW s \in Stations, RxConfirm(s)
      PROVE  QueueInv'
  <2>0. client[s].att \in Attempt
    BY <1>5 DEF RxConfirm, Begun
  <2>1. [sa |-> s, trans |-> Confirm, att |-> client[s].att, tok |-> FALSE] \in Frame
    BY <2>0 DEF Frame
  <2>2. client' \in [Stations -> [att : 0..MaxAttempt,
                     phase : {"idle", "committed", "answering", "confirmed"}]]
    BY <1>5 DEF RxConfirm, TypeOK
  <2>3. Begun'
    BY <1>5 DEF RxConfirm, TypeOK, Begun
  <2> QED BY <1>5, <2>1, <2>2, <2>3, ReceiveInv DEF RxConfirm, TypeOK, HandlerTypeOK
<1>6. ASSUME NEW s \in Stations, ap_free_sta(s)
      PROVE  QueueInv'
  BY <1>6, MaxAttemptAssumption
  DEF ap_free_sta, TypeOK, OneSlotPerTransaction, NoLostWakeup, Begun
<1>7. CASE UNCHANGED vars
  BY <1>7 DEF vars, TypeOK, OneSlotPerTransaction, NoLostWakeup, Begun
<1> QED BY <1>1, <1>2, <1>3, <1>4, <1>5, <1>6, <1>7
        DEF Next, auth_sae_process_commit

\* The inductive invariant holds throughout.
LEMMA QueueInvHolds == Spec => []QueueInv
<1>1. Init => QueueInv
  <2> SUFFICES ASSUME Init PROVE QueueInv
    OBVIOUS
  <2>1. queue \in Seq(Frame) /\ Len(queue) = 0 /\ DOMAIN queue = {}
    BY DEF Init
  <2>2. TypeOK
    <3>1. Len(queue) <= QueueMax /\ 0 \in 0..MaxAttempt
      BY <2>1, QueueMaxAssumption, MaxAttemptAssumption
    <3>2. client \in [Stations -> [att : 0..MaxAttempt,
                     phase : {"idle", "committed", "answering", "confirmed"}]]
      BY <3>1 DEF Init
    <3> QED BY <2>1, <3>1, <3>2 DEF Init, TypeOK
  <2>3. OneSlotPerTransaction
    BY <2>1 DEF OneSlotPerTransaction
  <2>4. NoLostWakeup /\ Begun
    BY DEF Init, NoLostWakeup, Begun
  <2> QED BY <2>2, <2>3, <2>4 DEF QueueInv
<1> QED BY <1>1, QueueInvStep, PTL DEF Spec

\* The queue never exceeds its capacity and every variable keeps its type.
THEOREM TypeCorrect == Spec => []TypeOK
BY QueueInvHolds, PTL DEF QueueInv

\* No station ever has two queued frames with the same transaction number.
THEOREM OneSlot == Spec => []OneSlotPerTransaction
BY QueueInvHolds, PTL DEF QueueInv

\* No queued frame is ever without the timeout that will take it off.
THEOREM NeverForgotten == Spec => []NoLostWakeup
BY QueueInvHolds, PTL DEF QueueInv
-----------------------------------------------------------------------------
(***************************************************************************)
(* The anti-clogging bound.                                                *)
(***************************************************************************)
\* Sessions leaving the open ones, or losing the mark, keep the bound.
LEMMA FewerTokenless ==
  ASSUME TypeOK, TokenlessOpenBounded,
         Open' \cap tokenless' \subseteq Open \cap tokenless
  PROVE  TokenlessOpenBounded'
<1>1. IsFiniteSet(Open \cap tokenless)
  BY StationsAssumption, FS_Subset DEF Open
<1>2. /\ Cardinality(Open' \cap tokenless') <= Cardinality(Open \cap tokenless)
      /\ Cardinality(Open \cap tokenless) \in Nat
      /\ Cardinality(Open' \cap tokenless') \in Nat
  BY <1>1, FS_Subset, FS_CardinalityType
<1> QED BY <1>2, ThresholdAssumption DEF TokenlessOpenBounded

\* A session that is opened because use_anti_clogging() said no fits.
LEMMA RoomForOne ==
  ASSUME TypeOK, NEW f \in Frame, NEW waiting \in Seq(Frame),
         ~use_anti_clogging(f, waiting), Open' \subseteq OpenAt(f) \cup {f.sa}
  PROVE  TokenlessOpenBounded'
<1> DEFINE open == OpenAt(f)
<1>1. IsFiniteSet(open) /\ Cardinality(open) \in Nat
  BY StationsAssumption, FS_Subset, FS_CardinalityType DEF Open, OpenAt
<1>2. Cardinality(open) + 1 <= Threshold
  BY <1>1, ThresholdAssumption DEF use_anti_clogging
<1>3. /\ IsFiniteSet(open \cup {f.sa}) /\ Cardinality(open \cup {f.sa}) \in Nat
      /\ Cardinality(open \cup {f.sa}) <= Cardinality(open) + 1
  <2>1. IsFiniteSet(open \cup {f.sa}) /\ Cardinality(open \cup {f.sa}) =
           IF f.sa \in open THEN Cardinality(open) ELSE Cardinality(open) + 1
    BY <1>1, FS_AddElement
  <2> QED BY <1>1, <2>1
<1>4. /\ Cardinality(Open' \cap tokenless') <= Cardinality(open \cup {f.sa})
      /\ Cardinality(Open' \cap tokenless') \in Nat
  BY <1>3, FS_Subset, FS_CardinalityType
<1> QED BY <1>1, <1>2, <1>3, <1>4, ThresholdAssumption DEF TokenlessOpenBounded

\* Handling any frame keeps the bound.
LEMMA HandlerBounded ==
  ASSUME TypeOK, TokenlessOpenBounded, NEW f \in Frame,
         NEW waiting \in Seq(Frame), handle_auth_sae(f, waiting)
  PROVE  TokenlessOpenBounded'
<1>0. f.sa \in Stations
  BY DEF Frame
<1>1. ASSUME Drop(f) PROVE TokenlessOpenBounded'
  <2>1. Open' \subseteq Open /\ tokenless' = tokenless
    BY <1>0, <1>1 DEF Drop, Prepared, Open, TypeOK
  <2> QED BY <2>1, FewerTokenless
<1>2. CASE Answer(f, waiting)
  <2>1. ASSUME NEW state, session' = [session EXCEPT ![f.sa] = state],
               state \in {"nothing", Prepared(f)}, tokenless' = tokenless
        PROVE  TokenlessOpenBounded'
    <3>1. Open' \subseteq Open
      BY <1>0, <2>1 DEF Prepared, Open, TypeOK
    <3> QED BY <2>1, <3>1, FewerTokenless
  <2>2. ASSUME NEW state, session' = [session EXCEPT ![f.sa] = state],
               tokenless' = IF allow_reuse(f) \/ Prepared(f) = "confirmed"
                            THEN tokenless
                            ELSE IF f.tok THEN tokenless \ {f.sa}
                            ELSE tokenless \cup {f.sa}
        PROVE  TokenlessOpenBounded'
    <3>1. Open' \subseteq Open \cup {f.sa}
      BY <1>0, <2>2 DEF Open, TypeOK
    <3>2. CASE allow_reuse(f) \/ Prepared(f) = "confirmed"
      <4>1. f.sa \in Open
        BY <1>0, <3>2 DEF Open, allow_reuse, Prepared
      <4>2. Open' \subseteq Open /\ tokenless' = tokenless
        BY <2>2, <3>1, <3>2, <4>1
      <4> QED BY <4>2, FewerTokenless
    <3>3. CASE ~(allow_reuse(f) \/ Prepared(f) = "confirmed") /\ f.tok
      <4>1. Open' \cap tokenless' \subseteq Open \cap tokenless
        BY <2>2, <3>1, <3>3
      <4> QED BY <4>1, FewerTokenless
    <3>4. CASE ~(allow_reuse(f) \/ Prepared(f) = "confirmed") /\ ~f.tok
      <4>1. ~use_anti_clogging(f, waiting)
        BY <1>2, <3>4 DEF Answer
      <4>2. Open' \subseteq OpenAt(f) \cup {f.sa}
        BY <3>1 DEF OpenAt
      <4> QED BY <4>1, <4>2, RoomForOne
    <3> QED BY <3>2, <3>3, <3>4
  <2> QED BY <1>2, <2>1, <2>2 DEF Answer
<1>3. CASE HandleConfirm(f)
  <2>1. Open' \subseteq Open /\ tokenless' = tokenless
    BY <1>0, <1>3 DEF HandleConfirm, Open, TypeOK
  <2> QED BY <2>1, FewerTokenless
<1>4. CASE Disabled(f)
  <2>1. Open' = Open /\ tokenless' = tokenless
    BY <1>4 DEF Disabled, handlerVars, Open
  <2> QED BY <2>1, FewerTokenless
<1> QED BY <1>1, <1>2, <1>3, <1>4
        DEF handle_auth_sae, BadToken, Replayed, AskForToken

\* However frames of any number of stations interleave, at most
\* anti_clogging_threshold of the open sessions began without a token.
THEOREM AntiClogging == Spec => []TokenlessOpenBounded
<1>1. Init => TokenlessOpenBounded
  <2> SUFFICES ASSUME Init PROVE TokenlessOpenBounded
    OBVIOUS
  <2>1. Open \cap tokenless = {}
    BY DEF Init
  <2>2. Cardinality(Open \cap tokenless) = 0
    BY <2>1, FS_EmptySet
  <2> QED BY <2>2, ThresholdAssumption DEF TokenlessOpenBounded
<1>2. QueueInv /\ TokenlessOpenBounded /\ [Next]_vars => TokenlessOpenBounded'
  <2> SUFFICES ASSUME QueueInv, TokenlessOpenBounded, [Next]_vars
               PROVE  TokenlessOpenBounded'
    OBVIOUS
  <2>0. TypeOK /\ OneSlotPerTransaction /\ queue \in Seq(Frame)
    BY DEF QueueInv, TypeOK
  <2>1. ASSUME UNCHANGED <<session, tokenless>>
        PROVE  TokenlessOpenBounded'
    BY <2>0, <2>1, FewerTokenless DEF Open
  <2>2. ASSUME NEW f \in Frame, handle_auth(f)
        PROVE  TokenlessOpenBounded'
    BY <2>0, <2>1, <2>2, HandlerBounded DEF handle_auth, handlerVars
  <2>3. CASE ProcessEmpty
    BY <2>1, <2>3 DEF ProcessEmpty, handlerVars
  <2>4. CASE ProcessHead
    BY <2>0, <2>4, TailOneSlot, HandlerBounded DEF ProcessHead
  <2>5. ASSUME NEW s \in Stations, NEW att \in Attempt, NEW tok \in BOOLEAN,
               RxCommit(s, att, tok)
        PROVE  TokenlessOpenBounded'
    <3>1. [sa |-> s, trans |-> Commit, att |-> att, tok |-> tok] \in Frame
      BY DEF Frame
    <3> QED BY <2>2, <2>5, <3>1 DEF RxCommit
  <2>6. ASSUME NEW s \in Stations, GetReply(s)
        PROVE  TokenlessOpenBounded'
    BY <2>1, <2>6 DEF GetReply
  <2>7. ASSUME NEW s \in Stations, RxConfirm(s)
        PROVE  TokenlessOpenBounded'
    <3>1. client[s].att \in Attempt
      BY <2>7 DEF RxConfirm, QueueInv, Begun
    <3>2. [sa |-> s, trans |-> Confirm, att |-> client[s].att, tok |-> FALSE] \in Frame
      BY <3>1 DEF Frame
    <3> QED BY <2>2, <2>7, <3>2 DEF RxConfirm
  <2>8. ASSUME NEW s \in Stations, ap_free_sta(s)
        PROVE  TokenlessOpenBounded'
    <3>1. Open' \subseteq Open /\ tokenless' = tokenless
      BY <2>0, <2>8 DEF ap_free_sta, Open, TypeOK
    <3> QED BY <2>0, <3>1, FewerTokenless
  <2>9. CASE UNCHANGED vars
    BY <2>1, <2>9 DEF vars
  <2> QED BY <2>3, <2>4, <2>5, <2>6, <2>7, <2>8, <2>9
          DEF Next, auth_sae_process_commit
<1> QED BY <1>1, <1>2, QueueInvHolds, PTL DEF Spec
-----------------------------------------------------------------------------
(***************************************************************************)
(* Fairness between stations.                                              *)
(***************************************************************************)
\* The body of KeepsPlace.
PlaceKept ==
  \A i \in DOMAIN queue :
    \/ \E j \in DOMAIN queue' : j <= i /\ SameSlot(queue'[j], queue[i])
    \/ i = 1 /\ queue' = Tail(queue)

\* Putting a frame into the queue moves no entry.
LEMMA QueuedInPlace ==
  ASSUME TypeOK, NEW f \in Frame, queue' = Queued(f)
  PROVE  PlaceKept
<1> DEFINE k == CHOOSE i \in Slots(f) : TRUE
<1>0. queue \in Seq(Frame) BY DEF TypeOK
<1> SUFFICES ASSUME NEW i \in DOMAIN queue
             PROVE  i \in DOMAIN queue' /\ SameSlot(queue'[i], queue[i])
  <2>1. DOMAIN queue \subseteq Int
    BY <1>0
  <2> QED BY <2>1 DEF PlaceKept
<1>1. CASE Slots(f) # {}
  <2>1. k \in DOMAIN queue /\ SameSlot(queue[k], f)
    BY <1>1, SlotChosen DEF Slots
  <2>2. queue' = [queue EXCEPT ![k] = f]
    BY <1>1 DEF Queued
  <2>3. DOMAIN queue' = DOMAIN queue /\ queue'[i] = IF i = k THEN f ELSE queue[i]
    BY <2>1, <2>2, <1>0
  <2> QED BY <2>1, <2>3 DEF SameSlot
<1>2. CASE Slots(f) = {}
  <2>1. queue' = Append(queue, f)
    BY <1>2 DEF Queued
  <2>2. i \in DOMAIN queue' /\ queue'[i] = queue[i]
    BY <1>0, <2>1
  <2> QED BY <2>2 DEF SameSlot
<1> QED BY <1>1, <1>2

\* No step of any station or of the AP moves a queued frame back: the
\* replacement in auth_sae_queue() is in place, and the head leaves first.
THEOREM PlacesKept == Spec => KeepsPlace
<1>1. QueueInv /\ [Next]_vars => [PlaceKept]_vars
  <2> SUFFICES ASSUME QueueInv, Next PROVE PlaceKept
    OBVIOUS
  <2>0. TypeOK /\ queue \in Seq(Frame) /\ DOMAIN queue = 1..Len(queue) /\ Len(queue) \in Nat
    BY DEF QueueInv, TypeOK
  <2>1. ASSUME UNCHANGED queue PROVE PlaceKept
    <3>1. \A i \in DOMAIN queue : i <= i /\ SameSlot(queue[i], queue[i])
      BY <2>0 DEF SameSlot
    <3> QED BY <2>1, <3>1 DEF PlaceKept
  <2>2. ASSUME NEW f \in Frame, handle_auth(f)
        PROVE  PlaceKept
    BY <2>0, <2>1, <2>2, QueuedInPlace DEF handle_auth, auth_sae_queue
  <2>3. CASE ProcessHead
    <3>1. queue' = Tail(queue) /\ queue # << >>
      BY <2>3 DEF ProcessHead
    <3>2. SUFFICES ASSUME NEW i \in DOMAIN queue, i # 1
                   PROVE  i - 1 \in DOMAIN queue' /\ i - 1 <= i
                          /\ SameSlot(queue'[i - 1], queue[i])
      BY <2>0, <3>1 DEF PlaceKept
    <3>3. i - 1 \in 1..Len(Tail(queue)) /\ Tail(queue)[i - 1] = queue[i]
      BY <2>0, <3>1, <3>2
    <3> QED BY <2>0, <3>1, <3>3 DEF SameSlot
  <2>4. ASSUME NEW s \in Stations, NEW att \in Attempt, NEW tok \in BOOLEAN,
               RxCommit(s, att, tok)
        PROVE  PlaceKept
    <3>1. [sa |-> s, trans |-> Commit, att |-> att, tok |-> tok] \in Frame
      BY DEF Frame
    <3> QED BY <2>2, <2>4, <3>1 DEF RxCommit
  <2>5. ASSUME NEW s \in Stations, RxConfirm(s)
        PROVE  PlaceKept
    <3>1. client[s].att \in Attempt
      BY <2>5 DEF RxConfirm, QueueInv, Begun
    <3>2. [sa |-> s, trans |-> Confirm, att |-> client[s].att, tok |-> FALSE] \in Frame
      BY <3>1 DEF Frame
    <3> QED BY <2>2, <2>5, <3>2 DEF RxConfirm
  <2>6. CASE ProcessEmpty \/ \E s \in Stations : GetReply(s) \/ ap_free_sta(s)
    BY <2>1, <2>6 DEF ProcessEmpty, GetReply, ap_free_sta
  <2> QED BY <2>3, <2>4, <2>5, <2>6 DEF Next, auth_sae_process_commit
<1>2. Spec => [][PlaceKept]_vars
  BY <1>1, QueueInvHolds, PTL DEF Spec
<1> QED BY <1>2 DEF KeepsPlace, PlaceKept
=============================================================================
