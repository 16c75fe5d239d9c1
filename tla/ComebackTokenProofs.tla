------------------------- MODULE ComebackTokenProofs -------------------------
(***************************************************************************)
(* The tokens' promises for any stations, any table and any key lifetime:  *)
(* no frame is let through that was not paid for, and a token is good      *)
(* until its key or its entry is used up.                                  *)
(***************************************************************************)
EXTENDS ComebackToken, TLAPS

\* A pending index means that its entry has been paid for.
Backed ==
  \A i \in Slot : /\ credit[i] \in {0, 1}
                  /\ comeback_pending_idx[i] # 0 => credit[i] = 1

\* Once an update is noted there is a key.
KeyDrawn == last_update # NULL => comeback_key # NULL

IInv == TypeOK /\ Backed /\ KeyDrawn /\ Honoured
-----------------------------------------------------------------------------
\* A new key differs from the key of every token that is held.
LEMMA RandomKeyIsNew ==
  ASSUME Key \ InUse # {}
  PROVE  /\ RandomKey \in Key
         /\ \A s \in Sta : token[s] # NULL => token[s].key # RandomKey
<1>1. RandomKey \in Key /\ RandomKey \notin InUse  BY DEF RandomKey
<1>. QED  BY <1>1 DEF InUse

\* An index fits the table.
LEMMA IdxFits == 1 \in Idx /\ 0 \in U16 /\ 0 \notin Idx /\ Idx \subseteq U16
<1>1. MaxIdx \in Nat /\ MaxIdx >= 1  BY DEF MaxIdx
<1>. QED  BY <1>1 DEF Idx, U16

\* The index given out is never 0, and is the pending one if there is one.
LEMMA TokenIdxType ==
  ASSUME NEW pending \in U16
  PROVE  /\ TokenIdx(pending) \in Idx /\ TokenIdx(pending) # 0
         /\ pending # 0 => TokenIdx(pending) = pending
<1>1. MaxIdx \in Nat /\ MaxIdx >= 1  BY DEF MaxIdx
<1>. QED  BY <1>1 DEF TokenIdx, comeback_idx, Idx, U16

\* The invariant holds at the start.
LEMMA InitInv == Init => IInv
<1>. SUFFICES ASSUME Init PROVE IInv  OBVIOUS
<1>1. (CHOOSE i \in Slot : TRUE) \in Slot  BY TokenAssumption
<1>2. TypeOK  BY <1>1, TokenAssumption, IdxFits DEF Init, TypeOK
<1>3. Backed  BY DEF Init, Backed
<1>4. KeyDrawn  BY DEF Init, KeyDrawn
<1>5. Honoured  BY DEF Init, Honoured
<1>. QED  BY <1>2, <1>3, <1>4, <1>5 DEF IInv

\* auth_build_token_req() keeps the invariant, with the old key or a new one.
LEMMA RequestInv ==
  ASSUME IInv, NEW s \in Sta, Request(s)
  PROVE  IInv'
<1>. DEFINE i == slot'[s]
<1>1. CASE Renew(s) /\ NewKey(s) /\ Issue(s, [j \in Slot |-> 0], [j \in Slot |-> 0], {})
  <2>. DEFINE idx == TokenIdx(0)
  <2>1. /\ comeback_key' \in Key
        /\ \A u \in Sta : token[u] # NULL => token[u].key # comeback_key'
    BY <1>1, RandomKeyIsNew DEF NewKey
  <2>2. slot' \in [Sta -> Slot] /\ i \in Slot  BY <1>1 DEF NewKey
  <2>3. idx \in Idx /\ idx # 0  BY IdxFits, TokenIdxType
  <2>4. /\ comeback_pending_idx' = [[j \in Slot |-> 0] EXCEPT ![i] = idx]
        /\ token' = [token EXCEPT ![s] = [key |-> comeback_key', idx |-> idx]]
        /\ credit' = [[j \in Slot |-> 0] EXCEPT ![i] = 1]
        /\ spent' = {}
    BY <1>1, <2>2 DEF Issue
  <2>. HIDE DEF i, idx
  <2>5. last_update' \in Nat \cup {NULL}
    BY <1>1 DEF NewKey, IInv, TypeOK
  <2>6. TypeOK'
    <3>1. UNCHANGED <<conf, now, through, frame>>  BY DEF Request
    <3>2. [key |-> comeback_key', idx |-> idx] \in Token
      BY <2>1, <2>3 DEF Token
    <3>3. token' \in [Sta -> Token \cup {NULL}]
      BY <3>2, <2>4 DEF IInv, TypeOK
    <3>4. comeback_pending_idx' \in [Slot -> U16]
      BY <2>2, <2>3, <2>4, IdxFits
    <3>5. credit' \in [Slot -> Int] /\ spent' \subseteq Sta  BY <2>2, <2>4
    <3>. QED  BY <2>1, <2>2, <2>5, <3>1, <3>3, <3>4, <3>5 DEF IInv, TypeOK
  <2>7. Backed'  BY <2>2, <2>3, <2>4 DEF Backed
  <2>8. ASSUME NEW u \in Sta, token'[u] # NULL, token'[u].key = comeback_key'
        PROVE  Valid(u, token[u])'
    <3>1. u = s  BY <2>1, <2>4, <2>8 DEF IInv, TypeOK
    <3>2. token'[s] = [key |-> comeback_key', idx |-> idx]
      BY <2>4 DEF IInv, TypeOK
    <3>3. comeback_pending_idx'[slot'[s]] = idx  BY <2>2, <2>4 DEF i
    <3>. QED  BY <3>1, <3>2, <3>3, <2>3 DEF Valid
  <2>9. Honoured'  BY <2>8 DEF Honoured
  <2>10. KeyDrawn'  BY <2>1, TokenAssumption DEF KeyDrawn
  <2>. QED  BY <2>6, <2>7, <2>9, <2>10 DEF IInv
<1>2. CASE /\ UNCHANGED <<comeback_key, slot, last_update>>
           /\ ~Renew(s) /\ Issue(s, comeback_pending_idx, credit, spent)
  <2>. DEFINE idx == TokenIdx(comeback_pending_idx[i])
  <2>1. slot' = slot /\ i \in Slot  BY <1>2 DEF IInv, TypeOK
  <2>2. comeback_pending_idx[i] \in U16  BY <2>1 DEF IInv, TypeOK
  <2>3. /\ idx \in Idx /\ idx # 0
        /\ comeback_pending_idx[i] # 0 => idx = comeback_pending_idx[i]
    BY <2>2, TokenIdxType
  <2>4. /\ comeback_pending_idx' = [comeback_pending_idx EXCEPT ![i] = idx]
        /\ token' = [token EXCEPT ![s] = [key |-> comeback_key', idx |-> idx]]
        /\ credit' = [credit EXCEPT ![i] = 1]
        /\ spent' = spent \ {s}
    BY <1>2 DEF Issue
  <2>5. comeback_key \in Key
    <3>1. last_update # NULL  BY <1>2 DEF Renew
    <3>. QED  BY <3>1 DEF IInv, KeyDrawn, TypeOK
  <2>6. TypeOK'
    BY <1>2, <2>1, <2>3, <2>4, <2>5, IdxFits DEF Request, IInv, TypeOK, Token
  <2>7. Backed'  BY <2>1, <2>3, <2>4 DEF Backed, IInv, TypeOK
  <2>8. ASSUME NEW u \in Sta, token'[u] # NULL, token'[u].key = comeback_key',
               u \notin spent'
        PROVE  Valid(u, token[u])'
    <3>1. CASE u = s
      BY <3>1, <2>1, <2>3, <2>4 DEF Valid, IInv, TypeOK
    <3>2. CASE u # s
      <4>1. Valid(u, token[u]) /\ token'[u] = token[u]
        BY <3>2, <1>2, <2>4, <2>8 DEF IInv, Honoured, TypeOK
      <4>. QED  BY <4>1, <1>2, <2>1, <2>3, <2>4 DEF Valid, IInv, TypeOK
    <3>. QED  BY <3>1, <3>2
  <2>9. Honoured'  BY <2>8 DEF Honoured
  <2>10. KeyDrawn'  BY <1>2 DEF IInv, KeyDrawn
  <2>. QED  BY <2>6, <2>7, <2>9, <2>10 DEF IInv
<1>. QED  BY <1>1, <1>2 DEF Request, auth_build_token_req

\* check_comeback_token() keeps what the invariant says of the AP, and the
\* tokens of stations whose entry it leaves alone stay good.
LEMMA CheckInv ==
  ASSUME IInv, NEW s \in Sta, NEW t \in Token, check_comeback_token(s, t)
  PROVE  /\ comeback_pending_idx' \in [Slot -> U16]
         /\ credit' \in [Slot -> Int] /\ spent' \subseteq Sta
         /\ Backed'
         /\ \A u \in Sta : u \notin spent' =>
              /\ u \notin spent
              /\ comeback_pending_idx'[slot[u]] = comeback_pending_idx[slot[u]]
<1>1. CASE Valid(s, t)
  <2>1. /\ comeback_pending_idx' = [comeback_pending_idx EXCEPT ![slot[s]] = 0]
        /\ credit' = [credit EXCEPT ![slot[s]] = @ - 1]
        /\ spent' = spent \cup {u \in Sta : slot[u] = slot[s]}
    BY <1>1 DEF check_comeback_token, Invalidated
  <2>2. slot[s] \in Slot /\ credit[slot[s]] = 1
    BY <1>1 DEF Valid, IInv, TypeOK, Backed
  <2>. QED  BY <2>1, <2>2, IdxFits DEF IInv, TypeOK, Backed
<1>2. CASE ~Valid(s, t)
  <2>1. UNCHANGED <<comeback_pending_idx, credit, spent>>
    BY <1>2 DEF check_comeback_token, Invalidated
  <2>. QED  BY <2>1 DEF IInv, TypeOK, Backed
<1>. QED  BY <1>1, <1>2

\* A station that comes back, and a frame received again, keep the invariant.
LEMMA PresentInv ==
  ASSUME IInv, NEW s \in Sta, Present(s) \/ Repeat(s)
  PROVE  IInv'
<1>. DEFINE t == IF Present(s) THEN token[s] ELSE frame[s]
<1>1. t \in Token /\ check_comeback_token(s, t)
  BY DEF Present, Repeat, IInv, TypeOK
<1>2. /\ token' \in [Sta -> Token \cup {NULL}]
      /\ frame' \in [Sta -> Token \cup {NULL}]
      /\ through' \subseteq Sta
      /\ \A u \in Sta : token'[u] # NULL => token'[u] = token[u]
  BY DEF Present, Repeat, IInv, TypeOK
<1>3. UNCHANGED <<conf, now, comeback_key, slot, last_update>>
  BY DEF Present, Repeat, check_comeback_token
<1>4. /\ comeback_pending_idx' \in [Slot -> U16]
      /\ credit' \in [Slot -> Int] /\ spent' \subseteq Sta
      /\ Backed'
      /\ \A u \in Sta : u \notin spent' =>
           /\ u \notin spent
           /\ comeback_pending_idx'[slot[u]] = comeback_pending_idx[slot[u]]
  BY <1>1, CheckInv
<1>5. TypeOK'  BY <1>2, <1>3, <1>4 DEF IInv, TypeOK
<1>6. KeyDrawn'  BY <1>3 DEF IInv, KeyDrawn
<1>7. ASSUME NEW u \in Sta, token'[u] # NULL, token'[u].key = comeback_key',
             u \notin spent'
      PROVE  Valid(u, token[u])'
  <2>1. Valid(u, token[u])  BY <1>2, <1>3, <1>4, <1>7 DEF IInv, Honoured
  <2>. QED  BY <2>1, <1>2, <1>3, <1>4, <1>7 DEF Valid
<1>8. Honoured'  BY <1>7 DEF Honoured
<1>. QED  BY <1>4, <1>5, <1>6, <1>8 DEF IInv

\* The other steps touch neither the table nor a token that is still held.
LEMMA OtherInv ==
  ASSUME IInv,
         \/ \E s \in Sta : StartOver(s)
         \/ Tick
         \/ UNCHANGED vars
  PROVE  IInv'
<1>1. /\ UNCHANGED <<conf, comeback_key, slot, last_update, comeback_pending_idx,
                     frame, credit, spent>>
      /\ now' \in Nat /\ through' \subseteq Sta
      /\ token' \in [Sta -> Token \cup {NULL}]
      /\ \A u \in Sta : token'[u] # NULL => token'[u] = token[u]
  <2>1. CASE \E s \in Sta : StartOver(s)
    BY <2>1 DEF StartOver, apVars, IInv, TypeOK
  <2>2. CASE Tick
    BY <2>2 DEF Tick, apVars, IInv, TypeOK
  <2>3. CASE UNCHANGED vars
    BY <2>3 DEF vars, apVars, IInv, TypeOK
  <2>. QED  BY <2>1, <2>2, <2>3
<1>2. TypeOK'  BY <1>1 DEF IInv, TypeOK
<1>3. Backed'  BY <1>1 DEF IInv, Backed
<1>4. KeyDrawn'  BY <1>1 DEF IInv, KeyDrawn
<1>5. Honoured'  BY <1>1 DEF IInv, Honoured, Valid
<1>. QED  BY <1>2, <1>3, <1>4, <1>5 DEF IInv

\* IInv is an invariant.
THEOREM Invariance == Spec => []IInv
<1>1. ASSUME IInv, [Next]_vars  PROVE IInv'
  <2>. USE <1>1
  <2>0. conf.sta \subseteq Sta  BY TokenAssumption DEF IInv, TypeOK
  <2>1. CASE \E s \in Sta : Request(s)
    BY <2>1, RequestInv
  <2>2. CASE \E s \in Sta : Present(s) \/ Repeat(s)
    BY <2>2, PresentInv
  <2>3. CASE \/ \E s \in Sta : StartOver(s)
             \/ Tick
             \/ UNCHANGED vars
    BY <2>3, OtherInv
  <2>. QED  BY <2>0, <2>1, <2>2, <2>3 DEF Next
<1>. QED  BY <1>1, InitInv, PTL DEF Spec

\* The types of ComebackToken, for any stations, table and key lifetime.
THEOREM TokenTypes == Spec => []TypeOK
<1>1. IInv => TypeOK  BY DEF IInv
<1>. QED  BY <1>1, Invariance, PTL

\* No frame is let through on a token whose entry was not paid for, however
\* many stations share an entry and whoever renews the key.
THEOREM PaidForAlways == Spec => []PaidFor
<1>1. IInv => PaidFor
  <2>1. ASSUME IInv, NEW j \in Slot  PROVE credit[j] >= 0
    BY <2>1 DEF IInv, Backed
  <2>. QED  BY <2>1 DEF PaidFor
<1>. QED  BY <1>1, Invariance, PTL

\* A token is good until the key changes or a token of its entry is used.
THEOREM HonouredAlways == Spec => []Honoured
<1>1. IInv => Honoured  BY DEF IInv
<1>. QED  BY <1>1, Invariance, PTL
=============================================================================
