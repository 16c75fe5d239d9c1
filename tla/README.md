# DecoyAuth in TLA+

DecoyAuth changes the SAE handshake of Wi-Fi so that an access point can serve
many passwords: its Commit carries two polynomials *woven* through one element
per password, and a station evaluates them at the hash of its own password.
A station that knows no password obtains a decoy and learns only that its
Confirm is refused. The repository holds a Python description (`scripts/`), a C
prototype of the two algorithms (`c-prototype/`) and a patched hostap
(`hostap/`): hostapd for the AP, wpa_supplicant for the station. Paths below
are relative to the repository.

This directory models the parts that DecoyAuth adds or depends on, checks them
with TLC on small instances and proves with TLAPS, for every instance, all
their safety properties: the queue, the anti-clogging tokens, what the AP
accepts and that both ends implement `KeyAgreement`, the order and freshness of
the pairwise and group keys, the PMKSA cache, and the two algorithms over every
field and curve that their assumptions allow. SAE ends with a PMK; the handshakes that turn it into keys, and the
cache that keeps it, are modelled too, because a DecoyAuth connection goes on
with them. `PROJECT.json` lists components, runs, hazards,
findings and theorems, and gives the source lines of every definition.

## 1. Inventory

| Component | State | Operations | Interacts with |
|---|---|---|---|
| Commit queue and anti-clogging, `hostap/src/ap/ieee802_11.c` | `sae_commit_queue` (15 entries), one eloop timeout, `sta->sae->state` of all stations | `auth_sae_queue`, `auth_sae_process_commit`, `auth_sae_queued_addr`, `use_anti_clogging` | called by `handle_auth`; calls `handle_auth_sae` |
| SAE in the AP, `ieee802_11.c`, `hostap/src/common/sae.c` | `struct sae_data` and its `tmp`, with the DecoyAuth arrays (`u_/v_coefficients`, `pwe_eccs`, `own_commit_element_eccs`, `kcks`, `pmks`) | `handle_auth_sae`, `sae_sm_step`, `sae_ap_prepare_commit`, `sae_ap_write_commit`, `sae_ap_process_commit`, `sae_ap_check_confirm`, `sae_accept_sta` | frames to and from the station, PMKSA cache, driver, VLAN assignment |
| SAE in the station, `hostap/wpa_supplicant/sme.c`, `sae.c` | `wpa_s->sme` (SAE data, token, group index, rejected groups), authentication timer | `sme_authenticate`, `sme_sae_auth`, `sme_event_auth`, `sme_auth_timer` | frames, the 4-way handshake |
| Weaver, `hostap/src/crypto/crypto_openssl.c`, `hostap/src/common/weaver.c`, `c-prototype/src/weaver.c`, `scripts/weaver.py` | arrays `a`, `b`, `p`, the matrix | `precompute`, `weave`, `evaluate` | called for each coordinate of the encoded elements |
| Point encoding, `crypto_openssl.c`, `c-prototype/src/encode.c`, `scripts/encode.py` | none beyond the sampling loop | `f`, `calc_v`, `es_encode`, `es_decode` | turns elements into the values that are woven |
| Comeback tokens, `hostap/src/ap/comeback_token.c` | key, time of its update, table of pending indices | `check_comeback_token`, `auth_build_token_req` | called by `handle_auth_sae` and, for PASN, `handle_auth_pasn_1` |
| Parsing of frames, `sae.c` | none | `sae_parse_commit`, `sae_group_allowed`, `sae_parse_coefficient` | called by both ends |
| WPA authenticator, `hostap/src/ap/wpa_auth.c` | `struct wpa_state_machine` per station (three replay counter arrays, two SNonces, PTK, request flags), `struct wpa_group`, timeouts | `wpa_receive`, `wpa_sm_step`, `wpa_send_eapol_timeout`, `wpa_rekey_ptk`, `wpa_rekey_gtk`, `wpa_auth_sta_associated`, `wpa_auth_sm_event`, `wpa_auth_sta_deinit` | EAPOL-Key frames, PMKSA cache, station table, driver |
| WPA supplicant, `hostap/src/rsn_supp/wpa.c` | `struct wpa_sm`: nonces, temporary and verified PTK, GTK, replay counter | `wpa_sm_rx_eapol` and its handlers, `wpa_sm_key_request`, `wpa_sm_notify_assoc`, `wpa_sm_notify_disassoc` | EAPOL-Key frames, driver |
| PMKSA cache, `hostap/src/ap/pmksa_cache_auth.c` | list by expiration, hash chains by PMKID, count, one timeout; `sm->pmksa` of the stations | `pmksa_cache_auth_add`, `pmksa_cache_auth_get`, `pmksa_cache_add_okc`, `wpa_auth_pmksa_remove`, `pmksa_cache_expire`, flush, RADIUS disconnection | SAE and EAP add entries, associations look them up |
| Python handshake, prototype benchmarks, import/export | none | straight-line programs and file I/O | the two algorithms |

Behaviours that are hard, and what correctness means there:

* **Queue.** Frames, retries, Confirms handled at once and the timeout
  interleave. No frame may be forgotten, no station may occupy more than its
  share or push others back, and sessions counted at dequeue time must respect
  the threshold.
* **Tokens.** All stations, of SAE and PASN, share a key and 256 entries; a
  token can be used up by another station or by a new key, and frames are
  repeated. Nobody may pass without having been held up, a token must not be
  refused without such a reason, and stations must still get through.
* **AP.** The AP's key is chosen only when the station's Confirm arrives, by
  trying all passwords, and each try overwrites `kck` and `pmk`. Arrays are freed
  while their pointers stay. Sessions outlive attempts, so late, repeated and
  reordered frames meet states nobody had in mind. Only a key that the station
  has proved may be accepted, and it must stay the one accepted.
* **Station.** Group refusals and token requests lead to more Commits, and
  answers do not say which Commit they answer. A station with a password must
  get through; one without must fail rather than hang; a station that completes
  must use a key the AP accepted.
* **Handshakes.** EAPOL-Key frames are lost, repeated and late; message 1/4 has
  no MIC; replay counters are reset by a reassociation; the AP accepts a second
  SNonce while a handshake is under way; pairwise and group rekeying share the
  frames' counters and the timer. The AP must only use a key that the station
  has installed, no key may be installed twice, and no handshake may hang.
* **PMKSA cache.** Entries go by expiration, replacement, eviction, removal,
  flush and RADIUS, while state machines point at them; two structures, a count
  and a timeout for only the first entry must stay in step.
* **Algorithms.** An in-place product, coefficients that are negative or not
  reduced, exceptional field elements, square roots that do not exist. Weaving
  and evaluating, and encoding and decoding, must be inverse; a decoy must be
  indistinguishable from a real value by decoding alone.

## 2. Modules

```
SaeCommitQueue  <-  MCSaeCommitQueue, SaeCommitQueueProofs
ComebackToken   <-  MCComebackToken, ComebackTokenProofs
SaeFrames  <-  SaeAp, SaeSta  <-  DecoyAuth  <-  MCDecoyAuth
KeyAgreement   (abstract; DecoyAuth instantiates it)
DecoyAuth  <-  DecoyAuthProofs
EapolKey  <-  WpaAuth, WpaSupp  <-  FourWay  <-  MCFourWay, FourWayProofs
PmksaCache  <-  MCPmksaCache, PmksaCacheProofs
PrimeField  <-  Weaver  <-  MCWeaver           PrimeField  <-  PointEncoding  <-  MCPointEncoding
PrimeField  <-  PrimeFieldProofs
Weaver, PrimeFieldProofs  <-  WeaverProofs
PointEncoding, PrimeFieldProofs  <-  PointEncodingProofs
```

Operators whose comment begins with "Faulty:" are plausible mistakes in the
definition that follows them. They are not used by any specification; each
property of a passing run is known to fail when one of them takes the place of
the definition (`mutants` in `PROJECT.json`).

### SaeCommitQueue

`queue` and `timer` are the C list and whether its timeout is registered.
`handle_auth` queues a frame or handles a Confirm at once;
`auth_sae_process_commit` takes one frame off. What handling does is abstracted
to the session's state ("none" without `sta->sae`, else the four of the code),
its group, and whether a token is outstanding; every outcome the full handler can
have for these is a disjunct. `Prepared` is the state once a Commit was parsed: COMMITTED is
reset, and a new group makes `sae_set_group` clear the session, whatever its state.
Only COMMITTED with the same group is reused (`allow_reuse`); a Commit in CONFIRMED,
or one with another group, can be asked for a token like the first one
(`AskForToken`). How many repetitions end a confirmed session, how long it is
disabled then, and the value of `sae_confirm_immediate` are left open. Stations
start attempts, each with the group that `GroupOf` gives, repeat Commits, answer and
are removed at any time. `tokenless` is a history variable.

### ComebackToken

The AP under load, where every frame needs a token. A token is an HMAC and known
by what it is computed from, key and index (its address is the station's). The
entry of a station is a hash under the key, so `NewKey` gives every station any
entry. `Request` is a frame without a token, `Present` one with it, `Repeat` the
same frame once more; `StartOver` covers an answer that was lost and another
connection. Only SAE notes when the key was updated: a PASN session starts
without such a note and is freed as soon as the token has been sent, so that
each request of PASN replaces the key. `hapd->comeback_idx` is passed by value
and stays 0, hence every new index is 1. `credit` and `spent` are history
variables: what an entry has been paid for, and which stations' tokens have been
used up by others.

`SaeCommitQueue` and `SaeAp` know only whether a token is outstanding, and that it
may be lost to others at any time, which is what `ComebackToken` shows a station
may see.

### SaeFrames, SaeAp, SaeSta, DecoyAuth

`SaeFrames` has the frames and their algebra, symbolically: a scalar is fresh,
an element is known by its scalar and its password, `Evaluate` gives the
element of the own password or a decoy, and `Key` is symmetric exactly when
each side holds the other's element under its own password. `Weaver` and
`PointEncoding` are the reason why `Evaluate` is as it is.

`SaeAp` is the AP for one station. One action handles a Commit, one a Confirm;
both are written as the composition of the functions the code calls, on a
context record (`data`, frames sent, return code, ...) so that each early return
leaves behind what the code leaves behind. Pointers matter, so an array is
"null", "live" or "freed". A use of freed memory is recorded in `freedUse` and
has every outcome the build can produce: old content, other content ("corrupt",
after which nothing more is claimed), an error of the library, a crash. What
driver, load, token table and VLAN decide during a run is the parameter `e`.

`SaeSta` is the station for one AP: one action per kind of answer, the start of
an attempt and the timeout.

`DecoyAuth` puts both together. `air` is a set of frames delivered in any order
and arbitrarily late; with `duplicates` they can be received again (only an
identical sequence number with the retry bit is filtered by the code, so a
repetition with a new number reaches the handler). The queue only delays and
reorders, which `air` does already, so it has no state here.

The constant variable `world` holds the configuration of both ends and what the
surroundings may do (`SaeFrames!World`): the station's password and groups, how
often it authenticates, whether frames are repeated, tokens asked for or lost,
entries removed. A run considers all members of `Worlds`, and
`MCDecoyAuth` names them. `immediate` is the set of values `sae_confirm_immediate`
takes; it can be set at run time, so a handler reads it from its environment `e`.

### KeyAgreement

What the two ends promise: the station offers keys, the AP accepts an offered
key that both can derive, each at most once, and the station uses a key only
after it was accepted. `DecoyAuth!Agrees` states that the state machines
implement it, with `using` mapped to the station's key while it has completed.
Every step of theirs is one of `KeyAgreement`'s or changes none of its variables,
with two exceptions when the station completes, both of them ways in which the AP
sends a valid Confirm for a key it then does not hold:

* A Commit repeated in COMMITTED is answered from coefficients that were freed,
  and with `sae_confirm_immediate` a Confirm follows. If the memory holds something
  else, the AP's scalar or KCK may be of another exchange, and the Confirm may
  verify (a counterexample has 12 states). So nothing is said of the step when
  freed memory has been corrupted (`~Sane`).
* An AP that cannot assign the VLAN of the password entry refuses the session
  after its Confirm was sent (`world.vlan`).

The AP's side of the agreement has no exception.

### EapolKey, WpaSupp, WpaAuth, FourWay

`EapolKey` has the frames. All associations use one PMK, as they do when a PMKSA
is cached, which is the harder case: only the nonces tell keys apart. A PTK is
the pair of its nonces, and a MIC is the PTK it was computed with.

`WpaSupp` has one action per handler. A frame with a good MIC that fails a later
check makes the station deauthenticate (`ProcessFailed`). `tks` and `gtks` record
what was given to the driver.

`WpaAuth` is written as the code is: the entry code of each state is an operator
of the same name, `StepPTK`, `StepPTKGroup` and `StepGroup` are the three step
functions, and `wpa_sm_step` repeats them while a state was entered: 13 passes are
written out (`Again4`), and `LoopSettles` proves that no more are ever needed. A
pass is a set with one element, so that TLC evaluates it once. A handler
is a composition of such operators on the record `au`, which holds
`struct wpa_state_machine` and `struct wpa_group`; `out` and `installs` collect
what a call sends and installs. Flags that are set and cleared within one call
(`Init`, `AuthenticationRequest`) are left out; the first association therefore
begins in AUTHENTICATION2.

`FourWay` is one station and one AP. The set `eapol` never forgets a frame: one
that is not taken is lost, one taken again is repeated, and any order is
possible across associations. Frames the driver would discard because they are
encrypted with a key that is gone are among the lost ones. The station may
associate while the AP still has an entry for it, and leave without the AP
hearing of it. `StationRedraws` is a supplicant, not this one, that draws a new
SNonce for a repeated message 1/4: the authenticator has code for it, which no
step of `WpaSupp` would reach.

### PmksaCache

`pmksa[b]` is the cache of a BSS, the memory of its entries, its timeout, and
`sm->pmksa` of its stations. Allocation is explicit, so that a pointer to a freed
entry is visible. `removed` is a history variable. A PMKSA's PMK is fresh; the
PMKID is the PMK and, for 802.1X, the BSS, which is what makes opportunistic
caching derive it again. An association request names one PMKID, and `Cached`
is how `wpa_validate_wpa_ie` looks it up: under the station's address and, for a
P2P client, under that of its device (`conf.p2p_dev_addr`). Nothing else of the
cache knows of devices. Time is in whole seconds, as `expiration` is.

### PrimeField

The residue modulo the prime of the curve and the inverse, as OpenSSL has them.
`PrimeAssumption` says that the number is a prime.

### Weaver

`precompute` step by step, because its product is computed in place, then the
matrix and `weave`, then `evaluate` as an operator. The loops that only read are
recursive functions that go through the indices in the order of the code.
Variable `lazy` chooses between hostap's code, which reduces only some
intermediate results, and the prototype's, which reduces all. The reference is
the product of the linear factors and the values woven in. That hashes of
passwords differ modulo the prime is part of `Init`.

### PointEncoding

`f`, `calc_v`, the sampling loop and decoding on a curve y^2 = x^3 + A x + B, with
point addition, as the C code has them. The assumptions are those the code
relies on: the prime is 3 mod 4 (`RootAssumption`, which makes
`BN_mod_sqrt` a power), A and B are not 0, no point is its own inverse
(`OrderAssumption`: the order of the group is an odd prime). Two more are about
single values of x. omega = A x / B + 1 = 0 makes `calc_v` divide by zero
(`PoleAssumption`), and omega = 4 makes its inner root 0, so that two choices of
signs coincide (`BranchAssumption`, which only `AllPreimages` needs). Computing the
two right-hand sides for the parameters of the groups shows that no point of
groups 19 and 21 has such an x; group 20 has points with either. `scripts/encode.py`
differs: its guard for exceptional elements joins three comparisons with `and`
and never holds, and its `randint(0, 4)` gives one choice of signs twice.

## 3. Runs

| Run | Instance | Shows |
|---|---|---|
| `queue` | 2 stations, 3 entries, threshold 1, unlimited repetitions; one makes one attempt, the other two with one group and one with another; fair (596,000 states) | type and bound, one slot per transaction, no lost wakeup, the threshold for sessions without token, queued frames keep their place, every queued frame is handled |
| `faults` | duplicates, timeouts, removals, both values of `sae_confirm_immediate`, 2 attempts (552,000 states) | key agreement is implemented; the PMK of an accepted session is the one given to the PMKSA cache |
| `negotiation` | 2 groups, tokens, removals, VLAN assignment and sending may fail, 3 attempts (166,000 states) | types; only keys the station proved, under a password of the AP, are accepted; no failure leaves a session accepted whose PMK is not in the PMKSA cache |
| `attempts` | a station with a password, 4 attempts; one without, with both values of `sae_confirm_immediate`, lost tokens and removals, 2 attempts; fair (5,000 states) | every attempt of the first leads to a shared key, every attempt of the second ends in failure |
| `freed`, `survives`, `stranded` | | violations: findings 1 to 3 |
| `fourway` | each message sent once with 4 events, or twice with 2 (288,000 states) | the AP installs the station's keys in the station's order; no PTK or GTK is installed twice, no older GTK comes back; the group's count is right; the step loop stops; every 4-way handshake ends |
| `pmksa` | one BSS with 3 stations, 2 entries and 5 calls; two BSSs with okc and 1 or 2 stations; one of several stations is a P2P client (393,000 states) | list, chains and count agree; no station points at freed memory; the timeout is set in time; limit, one entry per station and removal without okc; every entry expires |
| `tokens` | 2 SAE stations, or one with a PASN station, and 3 events; all three and 1 event; 2 entries (274,000 states) | types; nobody passes on a token that was not paid for; a token is good until its key or its entry is used up; every station gets through |
| `weaver` | 4 passwords, field of 5 elements, hashes 0..5, both variants (274,000 states) | the in-place product is the master polynomial after every pass; every station gets its value back |
| `encoding` | all points of y^2 = x^3 - 3x + 9 over 19 elements, all u, j and decoys (14,000 states) | encoding round-trips; decoys decode to points; the four choices of j give each preimage exactly once |

**Bounds.** Three entries for two stations are enough for a full queue, for a
replacement in the middle, and for a refusal of a replacement; threshold 1 is
reached by one session. A second attempt with the same group finds the session of
the first in any state, a third with another group clears it. The proofs remove the bounds of every run for all its
safety properties. Two passwords tell the first index from the last, which is
what a failed check leaves behind. Client groups 20, 19 with only 19 allowed
force a negotiation. `SaeSync = 0` makes the sync limit reachable with one
repetition. Attempts and scalars are bounded by `world.attempts`, `MaxScalars`
and `MaxOwnScalars`; two attempts are what a stale frame needs, three a stale
rejection of a rejection. Four elements run the inner loop of the product more
than once, and a hash of 5 is not reduced modulo 5. The curve has prime order
and a = -3 like groups 19 to 21. `MaxTries` is 2: a failed pass leaves nothing
behind.

In `fourway`, an event is what the handshakes do not cause themselves
(association, departure, rekeying, a new SNonce); `MaxEvents` bounds them by the
value of `wpa_pairwise_update_count`, `MaxANonce` the pairwise handshakes. Two
handshakes are what a late frame needs; a retransmission, which needs the count
of 2, together with an association and one more event covers a repeated message
3/4 and a changed SNonce; four events with single messages cover a group
rekeying, a pairwise one and a reassociation in any order. The invariants are
proved without these bounds.

In `pmksa`, `Entry` has one address more than `pmksa_cache_max_entries`, three
stations are more than the cache holds, and the PMKs share two hash chains, so
that chains have more than one entry. Entries live 1 or 2 seconds, so that a
later one may expire first; nothing is added in the last second of `MaxNow`, so
that everything can expire. The device of the P2P client is another of the
stations, so that its address has entries. BSSs without okc share nothing, hence one of them.

In `tokens`, two entries are enough for stations that share one and stations that
do not, as each new key decides; an event is a repeated frame or a connection
begun again. Eight keys are more than are in use at any time, so a new key is
always one that no token has. A lifetime of 0 with a clock of one tick lets SAE's
key grow too old once.

Because of these bounds a run can end with nothing left to do, hence
`CHECK_DEADLOCK FALSE`; the liveness properties say what must have happened.

**Fairness.** `SaeCommitQueue!Spec` assumes weak fairness of the timeout only:
eloop runs a registered timeout when it is due. Nothing is assumed of stations.
`DecoyAuth!FairSpec` assumes that both ends handle frames that are there, that
a running authentication timer expires, and that a station that is not
authenticating is asked to connect again. In the first world of `attempts` the
timer is switched off, which means that answers come before it expires: without
that no station could be sure to connect. In the second it may expire at any
time. `ComebackToken!FairSpec` assumes that stations keep trying.
`FourWay!FairSpec` assumes only that a registered timeout of the AP fires, and
nothing of the air or the station; `PmksaCache!FairSpec` that time passes and
that eloop calls a timeout that is due.

**Exceptions in the liveness properties.** `Connects` excludes an AP that has
used freed memory. `DecoyFails` excludes only an AP that is damaged while the
station's timer is not running: `sme_event_auth()` cancels the timer before it
looks at the frame, and a Commit it ignores does not start it again.
`EveryoneThrough` is stated for at most one PASN station: two can replace the key
between each other's request and return for ever.

## 4. Findings

Each is the run of the same name, with the quoted text in `PROJECT.json`.

1. `freed`: a second Commit in COMMITTED writes the coefficients that writing
   the first one freed. Reauthentication in ACCEPTED writes into point arrays
   freed on success.
2. `survives`: a Confirm that finds no derived keys dereferences a null pointer.
3. `stranded`: a pairwise rekeying that begins during a group key handshake uses
   up the replay counters of its message 1/2 and takes its timer; the station's
   machine stays in REKEYNEGOTIATING without a timer, is not disconnected as
   `hostapd.conf` says, and the group waits for it.

More disagreements are known and are in the models, but have no run of
their own:

* A repeated Commit is appended behind the queued Confirm of the same exchange,
  although Confirms are queued to avoid reordering (`ieee802_11.c:1768`).
* With `sae_confirm_immediate=1` the AP cannot build its Confirm, because the
  key is known only once the station's has been checked (`ieee802_11.c:1057`).
  `faults` and `DecoyFails` hold in spite of it; `Connects` does not, so the world
  it is about has the value 0 only.
* `check_comeback_token` invalidates a used token (`comeback_token.c:64`), but all
  tokens of a key have index 1, so it is good again as soon as its entry is given
  out to anyone. `PaidFor` says what remains: no more frames pass than were held
  up.
* The key is meant to live for 60 seconds, but every PASN request for a token
  replaces it and empties the table (`ieee802_11.c:2901`).
* With okc, `pmksa_cache_add_okc` heeds neither the limit nor an entry the
  station has already, and removing one PMKSA to force a full authentication
  leaves copies that let the station back in. `Bounded`, `OnePerSupplicant` and
  `FullAuthentication` are therefore stated for caches without okc.
* `wpa_auth_pmksa_remove` is to force a full authentication (`wnm_ap.c:885`), but it
  looks only under the station's own address. A P2P client that uses the PMKSA
  which the group owner added for its device (`p2p_go_configured`) keeps it and can
  associate with it again: the exception in `FullAuthentication`.
* When the VLAN cannot be assigned (`ieee802_11.c:955`), the AP's Confirm has been
  sent: the station completes, the AP stays in CONFIRMED. `Agrees` excepts the
  station's completion in such a world; what the AP accepts, and that an accepted
  session has its PMK in the cache, is checked there (`negotiation`).

## 5. Proofs

`SaeCommitQueueProofs` proves for any finite set of stations, any queue size
above 0, any threshold, any number of attempts above 0 and any groups (the five
ASSUMEs of `SaeCommitQueue`):

| Theorem | States |
|---|---|
| `TypeCorrect` | `Spec => []TypeOK`, the bound of the queue included |
| `OneSlot` | `Spec => []OneSlotPerTransaction` |
| `NeverForgotten` | `Spec => []NoLostWakeup` |
| `AntiClogging` | `Spec => []TokenlessOpenBounded` |
| `PlacesKept` | `Spec => KeepsPlace`, an action property |

The inductive invariant is `QueueInv == TypeOK /\ OneSlotPerTransaction /\
NoLostWakeup /\ Begun`. `Begun` (a station that is not idle has begun an attempt)
is needed because a Confirm carries the station's current attempt, and attempt 0
is not one. `OneSlotPerTransaction` needs the type of the queue, and its step is
the lemma `QueuedOneSlot` about `Queued`: replacing an entry by one of the same
slot, or appending one whose slot is free. `AntiClogging` is a second induction
on top of `TypeOK`: either the set of open sessions without token shrinks
(`FewerTokenless`), or one session is added after the test found fewer open
sessions than the threshold, the sender's own not counted if it was reset or
cleared before (`RoomForOne`, with `OpenAt`). `PlacesKept` goes by cases on the
step; `QueuedInPlace` is the case of a received frame.

`ComebackTokenProofs` proves for any stations, any table, any keys, any lifetime
of the key and any number of events (`TokenAssumption`):

| Theorem | States |
|---|---|
| `TokenTypes` | `Spec => []TypeOK` |
| `PaidForAlways` | `Spec => []PaidFor` |
| `HonouredAlways` | `Spec => []Honoured` |

The inductive invariant is `IInv == TypeOK /\ Backed /\ KeyDrawn /\ Honoured`.
`Backed` is stronger than `PaidFor`: a pending entry has a credit of 1, so that
accepting its token leaves 0. `KeyDrawn` (once an update is noted there is a key)
is needed because a token given out without a new key must still carry one.
`Honoured` rests on the new key being none that a token in use has
(`RandomKeyIsNew`).

`DecoyAuthProofs` proves for any number of passwords, any groups
and configuration, any bounds on attempts, scalars and repetitions, and any choice
of what the surroundings do (`NumPasswordsAssumption`, `WorldsAssumption`,
`SaeSyncAssumption`, `MaxOwnScalarsAssumption`, `MaxScalarsAssumption`: numbers
are numbers):

| Theorem | States |
|---|---|
| `TypesKept` | `Spec => []TypeOK` |
| `SharedOnly` | `Spec => []AcceptsOnlyShared` |
| `PmkKept` | `Spec => []PmkStable` |
| `Refinement` | `Spec => Agrees`, that is, `KeyAgreement` is implemented |

The first part is about the AP's handlers alone. Since they are compositions of
operators on a context record, there is a lemma for each operator: which part of
`DataInv` it keeps and what it establishes, up to `CommitDone` and `ConfirmDone`,
which say what one whole call leaves and sends. `DataInv` ties the pointers to
the state: keys that were derived belong to known values (`TmpInv`), an exchange
under way has a scalar no accepted key has and coefficients that were sent and
freed, an accepted session has the last accepted key (`StateInv`).
The inductive invariant of the composition is `IInv == world \in Worlds /\ ApInv
/\ AcceptedInv /\ StaInv /\ AirInv`. `AirInv` is what makes `AcceptsOnlyShared`
inductive: a Confirm in the air towards the AP carries a key that the station has
offered, and one towards the station either an accepted key or a KCK it cannot
verify (`Honest`). `Unaccepted` is why no key is accepted twice although
Commits and Confirms are repeated: a key contains the AP's scalar, and every path
back to COMMITTED draws a new one. `AcceptedInv` and the station's part
(`StaSaeInv`: a Confirm was sent only for an offered key) then map each step to
one of `KeyAgreement`.

`FourWayProofs` proves for any bounds on events and handshakes, retry counts and
replay counter arrays (`RetriesAssumption`, `UpdateCountAssumption`, and
`NullAssumption`, NULL is no number):

| Theorem | States |
|---|---|
| `InstalledOnceAlways` | `Spec => []InstalledOnce` |
| `RestingStates` | `Spec => []TypeOK`: in every state between two calls |
| `KeysAgreeAlways` | `Spec => []KeysAgree` |
| `GtksIncreaseAlways` | `Spec => []GtksIncrease` |
| `Counts` | `Spec => []GKeyDoneCounts` |
| `LoopSettles` | `Spec => []Settled` |

Its parts are the operators of `WpaAuth`, the station alone, and both ends.

The loop of `wpa_sm_step` has the invariant `LoopInv` (`Control` for states, flags and
the group's count, `Data` for keys and frames), and every pass that enters a state
lowers `Rank`, which is at most 12 on entry. `Rank` adds how many states each of
the three machines can still enter; requests weigh as much as what they lead to,
so that a group rekeying that times out and disconnects the station is still
paid for. Rank 0 is the resting state (`Rest`), where `TypeOK` and `Settled` hold.
`Waiting` is the part that was hard to find: a handshake whose message 2/4
did not verify has no valid counter left, so a message that belongs to the group
machine cannot move it.

`InstalledOnce` holds whatever the authenticator does: of `WpaAuth` it uses only
that frames are never taken out of the air. The inductive invariant is `IInv ==
Types /\ FreshSNonce /\ FreshTptk /\ FreshPtk /\ InstalledOnce`. `InstalledOnce`
alone says nothing of the keys that may be installed next. `FreshTptk` says that the temporary PTK has an SNonce no
installed key has; it holds after a message 1/4 because of `FreshSNonce`: an
SNonce that will be used again has not been installed, for verifying a message
sets `renew_snonce`. `FreshPtk` covers a PTK that a message 1/2 has verified
without installing it, which a later message 3/4 may still install.

The inductive invariant of both ends is `KeysInv == IInv /\ ApInv /\ StaInv`.
`KeysAgree` needs that the AP installs only
what a message 4/4 confirmed (`Confirmed`), that such keys are among the
station's (`AirInv`), and that both sequences are ordered by ANonce (`ApInv`,
`TksInv`). The station's order does not follow from the ANonces it sees, because
message 1/4 can be old: `NoOlder` says that frames with a MIC for a later SNonce
have no earlier ANonce, and the station's temporary PTK always has its last
SNonce (`TptkInv`, `PtkInv`). `GtksIncrease` rests on `FrameOrder` (the AP's
frames, by ANonce and counter, carry GTKs in order) and `GtkInv`: the station's
GTK came with the last frame it accepted, so that the next one accepted
under the same PTK has a greater counter, and one under a new PTK a later ANonce.

`PmksaCacheProofs` proves for any BSSs, stations, addresses, PMKs, hash function,
limit above 0, lifetimes above 0 and installations (`CacheAssumption`, which also
says that NULL is no BSS, station, number or entry):

| Theorem | States |
|---|---|
| `CacheTypes` | `Spec => []TypeOK` |
| `LinkedAlways` | `Spec => []Linked` |
| `NeverDangling` | `Spec => []NoDangling` |
| `TimeoutsSet` | `Spec => []TimeoutSet` |
| `OneEach`, `WithinLimit` | `Spec => []OnePerSupplicant`, `Spec => []Bounded` |
| `AuthenticatesFully` | `Spec => []FullAuthentication` |

The inductive invariant `CachesInv` says of each cache that it is `Fine` and `Gone`.
`Fine` has the list with the allocated entries once each (`Listed`) and by
expiration (`Ordered`), the chains (`Chained`), the count, the pointers (`Pointed`),
the timeout (`Timely`) and, without okc, one entry per station and the limit.
`Ordered` is not in any property but `Timely` needs it: only a new head sets the
timeout, so an entry behind the head must not expire before it. `Gone` (a removed
station has no entry at all under its own address) is stronger than
`FullAuthentication`, which looks at the pointer only; what is left to a P2P client is
its device's entry, which `Pointed` allows. `Without`, `Before` and the searches are CHOOSEs; that what they
choose exists for lists of any length is shown without induction, from the
least-number principle (`Least`): the first place for which it fails would have
one before it.

`WeaverProofs` proves for any prime, any number of passwords from 2 on and any
hashes that differ modulo the prime, in both variants (`PrimeAssumption`,
`NAssumption`, `XValuesAssumption`):

| Theorem | States |
|---|---|
| `TypeOKAlways` | `Spec => []TypeOK` |
| `MasterPolynomialAlways` | `Spec => []MasterPolynomial` |
| `WovenThroughAlways` | `Spec => []WovenThrough` |

What a recursive function computes for every N needs induction, and the
library's induction theorems cannot be used because they take an operator. Here
a claim becomes a set of numbers, and the least-number principle (`Least`) gives
`Induction` for sets and `Recursion`, that the equations of a recursive function
have a solution. All loops of the code are then one kind of sequence,
f[n + 1] = u[n] + w[n] f[n] (`Affine`), about which there are few lemmas:
`Reductions` says that reducing on the way changes nothing modulo the prime,
which covers both variants at once.

The inductive invariant `Inv` says that there is a polynomial A over the integers,
whose values are the products of (X - x[j]) without any reduction, such that
array a has its coefficients up to m, and above m already those of the product
with the next factor (`InPlace`). This is the order of the in-place loop: with m
one lower than it should be, one coefficient would be of neither. Reduction and
the order of evaluation drop out because A is never computed. `Horner(A, z)` is
both the value at z and, read as a sequence, the quotient by (X - z), so that
`Quotient(k)` is the product of the other factors; its value at x[k] is
`Denominator(k)`, which is not 0 because the hashes differ and the modulus is a
prime (`NoZeroDivisors`, with the inverse from `InverseExists`, by the
least positive combination of n and the prime). `Divided` and the last conjunct
carry this through the matrix and `weave`, and `Combination` evaluates the sum: at
x[l] only the term of password l is left. TLC cannot check `Inv` as it stands,
since it speaks of all polynomials; the run checks what follows from it.

`PointEncodingProofs` proves for any curve and field of the assumptions above:

| Theorem | States |
|---|---|
| `RoundTripAlways` | `Spec => []RoundTrip` |
| `DecoysLookRealAlways` | `Spec => []DecoysLookReal` |
| `AllPreimagesAlways` | `Spec => []AllPreimages` |

The inductive invariant is `Inv`: what was encoded is a pair whose second element
stands for what is left of the point (`Encoded`). The rest is algebra, in five
steps:

* *Squares.* -1 is no square modulo a prime that is 3 mod 4, by descent
  (`MinusOne`), so not both of n and -n are (`NotBoth`). One of them is (`OneOf`):
  r -> r^2 for r below half the prime and -r^2 above is an injection of the
  elements other than 0, hence onto. So `Sqrt` finds a root just if there is one,
  and its root is the only one that is a square itself (`SqrtOnly`).
* *f.* The cubic of the curve at `X_1(u)` is -s^3 times that at `X_0(u)`, where
  s = u^2 (`CubicRelation`), so exactly one of both is a square (`OneBranch`), and
  f gives a point for every u that is not exceptional (`FIs`).
* *Addition.* A line meets the curve where a cubic is zero (`Meets`). Through two
  points that are not inverse to each other there is a line (`LineOf`, chord and
  tangent), and two points on a line add up to the inverse of the third
  (`AddOnLine`). Sums are therefore points (`AddCurve`, which gives
  `DecoysLookReal`), and the line through P and -F, mirrored, goes through F and
  P - F and meets the curve in P: (P - F) + F = P (`Undo`). Associativity is not
  needed.
* *calc_v.* f(v) is the point just if the square of v solves a quadratic with
  coefficients in omega, one for each case of y (`Preimage`); the four choices of
  signs are its solutions (`SolutionSolves`). One direction is `CalcSound`, on
  which `RoundTrip` rests, the other `CalcComplete`.
* *Distinct.* Two choices of signs give the same element only if one of the two
  roots is 0, which the assumptions exclude (`CalcDistinct`).

`PrimeFieldProofs` has what both need. Its `Multiples` predicates are how algebra
modulo the prime is done: a congruence follows from an identity over the
integers that writes the difference of both sides as a sum of multiples of known
congruences (`ByOne`, `ByTwo`, `ByThree`).

Only model-checked: liveness (`EveryFrameServed`, `Connects`, `DecoyFails`,
`HandshakeEnds`, `EveryEntryExpires`, `EveryoneThrough`), which needs fairness and
ENABLED.

## 6. Not modelled

* Mesh SAE and its retransmission timer, H2E and PT, SAE-PK, FFC groups, external
  authentication, multi-link, `CONFIG_TESTING_OPTIONS`: not used by DecoyAuth.
* Failed allocations and other failures of the crypto library, and K at
  infinity, whose probability is negligible.
* The password that the station frees after parsing a Commit: reuse needs an AP
  that reflects the station's scalar.
* The points with omega = 0 (x = -b/a), for which `calc_v` divides by zero, and
  with omega = 4 (x = 3b/a), where two choices of signs give the same field element. They exist on
  group 20 only; `PoleAssumption` and `BranchAssumption` exclude them.
* Frame lengths and coefficient ranges, number import and export: planned below.
* In the tokens: failures of the random generator and of HMAC, forged tokens, and
  P2P's own use of the functions. The branch for `comeback_idx == 0xffff` is dead.
* In the 4-way handshake: extended key IDs, WPA1, FT, FILS, MLO, OCV, WNM sleep,
  IGTK and BIGTK, mismatching elements, RADIUS-assigned PSKs, a driver that
  refuses a key, EAPOL-Key Requests for the group key, handshake offload,
  `wpa_disable_eapol_key_retries`, and the rejection of the first association for
  lack of entropy. A group has one station, so the count is 0 or 1.
* In the PMKSA cache: what entries copy to and from the EAPOL machine, entries
  stored outside for a mesh, and the station's own cache. Of P2P only the lookup
  under a device's address is modelled.
* The rest of hostap (drivers, configuration, EAP, P2P, WPS, DPP, control
  interfaces), which is most of the repository's lines and takes no part in a
  DecoyAuth connection. No model of the code that does could cover a large
  share of the repository.

## 7. Plan

Done, in this order: the queue with its proofs; the frames, both ends, their
composition and the abstract specification; the weaver; the point encoding; the
4-way and group key handshakes with a first proof; the PMKSA cache; the comeback
tokens with their proofs; the proofs about the AP, both ends and the refinement
of `KeyAgreement`; the authenticator's loop and the order of keys; the proofs about
the PMKSA cache; the proofs about the two algorithms.

Left:

1. `SaeParse`: lengths and ranges (`sae_parse_coefficient` refuses 0, 1 and
   values from the group's order on, although coefficients are field elements)
   and buffer sizes (`SAE_COMMIT_MAX_LEN`), against what the AP writes.
2. `import_bignums`/`export_bignums` of the prototype as a round trip.
