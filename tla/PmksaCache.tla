----------------------------- MODULE PmksaCache -----------------------------
(***************************************************************************)
(* The PMKSA caches of the BSSs of one hostapd (ap/pmksa_cache_auth.c):    *)
(* every BSS keeps its entries twice, in a list ordered by expiration and  *)
(* in hash chains by PMKID, with a count and one timeout for the head of   *)
(* the list, and every station's state machine (sm->pmksa in wpa_auth.c)   *)
(* may point at an entry.  With opportunistic key caching (okc) a BSS      *)
(* copies entries of the other BSSs.                                       *)
(*                                                                         *)
(* A PMKSA belongs to one supplicant address (Spa) and a PMK nobody else   *)
(* has.  A P2P client may have the PMKSA of its device address, under      *)
(* which a group owner adds it.  The PMKID of an SAE PMKSA comes from the exchange, that of an     *)
(* 802.1X one is a hash of the PMK and both addresses, so that another BSS *)
(* has another PMKID for the same PMK.  Time is in seconds.                *)
(***************************************************************************)
EXTENDS Naturals, Sequences, FiniteSets, Functions

CONSTANTS NULL,
          Bss,                      \* the authenticators, by address
          Spa,                      \* the supplicants
          Entry,                    \* addresses an entry can be allocated at
          Pmk,                      \* pairwise master keys
          PmkidHash,                \* PMKID_HASH() as a function of the PMK
          pmksa_cache_max_entries,
          Lifetimes,                \* session timeouts of new entries
          MaxNow,                   \* bound on the clock
          Configs                   \* the installations considered

Akmp == {"SAE", "8021X"}

Pmkids == [pmk : Pmk, aa : Bss \cup {NULL}]

\* struct rsn_pmksa_cache_entry, as far as it matters here.
PmksaEntry ==
  [spa : Spa, akmp : Akmp, pmk : Pmk, pmkid : Pmkids, expiration : 0..MaxNow]

ASSUME CacheAssumption ==
  /\ pmksa_cache_max_entries \in Nat \ {0}
  /\ Lifetimes \subseteq Nat \ {0} /\ MaxNow \in Nat
  /\ Configs \subseteq [okc : BOOLEAN, bss : SUBSET Bss, spa : SUBSET Spa,
                         p2p_dev_addr : [Spa -> Spa \cup {NULL}], events : Nat]
  /\ NULL \notin Bss \cup Spa \cup Entry /\ NULL \notin Nat \cup PmksaEntry

VARIABLES conf,     \* whether okc is configured, the BSSs and supplicants there
                    \* are, the P2P device addresses (sm->p2p_dev_addr, NULL if
                    \* not a P2P client), and the calls that are considered
          now,      \* os_get_reltime()
          pmksa,    \* per BSS: the cache and the pointers of its stations
          removed,  \* stations whose PMKSA was removed since they last
                    \* authenticated
          events    \* calls made so far

vars == <<conf, now, pmksa, removed, events>>

Hashes == {PmkidHash[k] : k \in Pmk}

\* The PMKID that the BSS aa and the station use for a PMK.
Pmkid(akmp, pmk, aa) == [pmk |-> pmk, aa |-> IF akmp = "SAE" THEN NULL ELSE aa]

PMKID_HASH(pmkid) == PmkidHash[pmkid.pmk]

\* struct rsn_pmksa_cache, the memory of its entries, its timeout in eloop,
\* and sm->pmksa of the stations of the BSS.
NewCache ==
  [pmksa |-> <<>>, chain |-> [h \in Hashes |-> <<>>], pmksa_count |-> 0,
   timeout |-> NULL, entry |-> [a \in Entry |-> NULL], sm |-> [s \in Spa |-> NULL]]

Live(c) == {a \in Entry : c.entry[a] # NULL}

-----------------------------------------------------------------------------
\* The elements of a list that are not in A, in their order.
Without(seq, A) ==
  LET kept == {i \in DOMAIN seq : seq[i] \notin A}
  IN [n \in 1..Cardinality(kept) |->
        seq[CHOOSE i \in kept : Cardinality({j \in kept : j <= i}) = n]]

\* Faulty: stations keep their
\* pointers; only the head of a hash chain is unlinked.
FreeCbForgotten(c, A) ==
  [c EXCEPT !.pmksa_count = @ - Cardinality(A),
            !.chain = [h \in Hashes |-> Without(@[h], A)],
            !.pmksa = Without(@, A),
            !.entry = [a \in Entry |-> IF a \in A THEN NULL ELSE @[a]]]

HeadOfChainOnly(c, A) ==
  [c EXCEPT !.pmksa_count = @ - Cardinality(A),
            !.sm = [s \in Spa |-> IF @[s] \in A THEN NULL ELSE @[s]],
            !.chain = [h \in Hashes |-> IF @[h] # <<>> /\ Head(@[h]) \in A
                                        THEN Tail(@[h]) ELSE @[h]],
            !.pmksa = Without(@, A),
            !.entry = [a \in Entry |-> IF a \in A THEN NULL ELSE @[a]]]

\* The entries A of the list are freed, one after the other: no station
\* points at them any more and they leave both structures.  The timeout stays.
pmksa_cache_free_entry(c, A) ==
  [c EXCEPT !.pmksa_count = @ - Cardinality(A),
            !.sm = [s \in Spa |-> IF @[s] \in A THEN NULL ELSE @[s]],
            !.chain = [h \in Hashes |->
              Without(@[h], {a \in A : PMKID_HASH(c.entry[a].pmkid) = h})],
            !.pmksa = Without(@, A),
            !.entry = [a \in Entry |-> IF a \in A THEN NULL ELSE @[a]]]

\* The timeout runs out one second after the head of the list expires.
pmksa_cache_set_expiration(c) ==
  [c EXCEPT !.timeout =
     IF c.pmksa = <<>> THEN NULL
     ELSE LET expiration == c.entry[Head(c.pmksa)].expiration
          IN (IF expiration < now THEN now ELSE expiration) + 1]

\* How many entries of the list come before a new one that expires at t.
Before(c, t) ==
  CHOOSE n \in 0..Len(c.pmksa) :
    /\ \A i \in 1..n : c.entry[c.pmksa[i]].expiration <= t
    /\ n < Len(c.pmksa) => c.entry[c.pmksa[n + 1]].expiration > t

\* Faulty: the timeout is set only once.
LinkKeepTimeout(c, a, e) ==
  LET n == Before(c, e.expiration)
      h == PMKID_HASH(e.pmkid)
      linked == [c EXCEPT !.entry[a] = e, !.pmksa_count = @ + 1,
                          !.pmksa = SubSeq(@, 1, n) \o <<a>> \o SubSeq(@, n + 1, Len(@)),
                          !.chain[h] = <<a>> \o @]
  IN IF c.timeout = NULL THEN pmksa_cache_set_expiration(linked) ELSE linked

\* The new entry e goes behind those that expire no later, and to the head of
\* its hash chain; a new head of the list sets the timeout.
pmksa_cache_link_entry(c, a, e) ==
  LET n == Before(c, e.expiration)
      h == PMKID_HASH(e.pmkid)
      linked == [c EXCEPT !.entry[a] = e, !.pmksa_count = @ + 1,
                          !.pmksa = SubSeq(@, 1, n) \o <<a>> \o SubSeq(@, n + 1, Len(@)),
                          !.chain[h] = <<a>> \o @]
  IN IF n = 0 THEN pmksa_cache_set_expiration(linked) ELSE linked

\* The first entry of seq for the supplicant s that Is() accepts, or NULL.
First(c, seq, s, Is(_)) ==
  LET found == {i \in DOMAIN seq : c.entry[seq[i]].spa = s /\ Is(c.entry[seq[i]])}
  IN IF found = {} THEN NULL
     ELSE seq[CHOOSE i \in found : \A j \in found : i <= j]

\* pmksa_cache_auth_get() with a PMKID and without one.
pmksa_cache_auth_get(c, s, pmkid) ==
  First(c, c.chain[PMKID_HASH(pmkid)], s, LAMBDA e : e.pmkid = pmkid)

GetAny(c, s) == First(c, c.pmksa, s, LAMBDA e : TRUE)

\* The entry of any BSS from which the BSS aa can use a PMK under a PMKID.
pmksa_cache_get_okc(c, aa, s, pmkid) ==
  First(c, c.pmksa, s, LAMBDA e : IF e.akmp = "SAE" THEN e.pmkid = pmkid
                                  ELSE Pmkid(e.akmp, e.pmk, aa) = pmkid)

-----------------------------------------------------------------------------
\* Memory for a new entry; which address malloc() returns makes no difference.
Allocate(c) == CHOOSE a \in Entry \ Live(c) : TRUE

\* Authentication gives a PMK that is in no cache.
Unused ==
  {k \in Pmk : \A b \in Bss : \A a \in Live(pmksa[b]) : pmksa[b].entry[a].pmk # k}

NewPmk == CHOOSE k \in Unused : TRUE

\* Faulty: only the same PMKSA is replaced, nothing makes room.
ReplaceSamePmkid(c, a, e) ==
  LET old   == pmksa_cache_auth_get(c, e.spa, e.pmkid)
      freed == IF old = NULL THEN c ELSE pmksa_cache_free_entry(c, {old})
      room  == IF freed.pmksa_count >= pmksa_cache_max_entries /\ freed.pmksa # <<>>
               THEN pmksa_cache_free_entry(freed, {Head(freed.pmksa)}) ELSE freed
  IN pmksa_cache_link_entry(room, a, e)

NoRoomMade(c, a, e) ==
  LET old   == GetAny(c, e.spa)
      freed == IF old = NULL THEN c ELSE pmksa_cache_free_entry(c, {old})
  IN pmksa_cache_link_entry(freed, a, e)

\* An entry of the same supplicant is replaced; if the cache is full still,
\* the one that expires first makes room.
pmksa_cache_auth_add_entry(c, a, e) ==
  LET old   == GetAny(c, e.spa)
      freed == IF old = NULL THEN c ELSE pmksa_cache_free_entry(c, {old})
      room  == IF freed.pmksa_count >= pmksa_cache_max_entries /\ freed.pmksa # <<>>
               THEN pmksa_cache_free_entry(freed, {Head(freed.pmksa)}) ELSE freed
  IN pmksa_cache_link_entry(room, a, e)

\* Faulty: adds the default lifetime to every other one.
ElseForgotten(b, s, akmp, session_timeout) ==
  [spa |-> s, akmp |-> akmp, pmk |-> NewPmk, pmkid |-> Pmkid(akmp, NewPmk, b),
   expiration |-> now + session_timeout + MaxNow]

\* The entry that pmksa_cache_auth_create_entry() fills in.
NewEntry(b, s, akmp, session_timeout) ==
  [spa |-> s, akmp |-> akmp, pmk |-> NewPmk, pmkid |-> Pmkid(akmp, NewPmk, b),
   expiration |-> now + session_timeout]

Changed(b, c) ==
  /\ events < conf.events /\ events' = events + 1
  /\ now < MaxNow
  /\ pmksa' = [pmksa EXCEPT ![b] = c]
  /\ UNCHANGED <<conf, now>>

\* A station has authenticated: sae_accept_sta(), the end of an EAP exchange,
\* preauthentication, PMKSA_ADD on the control interface, or the negotiation
\* of a P2P group (for the device address).
pmksa_cache_auth_add(b, s, akmp, session_timeout) ==
  /\ now + session_timeout < MaxNow
  /\ Live(pmksa[b]) # Entry
  /\ Changed(b, pmksa_cache_auth_add_entry(pmksa[b], Allocate(pmksa[b]),
                                           NewEntry(b, s, akmp, session_timeout)))
  /\ Unused # {}
  /\ removed' = removed \ {<<b, s>>}

\* The addresses under which a station's PMKSAs are looked up.
Addresses(s) == {s, conf.p2p_dev_addr[s]}

\* An association request names a PMKID (wpa_validate_wpa_ie()).  The station
\* knows the PMKs it authenticated for, under either of its addresses; any
\* other PMKID finds no entry.
KnownPmkids(b, s) ==
  {Pmkid(akmp, pmk, b) : akmp \in Akmp,
     pmk \in UNION {{pmksa[x].entry[a].pmk :
                       a \in {a \in Live(pmksa[x]) :
                               pmksa[x].entry[a].spa \in Addresses(s)}} : x \in Bss}}

\* The entry of the BSS's own cache for the PMKID: the station's or, if there
\* is none, that of its P2P device.
Cached(b, s, pmkid) ==
  LET own == pmksa_cache_auth_get(pmksa[b], s, pmkid)
      dev == conf.p2p_dev_addr[s]
  IN IF own = NULL /\ dev # NULL THEN pmksa_cache_auth_get(pmksa[b], dev, pmkid) ELSE own

UsesCached(b, s, pmkid) ==
  /\ Cached(b, s, pmkid) # NULL
  /\ Changed(b, [pmksa[b] EXCEPT !.sm[s] = Cached(b, s, pmkid)])
  /\ UNCHANGED removed

pmksa_cache_add_okc(b, s, pmkid, from) ==
  LET c   == pmksa[b]
      old == pmksa_cache_get_okc(pmksa[from], b, s, pmkid)
      a   == Allocate(c)
  IN /\ conf.okc /\ Cached(b, s, pmkid) = NULL
     /\ old # NULL /\ Live(c) # Entry
     /\ Changed(b, [pmksa_cache_link_entry(c, a, [pmksa[from].entry[old] EXCEPT !.pmkid = pmkid])
                      EXCEPT !.sm[s] = a])
     /\ UNCHANGED removed

\* No PMKID, or one that is not found: the association goes on without a
\* PMKSA or is refused.  EAPOL-Start (wpa_auth_sta_clear_pmksa()) and the end
\* of the state machine have the same effect.
UsesNone(b, s) ==
  /\ pmksa[b].sm[s] # NULL
  /\ Changed(b, [pmksa[b] EXCEPT !.sm[s] = NULL])
  /\ UNCHANGED removed

\* Faulty: spares an entry in use.
RemoveUnused(b, s) ==
  /\ Changed(b, pmksa_cache_free_entry(pmksa[b], {GetAny(pmksa[b], s)} \ {NULL, pmksa[b].sm[s]}))
  /\ removed' = removed \cup {<<b, s>>}

\* A full authentication is asked for: BSS transition management with a
\* disassociation timer, or RADIUS Disconnect-Request for a known station.
\* The search is by the station's own address.
wpa_auth_pmksa_remove(b, s) ==
  /\ Changed(b, pmksa_cache_free_entry(pmksa[b], {GetAny(pmksa[b], s)} \ {NULL}))
  /\ removed' = removed \cup {<<b, s>>}

\* RADIUS Disconnect-Request without a matching session, by address, user
\* name or session: any of the entries may match.
pmksa_cache_auth_radius_das_disconnect(b, A) ==
  /\ A # {}
  /\ Changed(b, pmksa_cache_free_entry(pmksa[b], A))
  /\ UNCHANGED removed

pmksa_cache_auth_flush(b) ==
  /\ pmksa[b].pmksa # <<>>
  /\ Changed(b, pmksa_cache_free_entry(pmksa[b], Range(pmksa[b].pmksa)))
  /\ removed' = removed \cup {b} \X Spa

\* The BSS is shut down, after its stations, and set up again.
pmksa_cache_auth_deinit(b) ==
  /\ pmksa[b] # NewCache
  /\ Changed(b, NewCache)
  /\ removed' = removed \cup {b} \X Spa

\* Faulty: the comparison the other way round.
Unexpired(c) ==
  {c.pmksa[i] : i \in {i \in 1..Len(c.pmksa) :
                         \A j \in 1..i : c.entry[c.pmksa[j]].expiration > now}}

\* The timeout: eloop removes it, then the head goes as long as it has
\* expired, and the timeout is set for the rest.
Expired(c) ==
  LET n == Before(c, now) IN {c.pmksa[i] : i \in 1..n}

pmksa_cache_expire(b) ==
  LET c == [pmksa[b] EXCEPT !.timeout = NULL]
  IN /\ pmksa[b].timeout # NULL /\ now >= pmksa[b].timeout
     /\ pmksa' = [pmksa EXCEPT ![b] =
                    pmksa_cache_set_expiration(pmksa_cache_free_entry(c, Expired(c)))]
     /\ UNCHANGED <<conf, now, removed, events>>

Tick == now < MaxNow /\ now' = now + 1 /\ UNCHANGED <<conf, pmksa, removed, events>>

Init ==
  /\ conf \in Configs /\ now = 0
  /\ pmksa = [b \in Bss |-> NewCache]
  /\ removed = {} /\ events = 0

Next ==
  \/ \E b \in conf.bss, s \in conf.spa :
       \/ \E akmp \in Akmp, t \in Lifetimes : pmksa_cache_auth_add(b, s, akmp, t)
       \/ \E pmkid \in KnownPmkids(b, s) :
            \/ UsesCached(b, s, pmkid)
            \/ \E from \in conf.bss : pmksa_cache_add_okc(b, s, pmkid, from)
       \/ UsesNone(b, s)
       \/ wpa_auth_pmksa_remove(b, s)
  \/ \E b \in conf.bss :
       \/ \E A \in SUBSET Live(pmksa[b]) : pmksa_cache_auth_radius_das_disconnect(b, A)
       \/ pmksa_cache_auth_flush(b)
       \/ pmksa_cache_auth_deinit(b)
       \/ pmksa_cache_expire(b)
  \/ Tick

Spec == Init /\ [][Next]_vars

\* Time passes, and eloop_run() calls every timeout that is due.
FairSpec == Spec /\ WF_vars(Tick) /\ \A b \in Bss : WF_vars(pmksa_cache_expire(b))

-----------------------------------------------------------------------------
\* Types of the variables.
TypeOK ==
  /\ conf \in Configs /\ now \in 0..MaxNow /\ events \in 0..conf.events
  /\ removed \subseteq Bss \X Spa
  /\ \A b \in Bss :
       /\ pmksa[b].pmksa_count \in Nat
       /\ pmksa[b].timeout \in 0..(MaxNow + 1) \cup {NULL}
       /\ Range(pmksa[b].pmksa) \subseteq Entry
       /\ \A a \in Live(pmksa[b]) : pmksa[b].entry[a].expiration \in 0..MaxNow

\* The list and the hash chains hold exactly the entries that are allocated,
\* each once, and the count is their number: whatever order entries are added,
\* copied, replaced and freed in, a PMKID is found if and only if the list,
\* which expiration goes by, has its entry.
Linked ==
  \A b \in Bss : LET c == pmksa[b] IN
    /\ Range(c.pmksa) = Live(c)
    /\ Len(c.pmksa) = c.pmksa_count /\ c.pmksa_count = Cardinality(Live(c))
    /\ \A h \in Hashes :
         LET here == {a \in Live(c) : PMKID_HASH(c.entry[a].pmkid) = h}
         IN Range(c.chain[h]) = here /\ Len(c.chain[h]) = Cardinality(here)

\* A station's state machine, which reads the PMK of sm->pmksa in the 4-way
\* handshake, points at an entry that is allocated and its own, under either
\* of its addresses.
NoDangling ==
  \A b \in Bss, s \in Spa :
    LET a == pmksa[b].sm[s]
    IN a # NULL => a \in Live(pmksa[b]) /\ pmksa[b].entry[a].spa \in Addresses(s)

\* A cache with entries has its timeout set, and for no later than a second
\* after its first entry expires, although freeing an entry never sets it.
TimeoutSet ==
  \A b \in Bss : LET c == pmksa[b] IN
    \A a \in Live(c) :
      /\ c.timeout # NULL
      /\ c.timeout <= c.entry[a].expiration + 1 \/ c.timeout <= now + 1

\* Without okc a cache holds one PMKSA of a supplicant, the one it
\* authenticated for last.  (pmksa_cache_add_okc() replaces none.)
OnePerSupplicant ==
  ~conf.okc => \A b \in Bss : LET c == pmksa[b] IN
            \A a1, a2 \in Live(c) : c.entry[a1].spa = c.entry[a2].spa => a1 = a2

\* Without okc a cache keeps within pmksa_cache_max_entries, whichever entries
\* are replaced or make room.  (pmksa_cache_add_okc() does not look at the count.)
Bounded == ~conf.okc => \A b \in Bss : pmksa[b].pmksa_count <= pmksa_cache_max_entries

\* "Prevent STA from reconnecting using cached PMKSA to force full
\* authentication": without okc, a station whose PMKSA was removed has none
\* until it has authenticated again, unless it is a P2P client whose device
\* has one under another address.
FullAuthentication ==
  ~conf.okc => \A b \in Bss, s \in Spa :
    LET a == pmksa[b].sm[s]
    IN <<b, s>> \in removed /\ a # NULL =>
         /\ pmksa[b].entry[a].spa # s
         /\ pmksa[b].entry[a].spa = conf.p2p_dev_addr[s]

\* No PMKSA stays for ever, in whichever order entries come and go: when
\* stations authenticate no more, every cache is empty in the end.
EveryEntryExpires == \A b \in Bss : <>[](Live(pmksa[b]) = {})
=============================================================================
