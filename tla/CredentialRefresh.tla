-------------------------- MODULE CredentialRefresh --------------------------
(***************************************************************************)
(* How a vended storage credential outlives the object store built with    *)
(* it: the caching provider that asks Unity Catalog for credentials        *)
(* (credentials/databricks.py), the daemon thread that publishes fresh     *)
(* ones in a native slot (credentials/refresh.py), and the store that      *)
(* reads the slot on every request (credential_slot.rs).                   *)
(*                                                                         *)
(* One table, one principal and one operation, so one slot; several        *)
(* provider objects share it, because a slot is named by the provider's    *)
(* credential_identity, which is the same for every copy.  A credential is *)
(* the time it was issued and the time it expires.                         *)
(***************************************************************************)
EXTENDS Integers, FiniteSets

CONSTANTS
    Callers,        \* threads that open the table
    Providers,      \* provider objects for the table, of one identity
    Lives,          \* lifetimes the catalog may give credentials, by the local clock
    Margin,         \* DEFAULT_REFRESH_MARGIN_SECONDS
    RefreshAhead,   \* REFRESH_AHEAD_SECONDS
    Retry,          \* RETRY_SECONDS, REFRESH_RETRY_BACKOFF_SECONDS
    Grace,          \* CLOCK_SKEW_GRACE_SECONDS
    MaxAge,         \* UNKNOWN_EXPIRY_MAX_AGE_SECONDS
    Idle,           \* IDLE_SECONDS
    Near,           \* NEAR_EXPIRY
    MaxWait,        \* MAX_WAIT
    VendTime,       \* how long the catalog may take to answer
    MaxTime,        \* bound on the clock
    MaxFailures,    \* bound on vends that fail
    MaxOpens,       \* bound on how often the table is opened
    None,           \* no credential, entry, slot, store, provider
    Refresher       \* the daemon thread

ASSUME TimesAssumption ==
    /\ {Margin, RefreshAhead, Retry, Grace, MaxAge, Idle, Near, MaxWait,
        VendTime, MaxTime, MaxFailures, MaxOpens} \subseteq Nat
    /\ Lives \subseteq Int
    /\ Grace > 0 /\ MaxAge > 0

ASSUME ThreadsAssumption == Refresher \notin Callers /\ None \notin Callers \cup {Refresher}

VARIABLES
    now,        \* wall clock
    prov,       \* [Providers -> cache and bookkeeping of the provider]
    vendLock,   \* [Providers -> the thread inside its vend lock, or None]
    call,       \* [Threads -> its call of credentials()]
    entry,      \* _Refresher._entries[slot]
    slot,       \* SLOTS[slot]: the published credential and its generation
    refresher,  \* where the daemon thread is in _run
    store,      \* the SlotProvider of the cached snapshot's object store
    req,        \* a storage request inside get_credential
    failures,   \* vends that failed so far
    opens,      \* times the table was opened
    life        \* how long this catalog's credentials live, if it says so

vars == <<now, prov, vendLock, call, entry, slot, refresher, store, req, failures, opens, life>>

Threads == Callers \cup {Refresher}

(* An expiry the server did not state (expires_at is None). *)
Never == MaxTime + MaxAge + 1000

Lesser(a, b) == IF a < b THEN a ELSE b
Greater(a, b) == IF a > b THEN a ELSE b

NewProvider == [alive |-> FALSE, cred |-> None, vendedAt |-> 0, retryAfter |-> 0, skewed |-> FALSE]
NoCall == [pc |-> "idle", p |-> None, cached |-> None, usable |-> FALSE, since |-> 0,
           got |-> None, retried |-> FALSE]

------------------------------------------------------------------------------
(* Credentials and the provider's cache. *)

IsExpired(c) == c.exp # Never /\ now >= c.exp

MarginFor(p, c) == Lesser(Margin, Greater(0, c.exp - prov[p].vendedAt) \div 2)

IsFresh(p, c) ==
    LET age == now - prov[p].vendedAt IN
    IF c.exp = Never THEN age < MaxAge
    ELSE IF prov[p].skewed THEN age < Grace
    ELSE now + MarginFor(p, c) < c.exp

(* How long after a failure the next attempt waits. *)
Backoff(c, at) ==
    LET left == IF c.exp = Never THEN 0 ELSE c.exp - at
    IN Lesser(Retry, Greater(1, left \div 4))

(* What a vend begun at `since` brings back: the catalog issues it then,  *)
(* and the answer takes its time.                                            *)
Issued(since) == [at |-> since, exp |-> IF life < 0 THEN Never ELSE since + life]

Ended(t, pc, c) ==
    call' = [call EXCEPT ![t] = [NoCall EXCEPT !.pc = pc, !.p = call[t].p, !.got = c,
                                           !.retried = call[t].retried]]

(* credentials(), up to the vend lock. *)
Enter(t, p) ==
    LET cached == prov[p].cred
        usable == cached # None /\ ~IsExpired(cached)
        served == \/ cached # None /\ IsFresh(p, cached)
                  \/ usable /\ now < prov[p].retryAfter
    IN call' = [call EXCEPT ![t] =
                   IF served THEN [@ EXCEPT !.pc = "got", !.p = p, !.got = cached]
                   ELSE [@ EXCEPT !.pc = "acquire", !.p = p, !.cached = cached, !.usable = usable]]

(* Mutant: what the last holder of the lock stored is not looked at. *)
BugNoSecondLook(t) ==
    LET k == call[t]
    IN /\ k.pc = "acquire"
       /\ \/ /\ vendLock[k.p] # None /\ k.usable
             /\ Ended(t, "got", k.cached)
             /\ UNCHANGED vendLock
          \/ /\ vendLock[k.p] = None
             /\ vendLock' = [vendLock EXCEPT ![k.p] = t]
             /\ call' = [call EXCEPT ![t] = [@ EXCEPT !.pc = "vending", !.since = now]]
       /\ UNCHANGED <<now, prov, entry, slot, refresher, store, req, failures, opens, life>>

(* The vend lock: refused to a caller that can do without a vend, waited    *)
(* for by one that cannot; then whatever the last holder stored is looked  *)
(* at before another vend is begun.                                        *)
Acquire(t) ==
    LET k == call[t]
        current == prov[k.p].cred
        renewed == current # None /\ current # k.cached /\ IsFresh(k.p, current)
    IN /\ k.pc = "acquire"
       /\ \/ /\ vendLock[k.p] # None /\ k.usable
             /\ Ended(t, "got", k.cached)
             /\ UNCHANGED vendLock
          \/ /\ vendLock[k.p] = None /\ renewed
             /\ Ended(t, "got", current)
             /\ UNCHANGED vendLock
          \/ /\ vendLock[k.p] = None /\ ~renewed
             /\ vendLock' = [vendLock EXCEPT ![k.p] = t]
             /\ call' = [call EXCEPT ![t] = [@ EXCEPT !.pc = "vending", !.since = now]]
       /\ UNCHANGED <<now, prov, entry, slot, refresher, store, req, failures, opens, life>>

(* The catalog answers: the credential is cached under `_lock`. *)
Answered(t) ==
    LET p == call[t].p
        c == Issued(call[t].since)
    IN
    /\ call[t].pc = "vending"
    /\ prov' = [prov EXCEPT ![p] = [@ EXCEPT !.cred = c, !.vendedAt = now, !.retryAfter = 0,
                                             !.skewed = c.exp <= now]]
    /\ Ended(t, "got", c)
    /\ vendLock' = [vendLock EXCEPT ![p] = None]
    /\ UNCHANGED <<now, entry, slot, refresher, store, req, failures, opens, life>>

(* The workspace refuses the vend or cannot be reached. *)
VendFails == failures < MaxFailures

(* The vend fails: a cached credential that still works is served, and the  *)
(* next refresh-ahead put off; otherwise the call raises.                   *)
Failed(t) ==
    LET p == call[t].p
        cached == call[t].cached
    IN /\ call[t].pc = "vending"
       /\ VendFails
       /\ IF cached # None /\ ~IsExpired(cached)
          THEN /\ prov' = [prov EXCEPT ![p].retryAfter = now + Backoff(cached, now)]
               /\ Ended(t, "got", cached)
          ELSE /\ Ended(t, "raised", None)
               /\ UNCHANGED prov
       /\ vendLock' = [vendLock EXCEPT ![p] = None]
       /\ failures' = failures + 1
       /\ UNCHANGED <<now, entry, slot, refresher, store, req, opens, life>>

------------------------------------------------------------------------------
(* Slots. *)

(* set_credential_slot *)
SetSlot(c) ==
    slot' = IF slot = None THEN [cred |-> c, gen |-> 1]
            ELSE IF slot.cred = c THEN slot
            ELSE [cred |-> c, gen |-> slot.gen + 1]

(* Mutant: the refresh is due when the credential has expired. *)
BugDueAtExpiry(c, published) == Greater(published + 1, c.exp)

Due(c, published) ==
    IF c.exp = Never THEN Never
    ELSE LET ahead == Lesser(RefreshAhead, Greater(0, c.exp - published) \div 2)
         IN Greater(published + 1, c.exp - ahead)

(* _publish, `at` being the time its caller read before it took the lock. *)
Publish(e, c, at) ==
    /\ SetSlot(c)
    /\ entry' = [e EXCEPT !.cred = c, !.published = at, !.due = Due(c, at)]

------------------------------------------------------------------------------
(* Callers: open the table, and so resolve a snapshot. *)

(* `_options` asks the table's provider, a new one if this opens the table. *)
Open(t, p) ==
    /\ call[t].pc = "idle" /\ opens < MaxOpens
    /\ opens' = opens + 1
    /\ prov' = [prov EXCEPT ![p].alive = TRUE]
    /\ Enter(t, p)
    /\ UNCHANGED <<now, vendLock, entry, slot, refresher, store, req, failures, life>>

(* A snapshot cached for the slot is reused with the store it was built     *)
(* with; one that was evicted or has moved on is resolved with a new store. *)
Resolve ==
    \/ store # None /\ UNCHANGED store
    \/ req.pc = "none" /\ store' = [gen |-> 0, cred |-> None]

(* slot_options: the slot is tracked, and the snapshot resolved. *)
Track(t) ==
    LET k == call[t]
        known == entry # None /\ entry.prov # None
        e == IF known THEN [entry EXCEPT !.used = now]
             ELSE [prov |-> k.p, cred |-> None, published |-> now, used |-> now, due |-> now]
    IN /\ k.pc = "got"
       /\ IF k.got.exp = Never THEN UNCHANGED <<entry, slot, store>>
          ELSE /\ IF e.cred # k.got THEN Publish(e, k.got, now)
                                    ELSE entry' = e /\ UNCHANGED slot
               /\ Resolve
       /\ Ended(t, "open", None)
       /\ UNCHANGED <<now, prov, vendLock, refresher, req, failures, opens, life>>

(* Storage refuses the credential: invalidate() and resolve once more. *)
Rejected(t) ==
    LET p == call[t].p IN
    /\ call[t].pc = "open" /\ ~call[t].retried
    /\ prov' = [prov EXCEPT ![p] = [NewProvider EXCEPT !.alive = TRUE]]
    /\ call' = [call EXCEPT ![t] = [@ EXCEPT !.pc = "again", !.retried = TRUE]]
    /\ UNCHANGED <<now, vendLock, entry, slot, refresher, store, req, failures, opens, life>>

Again(t) ==
    /\ call[t].pc = "again"
    /\ Enter(t, call[t].p)
    /\ UNCHANGED <<now, prov, vendLock, entry, slot, refresher, store, req, failures, opens, life>>

(* The caller lets go of the table, or its call raised. *)
Close(t) ==
    /\ call[t].pc \in {"open", "raised"}
    /\ call' = [call EXCEPT ![t] = NoCall]
    /\ UNCHANGED <<now, prov, vendLock, entry, slot, refresher, store, req, failures, opens, life>>

(* The last reference to a provider goes: its weak references read None. *)
Collect(p) ==
    /\ prov[p].alive
    /\ \A t \in Threads : call[t].p # p
    /\ prov' = [prov EXCEPT ![p] = NewProvider]
    /\ entry' = IF entry # None /\ entry.prov = p THEN [entry EXCEPT !.prov = None] ELSE entry
    /\ refresher' = IF refresher.mine = p THEN [refresher EXCEPT !.mine = None] ELSE refresher
    /\ UNCHANGED <<now, vendLock, call, slot, store, req, failures, opens, life>>

------------------------------------------------------------------------------
(* The refresher thread: _run, _refresh and _drop. *)

Choose ==
    /\ refresher.pc = "waiting"
    /\ entry # None /\ entry.due <= now
    /\ refresher' = [refresher EXCEPT !.pc = "chosen", !.mine = entry.prov]
    /\ UNCHANGED <<now, prov, vendLock, call, entry, slot, store, req, failures, opens, life>>

(* The chosen entry's provider is still referenced, so the entry is still   *)
(* the tracked one: track replaces only an entry whose provider is gone.    *)
Refresh ==
    LET p == refresher.mine IN
    /\ refresher.pc = "chosen"
    /\ IF p = None \/ now - entry.used > Idle
       THEN refresher' = [refresher EXCEPT !.pc = "doomed"] /\ UNCHANGED call
       ELSE refresher' = [refresher EXCEPT !.pc = "asking", !.at = now] /\ Enter(Refresher, p)
    /\ UNCHANGED <<now, prov, vendLock, entry, slot, store, req, failures, opens, life>>

RefreshEnds ==
    LET k == call[Refresher]
        again == refresher.at + Backoff(entry.cred, refresher.at)
    IN /\ refresher.pc = "asking"
       /\ k.pc \in {"got", "raised"}
       /\ IF k.pc = "got" /\ k.got # entry.cred THEN Publish(entry, k.got, refresher.at)
          ELSE entry' = [entry EXCEPT !.due = again] /\ UNCHANGED slot
       /\ refresher' = [pc |-> "waiting", mine |-> None, at |-> 0]
       /\ call' = [call EXCEPT ![Refresher] = NoCall]
       /\ UNCHANGED <<now, prov, vendLock, store, req, failures, opens, life>>

(* _drop: the entry of this name goes, whichever it is by now ... *)
Drop ==
    /\ refresher.pc = "doomed"
    /\ entry' = None
    /\ refresher' = [refresher EXCEPT !.pc = "dropped"]
    /\ UNCHANGED <<now, prov, vendLock, call, slot, store, req, failures, opens, life>>

(* ... and then the slot.  A request that holds the slot keeps it. *)
RemoveSlot ==
    /\ refresher.pc = "dropped"
    /\ slot' = None
    /\ req' = IF req.pc = "waiting" /\ req.held = None THEN [req EXCEPT !.held = slot] ELSE req
    /\ refresher' = [pc |-> "waiting", mine |-> None, at |-> 0]
    /\ UNCHANGED <<now, prov, vendLock, call, entry, store, failures, opens, life>>

------------------------------------------------------------------------------
(* The store: get_credential on every request. *)

NoRequest == [pc |-> "none", deadline |-> 0, held |-> None]

NearExpiry(c) == c.exp # Never /\ c.exp - now <= Near

Held == IF req.held = None THEN slot ELSE req.held

(* A request whose slot is gone takes the credential its store was built    *)
(* with and waits for nothing.                                              *)
Ask ==
    /\ store # None /\ req.pc = "none"
    /\ req' = IF slot = None THEN req
              ELSE [pc |-> "waiting", deadline |-> now + MaxWait, held |-> None]
    /\ UNCHANGED <<now, prov, vendLock, call, entry, slot, refresher, store, failures, opens, life>>

(* The request is sent what was converted for this generation of the slot,  *)
(* and that is what the store keeps.                                        *)
Serve ==
    /\ req.pc = "waiting"
    /\ NearExpiry(Held.cred) => now >= req.deadline
    /\ req' = NoRequest
    /\ store' = IF store.cred # None /\ store.gen = Held.gen THEN store
                ELSE [gen |-> Held.gen, cred |-> Held.cred]
    /\ UNCHANGED <<now, prov, vendLock, call, entry, slot, refresher, failures, opens, life>>

------------------------------------------------------------------------------
(* Time.  The daemon thread wakes within half a second of a due entry, and  *)
(* a thread's own steps take no time: it waits for the catalog, VendTime at *)
(* most, or for the lock of a thread that does.                             *)

Waits(t) ==
    LET k == call[t]
    IN \/ k.pc \in {"idle", "open"}
       \/ k.pc = "vending" /\ now < k.since + VendTime
       \/ k.pc = "acquire" /\ vendLock[k.p] # None /\ ~k.usable

RefresherWaits ==
    \/ refresher.pc = "waiting" /\ (entry # None => now < entry.due)
    \/ refresher.pc = "asking" /\ call[Refresher].pc # "idle"

(* The bound on the clock; where every credential arrives expired and each  *)
(* is replaced at once, enough to outlive the grace they are served for.    *)
Horizon == IF life = 0 THEN Grace + 2 ELSE MaxTime

Tick ==
    /\ now < Horizon
    /\ \A t \in Threads : Waits(t)
    /\ RefresherWaits
    /\ req.pc = "waiting" => now < req.deadline
    /\ now' = now + 1
    /\ UNCHANGED <<prov, vendLock, call, entry, slot, refresher, store, req, failures, opens, life>>

------------------------------------------------------------------------------
Init ==
    /\ now = 0
    /\ prov = [p \in Providers |-> NewProvider]
    /\ vendLock = [p \in Providers |-> None]
    /\ call = [t \in Threads |-> NoCall]
    /\ entry = None
    /\ slot = None
    /\ refresher = [pc |-> "waiting", mine |-> None, at |-> 0]
    /\ store = None
    /\ req = NoRequest
    /\ failures = 0
    /\ opens = 0
    /\ life \in Lives

Next ==
    \/ \E t \in Threads : Acquire(t) \/ Answered(t) \/ Failed(t)
    \/ \E t \in Callers : Track(t) \/ Rejected(t) \/ Again(t) \/ Close(t)
    \/ \E t \in Callers, p \in Providers : Open(t, p)
    \/ \E p \in Providers : Collect(p)
    \/ Choose \/ Refresh \/ RefreshEnds \/ Drop \/ RemoveSlot
    \/ Ask \/ Serve
    \/ Tick

Spec == Init /\ [][Next]_vars

------------------------------------------------------------------------------
(* Properties. *)

Credential == [at : 0..MaxTime, exp : 0..Never]
Maybe(S) == S \cup {None}
SlotState == [cred : Credential, gen : 1..(MaxTime + 2 * MaxOpens)]

(* The variables keep their types; the slot's generation stays below one per *)
(* tick and two per open, so no thread publishes without end.                *)
TypeOK ==
    /\ now \in 0..MaxTime
    /\ prov \in [Providers -> [alive : BOOLEAN, cred : Maybe(Credential), vendedAt : 0..MaxTime,
                               retryAfter : 0..(MaxTime + Retry), skewed : BOOLEAN]]
    /\ vendLock \in [Providers -> Maybe(Threads)]
    /\ call \in [Threads -> [pc : {"idle", "acquire", "vending", "got", "raised", "open", "again"},
                             p : Maybe(Providers), cached : Maybe(Credential), usable : BOOLEAN,
                             since : 0..MaxTime, got : Maybe(Credential), retried : BOOLEAN]]
    /\ entry \in Maybe([prov : Maybe(Providers), cred : Credential, published : 0..MaxTime,
                        used : 0..MaxTime, due : 0..Never])
    /\ slot \in Maybe(SlotState)
    /\ refresher \in [pc : {"waiting", "chosen", "asking", "doomed", "dropped"},
                      mine : Maybe(Providers), at : 0..MaxTime]
    /\ store \in Maybe([gen : 0..(MaxTime + 2 * MaxOpens), cred : Maybe(Credential)])
    /\ req \in [pc : {"none", "waiting"}, deadline : 0..(MaxTime + MaxWait),
                held : Maybe(SlotState)]
    /\ failures \in 0..MaxFailures
    /\ opens \in 0..MaxOpens
    /\ life \in Lives

(***************************************************************************)
(* credentials() hands out an expired credential only if it arrived        *)
(* expired by the local clock, however long the vend it waited for took    *)
(* and however that ended (databricks.py, "it is inside the margin, not    *)
(* past its expiry").                                                      *)
(***************************************************************************)
ServesLive ==
    \A t \in Threads :
        call[t].pc # "got" /\ call'[t].pc = "got"
          => ~IsExpired(call'[t].got) \/ prov'[call'[t].p].skewed

(***************************************************************************)
(* No thread asks the catalog while the provider holds a credential it     *)
(* could serve: a caller that waited for, or lost the race to, another's   *)
(* vend takes what that one stored.                                        *)
(***************************************************************************)
NoVendWhileFresh ==
    \A t \in Threads :
        call[t].pc # "vending" /\ call'[t].pc = "vending"
          => LET c == prov[call[t].p].cred
             IN c = None \/ ~IsFresh(call[t].p, c)

(* What credentials() promises its callers and the catalog, at every step.   *)
ProviderContract == [][ServesLive /\ NoVendWhileFresh]_vars

(* Enough for a vend that fails, for both back-offs that follow it (the     *)
(* provider's and the refresher's), and for a vend that does not fail.      *)
Lead == 2 * (VendTime + Retry)

(***************************************************************************)
(* While a provider of the slot is referenced and the slot is there, a     *)
(* credential that was published with time to spare does not expire in it, *)
(* even if a refresh fails: the refresher asks early enough to ask again,  *)
(* and no caller's publish, vend or invalidate() puts it off for too long. *)
(***************************************************************************)
KeptFresh ==
    entry # None /\ entry.prov # None /\ slot # None
      => (entry.cred.exp - entry.published > 2 * Lead => slot.cred.exp > now)

(* The refresher keeps its slot (refresh.py _Refresher): the types hold, the *)
(* generation stays bounded, and the credential in it is alive.              *)
SlotKept == TypeOK /\ KeptFresh

(***************************************************************************)
(* A request that found a slot is sent the credential published in it: a   *)
(* publish reaches the stores built before it (credential_slot.rs, "a      *)
(* store built with the slot's key in its options asks the slot for its    *)
(* credential on every request").                                          *)
(***************************************************************************)
PublishReaches ==
    [][req.pc = "waiting" /\ req'.pc = "none" => store'.cred = Held.cred]_vars
=============================================================================
