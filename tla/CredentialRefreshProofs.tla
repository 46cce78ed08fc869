---------------------- MODULE CredentialRefreshProofs ----------------------
(***************************************************************************)
(* Proof that the caching provider keeps its contract                      *)
(* (CredentialRefresh.ProviderContract), whatever the number of threads    *)
(* and providers, the lifetimes and the margins: credentials() serves no   *)
(* credential that expired in its cache, and no thread asks the catalog    *)
(* while the provider holds a fresh one.                                   *)
(*                                                                         *)
(* Both rest on when a credential was asked for: one asked for in this     *)
(* tick is fresh, so a thread that waits for the vend lock holds an older  *)
(* one than the vend under way will bring.                                 *)
(***************************************************************************)
EXTENDS CredentialRefresh, TLAPS

-----------------------------------------------------------------------------
(* The inductive invariant. *)

AnyCredential == [at : Int, exp : Int]
ProviderState == [alive : BOOLEAN, cred : Maybe(AnyCredential), vendedAt : Int,
                  retryAfter : Int, skewed : BOOLEAN]
CallState == [pc : {"idle", "acquire", "vending", "got", "raised", "open", "again"},
              p : Maybe(Providers), cached : Maybe(AnyCredential), usable : BOOLEAN,
              since : Int, got : Maybe(AnyCredential), retried : BOOLEAN]
RefresherState == [pc : {"waiting", "chosen", "asking", "doomed", "dropped"},
                   mine : Maybe(Providers), at : Int]

\* There is an entry, for a provider that may be gone.
Tracked == "prov" \in DOMAIN entry /\ entry.prov \in Maybe(Providers)

\* The types, with no bound on times and generations.
Typed ==
    /\ now \in Int
    /\ life \in Int
    /\ prov \in [Providers -> ProviderState]
    /\ vendLock \in [Providers -> Maybe(Threads)]
    /\ call \in [Threads -> CallState]
    /\ entry # None \/ refresher.pc \in {"chosen", "asking"} => Tracked
    /\ refresher \in RefresherState
    /\ refresher.pc # "asking" => call[Refresher].pc = "idle"

\* A cached credential was asked for before it was answered, and marked as
\* skewed if it arrived expired.
Dated ==
    \A p \in Providers : prov[p].cred # None =>
        /\ prov[p].cred.at <= prov[p].vendedAt
        /\ prov[p].vendedAt <= now
        /\ prov[p].skewed <=> prov[p].cred.exp <= prov[p].vendedAt

\* The vend lock of a provider is held by the one thread that vends for it, and
\* what the provider has cached is older than that vend.
Vending ==
    /\ \A t \in Threads : call[t].pc = "vending" => vendLock[call[t].p] = t
    /\ \A p \in Providers : vendLock[p] # None =>
          LET k == call[vendLock[p]]
          IN /\ k.pc = "vending"
             /\ k.p = p
             /\ k.since <= now
             /\ prov[p].cred # None => prov[p].cred.at < k.since

\* What a thread saw before it came to the vend lock: if it can do without a
\* vend, its credential works; it is not fresh, and older than the vend under way.
Seen(k) ==
    /\ k.pc # "idle" => k.p \in Providers
    /\ k.pc = "acquire" =>
          /\ k.usable => k.cached # None /\ ~IsExpired(k.cached)
          /\ k.cached # None =>
                /\ k.cached.at < now
                /\ prov[k.p].cred = k.cached => ~IsFresh(k.p, k.cached)
                /\ vendLock[k.p] # None => k.cached.at < call[vendLock[k.p]].since

Waiting == \A t \in Threads : Seen(call[t])

Inv == Typed /\ Dated /\ Vending /\ Waiting

-----------------------------------------------------------------------------
(* Freshness. *)

\* The times are integers, and the ones that bound a vend are positive.
LEMMA Numbers ==
    /\ Margin \in Nat /\ MaxAge \in Nat /\ Grace \in Nat /\ Retry \in Nat
    /\ Grace > 0 /\ MaxAge > 0
    /\ Never \in Int /\ MaxTime \in Nat
BY TimesAssumption DEF Never

\* A fresh credential has not expired, unless it arrived so.
LEMMA FreshIsLive ==
    ASSUME Typed, NEW p \in Providers, NEW c \in AnyCredential, IsFresh(p, c)
    PROVE  ~IsExpired(c) \/ prov[p].skewed
<1> DEFINE m == MarginFor(p, c)
<1>1. now \in Int /\ prov[p].vendedAt \in Int /\ c.exp \in Int
  BY DEF Typed, ProviderState, AnyCredential
<1>2. m \in Int /\ m >= 0
  BY <1>1, Numbers DEF MarginFor, Lesser, Greater
<1> HIDE DEF m
<1> QED BY <1>1, <1>2, Numbers DEF IsFresh, IsExpired, m

\* The cached credential is fresh in the tick it was asked for.
LEMMA NewIsFresh ==
    ASSUME Typed, Dated, NEW p \in Providers, prov[p].cred # None, ~IsFresh(p, prov[p].cred)
    PROVE  prov[p].cred.at < now
<1> DEFINE c == prov[p].cred
           m == MarginFor(p, c)
<1>1. now \in Int /\ prov[p].vendedAt \in Int /\ c \in AnyCredential /\ c.exp \in Int
      /\ c.at \in Int
  BY DEF Typed, ProviderState, AnyCredential, Maybe
<1> SUFFICES ASSUME c.at >= now PROVE FALSE
  BY <1>1
<1>2. prov[p].vendedAt = now /\ (prov[p].skewed <=> c.exp <= now)
  BY <1>1 DEF Dated
<1>3. ASSUME c.exp > now PROVE now + m < c.exp
  <2>1. m <= (c.exp - now) \div 2
    BY <1>1, <1>2, <1>3, Numbers DEF MarginFor, Lesser, Greater
  <2>2. m \in Int
    BY <1>1, <1>2, Numbers DEF MarginFor, Lesser, Greater
  <2> HIDE DEF m, c
  <2> QED BY <1>1, <1>3, <2>1, <2>2
<1> HIDE DEF m
<1> QED BY <1>1, <1>2, <1>3, Numbers DEF IsFresh, m

\* What the invariant reads of a provider stays, or its credential is forgotten.
Milder(p) ==
    \/ prov'[p].cred = None
    \/ /\ prov'[p].cred = prov[p].cred
       /\ prov'[p].vendedAt = prov[p].vendedAt
       /\ prov'[p].skewed = prov[p].skewed

\* Whether a credential is fresh for a provider depends on the clock and on when the
\* provider last vended.
LEMMA FreshnessKept ==
    ASSUME NEW p, NEW c, now' = now, prov'[p].vendedAt = prov[p].vendedAt,
           prov'[p].skewed = prov[p].skewed
    PROVE  IsFresh(p, c)' <=> IsFresh(p, c)
BY DEF IsFresh, MarginFor, Lesser, Greater

-----------------------------------------------------------------------------
(* Steps that vend nothing. *)

\* A thread moves on, with or without giving up the vend lock, and no credential
\* is cached.
Onward(t, x) ==
    /\ now' = now
    /\ \A p \in Providers : Milder(p)
    /\ call' = [call EXCEPT ![t] = x]
    /\ x.pc # "vending"
    /\ \/ vendLock' = vendLock /\ call[t].pc # "vending"
       \/ /\ call[t].pc = "vending"
          /\ vendLock' = [vendLock EXCEPT ![call[t].p] = None]

\* A call that moves on without an answer keeps the invariant.
LEMMA OnwardKept ==
    ASSUME Inv, NEW t \in Threads, NEW x \in CallState, Onward(t, x), Seen(x)
    PROVE  Dated' /\ Vending' /\ Waiting'
<1> USE DEF Onward
<1>0. call \in [Threads -> CallState] /\ prov \in [Providers -> ProviderState]
      /\ vendLock \in [Providers -> Maybe(Threads)]
  BY DEF Inv, Typed
<1>1. call'[t] = x /\ \A u \in Threads \ {t} : call'[u] = call[u]
  BY <1>0
<1>2. \A p \in Providers : vendLock'[p] # None =>
          /\ vendLock'[p] = vendLock[p]
          /\ vendLock[p] \in Threads
          /\ vendLock[p] # t
          /\ call'[vendLock[p]] = call[vendLock[p]]
  <2> SUFFICES ASSUME NEW p \in Providers, vendLock'[p] # None
               PROVE  vendLock'[p] = vendLock[p] /\ vendLock[p] \in Threads /\ vendLock[p] # t
    BY <1>1
  <2>1. vendLock'[p] = vendLock[p] /\ vendLock[p] \in Threads
    BY <1>0 DEF Maybe
  <2>2. call[vendLock[p]].pc = "vending" /\ call[vendLock[p]].p = p
    BY <2>1 DEF Inv, Vending
  <2>3. call[t].pc = "vending" => call[t].p # p
    BY <1>0, <2>1, <2>2
  <2> QED BY <2>1, <2>2, <2>3
<1>3. Dated'
  BY DEF Inv, Dated, Milder
<1>4. Vending'
  <2>1. ASSUME NEW u \in Threads, call'[u].pc = "vending"
        PROVE  vendLock'[call'[u].p] = u
    <3>1. u # t /\ call'[u] = call[u] /\ vendLock[call[u].p] = u /\ call[u].p \in Providers
      BY <1>1, <2>1 DEF Inv, Vending, Waiting, Seen
    <3>2. call[t].pc = "vending" => vendLock[call[t].p] = t
      BY DEF Inv, Vending
    <3>3. call[t].pc = "vending" => call[t].p # call[u].p
      BY <3>1, <3>2
    <3> QED BY <1>0, <3>1, <3>3
  <2>2. ASSUME NEW p \in Providers, vendLock'[p] # None
        PROVE  LET k == call'[vendLock'[p]]
               IN /\ k.pc = "vending"
                  /\ k.p = p
                  /\ k.since <= now'
                  /\ prov'[p].cred # None => prov'[p].cred.at < k.since
    <3>1. vendLock'[p] = vendLock[p] /\ vendLock[p] # None
          /\ call'[vendLock'[p]] = call[vendLock[p]] /\ Milder(p)
      BY <1>2, <2>2
    <3> QED BY <3>1 DEF Inv, Vending, Milder
  <2> QED BY <2>1, <2>2 DEF Vending
<1>5. ASSUME NEW k \in CallState, Seen(k) PROVE Seen(k)'
  <2> SUFFICES ASSUME k.pc = "acquire", k.p \in Providers
               PROVE  /\ k.usable => k.cached # None /\ ~IsExpired(k.cached)'
                      /\ k.cached # None =>
                            /\ k.cached.at < now'
                            /\ prov'[k.p].cred = k.cached => ~IsFresh(k.p, k.cached)'
                            /\ vendLock'[k.p] # None => k.cached.at < call'[vendLock'[k.p]].since
    BY <1>5 DEF Seen
  <2>1. k.usable => k.cached # None /\ ~IsExpired(k.cached)'
    BY <1>5 DEF Seen, IsExpired
  <2>2. ASSUME k.cached # None, prov'[k.p].cred = k.cached PROVE ~IsFresh(k.p, k.cached)'
    <3>1. Milder(k.p)
      OBVIOUS
    <3>2. prov[k.p].cred = k.cached /\ prov'[k.p].vendedAt = prov[k.p].vendedAt
          /\ prov'[k.p].skewed = prov[k.p].skewed
      BY <2>2, <3>1 DEF Milder
    <3>3. ~IsFresh(k.p, k.cached)
      BY <1>5, <2>2, <3>2 DEF Seen
    <3> QED BY <3>2, <3>3, FreshnessKept
  <2>3. ASSUME k.cached # None, vendLock'[k.p] # None
        PROVE  k.cached.at < call'[vendLock'[k.p]].since
    BY <1>2, <1>5, <2>3 DEF Seen
  <2> QED BY <1>5, <2>1, <2>2, <2>3 DEF Seen
<1>6. Waiting'
  <2> SUFFICES ASSUME NEW u \in Threads PROVE Seen(call[u])'
    BY DEF Waiting
  <2>1. PICK k \in CallState : k = call'[u] /\ Seen(k)
    BY <1>0, <1>1 DEF Inv, Waiting
  <2>2. Seen(k)'
    BY <1>5, <2>1
  <2> QED BY <2>1, <2>2 DEF Seen, IsFresh, IsExpired, MarginFor
<1> QED BY <1>3, <1>4, <1>6

-----------------------------------------------------------------------------
(* The provider's steps. *)

Contract == ServesLive /\ NoVendWhileFresh

\* A step that only moves thread t can break the contract for t alone.
LEMMA ContractOfOne ==
    ASSUME NEW t \in Threads, NEW x, Typed, call' = [call EXCEPT ![t] = x],
           call[t].pc # "got" /\ x.pc = "got" => ~IsExpired(x.got) \/ prov'[x.p].skewed,
           call[t].pc # "vending" /\ x.pc = "vending" =>
               LET c == prov[call[t].p].cred
               IN c = None \/ ~IsFresh(call[t].p, c)
    PROVE  Contract
<1>1. call'[t] = x /\ \A u \in Threads \ {t} : call'[u] = call[u]
  BY DEF Typed
<1>2. ServesLive
  BY <1>1 DEF ServesLive
<1>3. NoVendWhileFresh
  BY <1>1 DEF NoVendWhileFresh
<1> QED BY <1>2, <1>3 DEF Contract

\* So does a call that enters a provider: it is served what is fresh, or waits for
\* the lock.
LEMMA EnterKept ==
    ASSUME Inv, NEW t \in Threads, NEW p \in Providers, Enter(t, p), call[t].pc # "vending",
           now' = now, vendLock' = vendLock,
           \A q \in Providers : Milder(q) /\ prov'[q].skewed = prov[q].skewed
    PROVE  /\ Dated' /\ Vending' /\ Waiting' /\ Contract
           /\ call' \in [Threads -> CallState]
<1> DEFINE c == prov[p].cred
           usable == c # None /\ ~IsExpired(c)
           served == (c # None /\ IsFresh(p, c)) \/ (usable /\ now < prov[p].retryAfter)
           kGot == [call[t] EXCEPT !.pc = "got", !.p = p, !.got = c]
           kAcq == [call[t] EXCEPT !.pc = "acquire", !.p = p, !.cached = c, !.usable = usable]
<1>0. /\ Typed /\ call \in [Threads -> CallState] /\ call[t] \in CallState
      /\ c \in Maybe(AnyCredential)
      /\ usable \in BOOLEAN /\ p \in Maybe(Providers)
  BY DEF Inv, Typed, ProviderState, Maybe
<1>1. kGot \in CallState /\ kAcq \in CallState
  <2> HIDE DEF c, usable
  <2> QED BY <1>0 DEF CallState
<1>2. /\ kGot.pc = "got" /\ kGot.p = p /\ kGot.got = c
      /\ kAcq.pc = "acquire" /\ kAcq.p = p /\ kAcq.cached = c /\ kAcq.usable = usable
  <2> HIDE DEF c, usable
  <2> QED BY <1>0 DEF CallState
<1>3. \/ served /\ call' = [call EXCEPT ![t] = kGot]
      \/ ~served /\ call' = [call EXCEPT ![t] = kAcq]
  BY DEF Enter
<1>4. ~served => Seen(kAcq)
  <2>1. ASSUME ~served, c # None PROVE c.at < now /\ ~IsFresh(p, c)
    BY <1>0, <2>1, NewIsFresh DEF Inv
  <2>2. ASSUME c # None, vendLock[p] # None PROVE c.at < call[vendLock[p]].since
    BY <2>2 DEF Inv, Vending
  <2>3. usable => c # None /\ ~IsExpired(c)
    OBVIOUS
  <2> HIDE DEF c, usable, served, kAcq
  <2> QED BY <1>2, <2>1, <2>2, <2>3 DEF Seen
<1>5. served => ~IsExpired(c) \/ prov'[p].skewed
  <2>1. c # None => c \in AnyCredential
    BY <1>0 DEF Maybe
  <2> QED BY <1>0, <2>1, FreshIsLive
<1> HIDE DEF c, usable, served, kGot, kAcq
<1>6. CASE served
  <2>1. call' = [call EXCEPT ![t] = kGot]
    BY <1>3, <1>6
  <2>2. Onward(t, kGot) /\ Seen(kGot)
    BY <1>2, <2>1 DEF Onward, Seen
  <2>3. Contract
    BY <1>0, <1>2, <1>5, <1>6, <2>1, ContractOfOne
  <2> QED BY <1>0, <1>1, <2>1, <2>2, <2>3, OnwardKept
<1>7. CASE ~served
  <2>1. call' = [call EXCEPT ![t] = kAcq]
    BY <1>3, <1>7
  <2>2. Onward(t, kAcq) /\ Seen(kAcq)
    BY <1>2, <1>4, <1>7, <2>1 DEF Onward
  <2>3. Contract
    BY <1>0, <1>2, <2>1, ContractOfOne
  <2> QED BY <1>0, <1>1, <2>1, <2>2, <2>3, OnwardKept
<1> QED BY <1>6, <1>7

\* The record a call ends in.
LEMMA EndedAs ==
    ASSUME Typed, NEW t \in Threads, NEW pc \in {"got", "raised", "open"},
           NEW c \in Maybe(AnyCredential), Ended(t, pc, c), call[t].p \in Providers
    PROVE  \E x \in CallState :
               /\ x.pc = pc /\ x.p = call[t].p /\ x.got = c
               /\ call' = [call EXCEPT ![t] = x]
               /\ call' \in [Threads -> CallState]
               /\ Seen(x)
<1> DEFINE x == [NoCall EXCEPT !.pc = pc, !.p = call[t].p, !.got = c, !.retried = call[t].retried]
<1>1. call' = [call EXCEPT ![t] = x]
  BY DEF Ended
<1>2. call[t] \in CallState /\ call \in [Threads -> CallState]
  BY DEF Typed
<1>3. NoCall \in CallState
  BY DEF NoCall, CallState, Maybe
<1>4. x \in CallState /\ x.pc = pc /\ x.p = call[t].p /\ x.got = c
  BY <1>2, <1>3 DEF CallState, Maybe
<1> HIDE DEF x
<1>5. Seen(x)
  BY <1>4 DEF Seen
<1> QED BY <1>1, <1>2, <1>4, <1>5

\* The lock is taken: what another thread vended meanwhile is served, or a vend
\* begins.
LEMMA AcquireKept ==
    ASSUME Inv, NEW t \in Threads, Acquire(t)
    PROVE  Inv' /\ Contract
<1> DEFINE k == call[t]
           p == k.p
           current == prov[p].cred
           renewed == current # None /\ current # k.cached /\ IsFresh(p, current)
<1>0. /\ Typed /\ call \in [Threads -> CallState] /\ k \in CallState /\ k.pc = "acquire"
      /\ p \in Providers /\ Seen(k) /\ current \in Maybe(AnyCredential)
      /\ k.cached \in Maybe(AnyCredential)
      /\ UNCHANGED <<now, prov, entry, refresher, life>>
  <2>1. Typed /\ call \in [Threads -> CallState] /\ k \in CallState /\ k.pc = "acquire" /\ Seen(k)
        /\ prov \in [Providers -> ProviderState]
        /\ UNCHANGED <<now, prov, entry, refresher, life>>
    BY DEF Acquire, Inv, Typed, Waiting
  <2>2. p \in Providers
    BY <2>1 DEF Seen
  <2> QED BY <2>1, <2>2 DEF ProviderState, CallState
<1>1. \/ vendLock[p] # None /\ k.usable /\ Ended(t, "got", k.cached) /\ vendLock' = vendLock
      \/ vendLock[p] = None /\ renewed /\ Ended(t, "got", current) /\ vendLock' = vendLock
      \/ /\ vendLock[p] = None /\ ~renewed
         /\ vendLock' = [vendLock EXCEPT ![p] = t]
         /\ call' = [call EXCEPT ![t] = [k EXCEPT !.pc = "vending", !.since = now]]
  BY DEF Acquire
<1>2. \A q \in Providers : Milder(q)
  BY <1>0 DEF Milder
<1>3. t # Refresher \/ refresher.pc = "asking"
  BY <1>0 DEF Typed
<1>4. k.usable => ~IsExpired(k.cached)
  BY <1>0 DEF Seen
<1>5. renewed => ~IsExpired(current) \/ prov[p].skewed
  BY <1>0, FreshIsLive DEF Maybe
<1>6. ASSUME NEW c \in Maybe(AnyCredential), Ended(t, "got", c), vendLock' = vendLock,
             ~IsExpired(c) \/ prov[p].skewed
      PROVE  Inv' /\ Contract
  <2>1. PICK x \in CallState :
            /\ x.pc = "got" /\ x.p = p /\ x.got = c
            /\ call' = [call EXCEPT ![t] = x]
            /\ call' \in [Threads -> CallState]
            /\ Seen(x)
    BY <1>0, <1>6, EndedAs
  <2>2. Onward(t, x)
    BY <1>0, <1>2, <1>6, <2>1 DEF Onward
  <2>3. Dated' /\ Vending' /\ Waiting'
    BY <2>1, <2>2, OnwardKept
  <2>4. Typed'
    BY <1>0, <1>3, <1>6, <2>1 DEF Typed, Tracked
  <2>5. Contract
    BY <1>0, <1>6, <2>1, ContractOfOne
  <2> QED BY <2>3, <2>4, <2>5 DEF Inv
<1>7. ASSUME vendLock[p] = None, ~renewed, vendLock' = [vendLock EXCEPT ![p] = t],
             call' = [call EXCEPT ![t] = [k EXCEPT !.pc = "vending", !.since = now]]
      PROVE  Inv' /\ Contract
  <2> DEFINE x == [k EXCEPT !.pc = "vending", !.since = now]
  <2>1. now \in Int /\ vendLock \in [Providers -> Maybe(Threads)]
    BY <1>0 DEF Typed
  <2>2. x \in CallState /\ x.pc = "vending" /\ x.p = p /\ x.since = now
    BY <1>0, <2>1 DEF CallState
  <2>3. call' = [call EXCEPT ![t] = x]
    BY <1>7
  <2> HIDE DEF x, k
  <2>4. call'[t] = x /\ \A u \in Threads \ {t} : call'[u] = call[u]
    BY <1>0, <2>3
  <2>5. vendLock'[p] = t /\ \A q \in Providers \ {p} : vendLock'[q] = vendLock[q]
    BY <1>0, <1>7, <2>1
  <2>6. current = None \/ (~IsFresh(p, current) /\ current.at < now)
    <3>1. current # None => ~IsFresh(p, current)
      BY <1>0, <1>7 DEF Seen
    <3> QED BY <1>0, <3>1, NewIsFresh DEF Inv
  <2>7. Contract
    BY <1>0, <2>2, <2>3, <2>6, ContractOfOne DEF k
  <2>8. Typed'
    <3>1. call' \in [Threads -> CallState] /\ vendLock' \in [Providers -> Maybe(Threads)]
      BY <1>0, <1>7, <2>1, <2>2, <2>3 DEF Maybe
    <3>2. refresher.pc # "asking" => call'[Refresher] = call[Refresher]
      BY <1>3, <2>4 DEF Threads
    <3> QED BY <1>0, <3>1, <3>2 DEF Typed, Tracked
  <2>9. Dated'
    BY <1>0 DEF Inv, Dated
  <2>10. Vending'
    <3>1. ASSUME NEW u \in Threads, call'[u].pc = "vending"
          PROVE  vendLock'[call'[u].p] = u
      <4>1. CASE u = t
        BY <2>2, <2>4, <2>5, <4>1
      <4>2. CASE u # t
        <5>1. call'[u] = call[u] /\ vendLock[call[u].p] = u /\ call[u].p \in Providers
          BY <2>4, <3>1, <4>2 DEF Inv, Vending, Waiting, Seen
        <5>2. call[u].p # p
          BY <1>7, <5>1, ThreadsAssumption DEF Threads
        <5> QED BY <2>5, <5>1, <5>2
      <4> QED BY <4>1, <4>2
    <3>2. ASSUME NEW q \in Providers, vendLock'[q] # None
          PROVE  LET z == call'[vendLock'[q]]
                 IN /\ z.pc = "vending"
                    /\ z.p = q
                    /\ z.since <= now'
                    /\ prov'[q].cred # None => prov'[q].cred.at < z.since
      <4>1. CASE q = p
        BY <1>0, <2>1, <2>2, <2>4, <2>5, <2>6, <4>1
      <4>2. CASE q # p
        <5>1. vendLock'[q] = vendLock[q] /\ vendLock[q] \in Threads
          BY <2>1, <2>5, <3>2, <4>2 DEF Maybe
        <5>2. call[vendLock[q]].p = q
          BY <3>2, <5>1 DEF Inv, Vending
        <5>3. vendLock[q] # t
          BY <4>2, <5>2 DEF k
        <5> QED BY <1>0, <2>4, <3>2, <5>1, <5>3 DEF Inv, Vending
      <4> QED BY <4>1, <4>2
    <3> QED BY <3>1, <3>2 DEF Vending
  <2>11. Waiting'
    <3> SUFFICES ASSUME NEW u \in Threads PROVE Seen(call[u])'
      BY DEF Waiting
    <3>1. CASE u = t
      <4>1. call'[u] = x
        BY <2>4, <3>1
      <4> QED BY <1>0, <2>2, <4>1 DEF Seen
    <3>2. CASE u # t
      <4>1. call'[u] = call[u] /\ Seen(call[u]) /\ call[u] \in CallState
        BY <1>0, <2>4, <3>2 DEF Inv, Waiting
      <4>2. ASSUME call[u].pc = "acquire", call[u].cached # None, vendLock'[call[u].p] # None
            PROVE  call[u].cached.at < call'[vendLock'[call[u].p]].since
        <5>1. call[u].p \in Providers /\ call[u].cached.at < now
          BY <4>1, <4>2 DEF Seen
        <5>2. CASE call[u].p = p
          BY <2>2, <2>4, <2>5, <5>1, <5>2
        <5>3. CASE call[u].p # p
          <6>1. vendLock'[call[u].p] = vendLock[call[u].p] /\ vendLock[call[u].p] \in Threads
            BY <2>1, <2>5, <4>2, <5>1, <5>3 DEF Maybe
          <6>2. call[vendLock[call[u].p]].p = call[u].p
            BY <4>2, <5>1, <6>1 DEF Inv, Vending
          <6>3. vendLock[call[u].p] # t
            BY <5>3, <6>2 DEF k
          <6> QED BY <2>4, <4>1, <4>2, <6>1, <6>3 DEF Seen
        <5> QED BY <5>2, <5>3
      <4> QED BY <1>0, <4>1, <4>2 DEF Seen, IsFresh, IsExpired, MarginFor
    <3> QED BY <3>1, <3>2
  <2> QED BY <2>7, <2>8, <2>9, <2>10, <2>11 DEF Inv
<1> QED BY <1>0, <1>1, <1>4, <1>5, <1>6, <1>7

\* The catalog answers a vend.
LEMMA AnsweredKept ==
    ASSUME Inv, NEW t \in Threads, Answered(t)
    PROVE  Inv' /\ Contract
<1> DEFINE k == call[t]
           p == k.p
           c == Issued(k.since)
           late == c.exp <= now
           np == [prov[p] EXCEPT !.cred = c, !.vendedAt = now, !.retryAfter = 0, !.skewed = late]
<1>0. /\ Typed /\ call \in [Threads -> CallState] /\ k \in CallState /\ k.pc = "vending"
      /\ now \in Int /\ life \in Int /\ k.since \in Int
      /\ prov \in [Providers -> ProviderState] /\ vendLock \in [Providers -> Maybe(Threads)]
      /\ UNCHANGED <<now, entry, refresher, life>>
  BY DEF Answered, Inv, Typed, CallState
<1>1. p \in Providers /\ vendLock[p] = t /\ k.since <= now
  <2>1. p \in Providers /\ vendLock[p] = t
    BY <1>0 DEF Inv, Waiting, Seen, Vending
  <2>2. t # None
    BY ThreadsAssumption DEF Threads
  <2> QED BY <2>1, <2>2 DEF Inv, Vending
<1>2. c \in AnyCredential /\ c.at = k.since /\ c.exp \in Int
  BY <1>0, Numbers DEF Issued, AnyCredential
<1>3. /\ prov' = [prov EXCEPT ![p] = np]
      /\ Ended(t, "got", c)
      /\ vendLock' = [vendLock EXCEPT ![p] = None]
  BY DEF Answered
<1> HIDE DEF c
<1>4. prov[p] \in ProviderState /\ late \in BOOLEAN /\ c \in Maybe(AnyCredential)
  BY <1>0, <1>1, <1>2 DEF Maybe
<1>5. np \in ProviderState /\ np.cred = c /\ np.vendedAt = now /\ (np.skewed <=> c.exp <= now)
  <2> HIDE DEF late
  <2>1. np \in ProviderState /\ np.cred = c /\ np.vendedAt = now /\ np.skewed = late
    <3>1. \A r \in ProviderState : [r EXCEPT !.cred = c] \in ProviderState
      BY <1>4 DEF ProviderState
    <3>2. \A r \in ProviderState : [r EXCEPT !.vendedAt = now] \in ProviderState
      BY <1>0 DEF ProviderState
    <3>3. \A r \in ProviderState : [r EXCEPT !.retryAfter = 0] \in ProviderState
      BY DEF ProviderState
    <3>4. \A r \in ProviderState : [r EXCEPT !.skewed = late] \in ProviderState
      BY <1>4 DEF ProviderState
    <3>5. np \in ProviderState
      BY <1>4, <3>1, <3>2, <3>3, <3>4, Zenon
    <3>6. np.cred = c /\ np.vendedAt = now /\ np.skewed = late
      BY <1>4 DEF ProviderState
    <3> QED BY <3>5, <3>6
  <2> QED BY <2>1 DEF late
<1> HIDE DEF np, k
<1>6. prov'[p] = np /\ \A q \in Providers \ {p} : prov'[q] = prov[q]
  BY <1>0, <1>1, <1>3
<1>7. vendLock'[p] = None /\ \A q \in Providers \ {p} : vendLock'[q] = vendLock[q]
  BY <1>0, <1>1, <1>3
<1>8. PICK x \in CallState :
          /\ x.pc = "got" /\ x.p = p /\ x.got = c
          /\ call' = [call EXCEPT ![t] = x]
          /\ call' \in [Threads -> CallState]
          /\ Seen(x)
  BY <1>0, <1>1, <1>2, <1>3, EndedAs DEF k, Maybe
<1>9. call'[t] = x /\ \A u \in Threads \ {t} : call'[u] = call[u]
  BY <1>0, <1>8
<1>10. Contract
  <2>1. ~IsExpired(c) \/ prov'[x.p].skewed
    BY <1>0, <1>2, <1>5, <1>6, <1>8 DEF IsExpired
  <2> QED BY <1>0, <1>8, <2>1, ContractOfOne
<1>11. Typed'
  <2>1. prov' \in [Providers -> ProviderState] /\ vendLock' \in [Providers -> Maybe(Threads)]
    BY <1>0, <1>3, <1>5 DEF Maybe
  <2>2. refresher.pc # "asking" => t # Refresher
    BY <1>0 DEF Typed, k
  <2>3. refresher.pc # "asking" => call'[Refresher].pc = "idle"
    BY <1>0, <1>9, <2>2 DEF Typed, Threads
  <2> QED BY <1>0, <1>8, <2>1, <2>3 DEF Typed, Tracked
<1>12. Dated'
  <2> SUFFICES ASSUME NEW q \in Providers, prov'[q].cred # None
               PROVE  /\ prov'[q].cred.at <= prov'[q].vendedAt
                      /\ prov'[q].vendedAt <= now'
                      /\ prov'[q].skewed <=> prov'[q].cred.exp <= prov'[q].vendedAt
    BY DEF Dated
  <2>1. CASE q = p
    BY <1>0, <1>1, <1>2, <1>5, <1>6, <2>1
  <2>2. CASE q # p
    <3>1. prov'[q] = prov[q]
      BY <1>6, <2>2
    <3> QED BY <1>0, <3>1 DEF Inv, Dated
  <2> QED BY <2>1, <2>2
<1>13. Vending'
  <2>1. ASSUME NEW u \in Threads, call'[u].pc = "vending"
        PROVE  vendLock'[call'[u].p] = u
    <3>1. u # t /\ call'[u] = call[u] /\ vendLock[call[u].p] = u /\ call[u].p \in Providers
      BY <1>8, <1>9, <2>1 DEF Inv, Vending, Waiting, Seen
    <3> QED BY <1>1, <1>7, <3>1
  <2>2. ASSUME NEW q \in Providers, vendLock'[q] # None
        PROVE  LET z == call'[vendLock'[q]]
               IN /\ z.pc = "vending"
                  /\ z.p = q
                  /\ z.since <= now'
                  /\ prov'[q].cred # None => prov'[q].cred.at < z.since
    <3>1. q # p /\ vendLock'[q] = vendLock[q] /\ prov'[q] = prov[q] /\ vendLock[q] \in Threads
      BY <1>0, <1>6, <1>7, <2>2 DEF Maybe
    <3>2. call[vendLock[q]].p = q
      BY <2>2, <3>1 DEF Inv, Vending
    <3>3. call'[vendLock[q]] = call[vendLock[q]]
      BY <1>9, <3>1, <3>2 DEF k
    <3> QED BY <1>0, <2>2, <3>1, <3>3 DEF Inv, Vending
  <2> QED BY <2>1, <2>2 DEF Vending
<1>14. Waiting'
  <2> SUFFICES ASSUME NEW u \in Threads PROVE Seen(call[u])'
    BY DEF Waiting
  <2>1. CASE u = t
    BY <1>1, <1>8, <1>9, <2>1 DEF Seen
  <2>2. CASE u # t
    <3>1. call'[u] = call[u] /\ Seen(call[u]) /\ call[u] \in CallState
      BY <1>0, <1>9, <2>2 DEF Inv, Waiting
    <3>2. CASE call[u].pc # "acquire"
      BY <3>1, <3>2 DEF Seen
    <3>3. CASE call[u].pc = "acquire" /\ call[u].p = p
      <4>1. vendLock[p] # None /\ vendLock'[p] = None
        BY <1>1, <1>7, ThreadsAssumption DEF Threads
      <4>2. call[u].cached # None => call[u].cached.at < k.since
        BY <1>1, <3>1, <3>3, <4>1 DEF Seen, k
      <4>3. call[u].cached # None => call[u].cached # prov'[p].cred
        BY <1>2, <1>0, <1>5, <1>6, <4>2
      <4> QED BY <1>0, <3>1, <3>3, <4>1, <4>3 DEF Seen, IsExpired
    <3>4. CASE call[u].pc = "acquire" /\ call[u].p # p
      <4>1. call[u].p \in Providers
        BY <3>1, <3>4 DEF Seen
      <4>2. vendLock'[call[u].p] = vendLock[call[u].p] /\ prov'[call[u].p] = prov[call[u].p]
        BY <1>6, <1>7, <3>4, <4>1
      <4>3. vendLock[call[u].p] # None =>
               vendLock[call[u].p] \in Threads /\ vendLock[call[u].p] # t
        BY <1>0, <3>4, <4>1 DEF Inv, Vending, Maybe, k
      <4>4. vendLock[call[u].p] # None =>
               call'[vendLock[call[u].p]] = call[vendLock[call[u].p]]
        BY <1>9, <4>3
      <4> QED BY <1>0, <3>1, <4>2, <4>4 DEF Seen, IsFresh, IsExpired, MarginFor
    <3> QED BY <3>2, <3>3, <3>4
  <2> QED BY <2>1, <2>2
<1> QED BY <1>10, <1>11, <1>12, <1>13, <1>14 DEF Inv

\* A vend fails: a credential that has not expired is served in its place.
LEMMA FailedKept ==
    ASSUME Inv, NEW t \in Threads, Failed(t)
    PROVE  Inv' /\ Contract
<1> DEFINE k == call[t]
           p == k.p
           c == k.cached
<1>0. /\ Typed /\ call \in [Threads -> CallState] /\ k \in CallState /\ k.pc = "vending"
      /\ now \in Int /\ c \in Maybe(AnyCredential)
      /\ prov \in [Providers -> ProviderState] /\ vendLock \in [Providers -> Maybe(Threads)]
      /\ vendLock' = [vendLock EXCEPT ![p] = None]
      /\ UNCHANGED <<now, entry, refresher, life>>
  BY DEF Failed, Inv, Typed, CallState
<1>1. p \in Providers
  BY <1>0 DEF Inv, Waiting, Seen
<1>2. \E d \in Maybe(AnyCredential), pc \in {"got", "raised"} :
          Ended(t, pc, d) /\ (pc = "got" => ~IsExpired(d))
  <2>1. \/ Ended(t, "got", c) /\ ~IsExpired(c)
        \/ Ended(t, "raised", None)
    BY DEF Failed
  <2>2. None \in Maybe(AnyCredential)
    BY DEF Maybe
  <2> QED BY <1>0, <2>1, <2>2
<1>3. prov' = prov \/ \E r \in Int : prov' = [prov EXCEPT ![p].retryAfter = r]
  <2>1. prov' = prov \/ (c # None /\ prov' = [prov EXCEPT ![p].retryAfter = now + Backoff(c, now)])
    BY DEF Failed
  <2>2. c # None => now + Backoff(c, now) \in Int
    BY <1>0, Numbers DEF Backoff, Lesser, Greater, Maybe, AnyCredential
  <2> QED BY <2>1, <2>2
<1>4. prov' \in [Providers -> ProviderState] /\ \A q \in Providers : Milder(q)
  <2>1. ASSUME NEW r \in Int, prov' = [prov EXCEPT ![p].retryAfter = r]
        PROVE  prov' \in [Providers -> ProviderState] /\ \A q \in Providers : Milder(q)
    <3> DEFINE np == [prov[p] EXCEPT !.retryAfter = r]
    <3>1. np \in ProviderState /\ np.cred = prov[p].cred /\ np.vendedAt = prov[p].vendedAt
          /\ np.skewed = prov[p].skewed
      BY <1>0, <1>1 DEF ProviderState
    <3>2. prov' = [prov EXCEPT ![p] = np]
      BY <2>1
    <3> HIDE DEF np
    <3> QED BY <1>0, <1>1, <3>1, <3>2 DEF Milder
  <2> QED BY <1>0, <1>3, <2>1 DEF Milder
<1>5. PICK d \in Maybe(AnyCredential), pc \in {"got", "raised"} :
          Ended(t, pc, d) /\ (pc = "got" => ~IsExpired(d))
  BY <1>2
<1>6. PICK x \in CallState :
          /\ x.pc = pc /\ x.p = p /\ x.got = d
          /\ call' = [call EXCEPT ![t] = x]
          /\ call' \in [Threads -> CallState]
          /\ Seen(x)
  BY <1>0, <1>1, <1>5, EndedAs
<1>7. Onward(t, x)
  BY <1>0, <1>4, <1>5, <1>6 DEF Onward
<1>8. Contract
  BY <1>0, <1>5, <1>6, ContractOfOne
<1>9. Typed'
  <2>1. vendLock' \in [Providers -> Maybe(Threads)]
    BY <1>0 DEF Maybe
  <2>2. refresher.pc # "asking" => t # Refresher
    BY <1>0 DEF Typed
  <2>3. refresher.pc # "asking" => call'[Refresher].pc = "idle"
    BY <1>0, <1>6, <2>2 DEF Typed, Threads
  <2> QED BY <1>0, <1>4, <1>6, <2>1, <2>3 DEF Typed, Tracked
<1> QED BY <1>6, <1>7, <1>8, <1>9, OnwardKept DEF Inv

-----------------------------------------------------------------------------
(* The callers' steps. *)

\* A provider is tracked by the refresher.
LEMMA TrackKept ==
    ASSUME Inv, NEW t \in Callers, Track(t)
    PROVE  Inv' /\ Contract
<1> DEFINE k == call[t]
           known == entry # None /\ entry.prov # None
           e == IF known THEN [entry EXCEPT !.used = now]
                ELSE [prov |-> k.p, cred |-> None, published |-> now, used |-> now, due |-> now]
<1>0. /\ Typed /\ t \in Threads /\ t # Refresher /\ call \in [Threads -> CallState]
      /\ k.pc = "got"
      /\ UNCHANGED <<now, prov, vendLock, refresher, life>>
      /\ Ended(t, "open", None)
  BY ThreadsAssumption DEF Track, Inv, Typed, Threads
<1>1. k.p \in Providers
  BY <1>0 DEF Inv, Waiting, Seen
<1>2. "prov" \in DOMAIN e /\ e.prov \in Maybe(Providers)
  BY <1>0, <1>1 DEF Typed, Tracked, Maybe
<1>3. \/ entry' = entry \/ entry' = e
      \/ entry' = [e EXCEPT !.cred = k.got, !.published = now, !.due = Due(k.got, now)]
  BY DEF Track, Publish
<1> HIDE DEF e, k
<1>4. entry' # None \/ refresher'.pc \in {"chosen", "asking"} => Tracked'
  BY <1>0, <1>2, <1>3 DEF Typed, Tracked
<1>5. PICK x \in CallState :
          /\ x.pc = "open"
          /\ call' = [call EXCEPT ![t] = x]
          /\ call' \in [Threads -> CallState]
          /\ Seen(x)
  BY <1>0, <1>1, EndedAs DEF Maybe, k
<1>6. Onward(t, x)
  BY <1>0, <1>5 DEF Onward, Milder, k
<1>7. Typed'
  BY <1>0, <1>4, <1>5 DEF Typed, Threads
<1>8. Contract
  BY <1>0, <1>5, ContractOfOne
<1> QED BY <1>0, <1>5, <1>6, <1>7, <1>8, OnwardKept DEF Inv

\* Storage rejects a credential, and it is forgotten.
LEMMA RejectedKept ==
    ASSUME Inv, NEW t \in Callers, Rejected(t)
    PROVE  Inv' /\ Contract
<1> DEFINE k == call[t]
           p == k.p
           np == [NewProvider EXCEPT !.alive = TRUE]
           x == [k EXCEPT !.pc = "again", !.retried = TRUE]
<1>0. /\ Typed /\ t \in Threads /\ t # Refresher /\ call \in [Threads -> CallState]
      /\ prov \in [Providers -> ProviderState]
      /\ k \in CallState /\ k.pc = "open"
      /\ UNCHANGED <<now, vendLock, entry, refresher, life>>
      /\ prov' = [prov EXCEPT ![p] = np]
      /\ call' = [call EXCEPT ![t] = x]
  BY ThreadsAssumption DEF Rejected, Inv, Typed, Threads
<1>1. p \in Providers
  BY <1>0 DEF Inv, Waiting, Seen
<1>2. np \in ProviderState /\ np.cred = None
  <2>1. NewProvider \in ProviderState /\ NewProvider.cred = None
    BY DEF NewProvider, ProviderState, Maybe
  <2> QED BY <2>1 DEF ProviderState
<1>3. x \in CallState /\ x.pc = "again" /\ x.p = p
  BY <1>0 DEF CallState
<1> HIDE DEF np, x, k
<1>4. prov' \in [Providers -> ProviderState] /\ \A q \in Providers : Milder(q)
  BY <1>0, <1>1, <1>2 DEF Milder
<1>5. Onward(t, x) /\ Seen(x)
  BY <1>0, <1>1, <1>3, <1>4 DEF Onward, Seen, k
<1>6. Typed'
  BY <1>0, <1>3, <1>4 DEF Typed, Tracked, Threads
<1>7. Contract
  BY <1>0, <1>3, ContractOfOne
<1> QED BY <1>0, <1>3, <1>5, <1>6, <1>7, OnwardKept DEF Inv

\* A caller lets go of the table.
LEMMA CloseKept ==
    ASSUME Inv, NEW t \in Callers, Close(t)
    PROVE  Inv' /\ Contract
<1>0. /\ Typed /\ t \in Threads /\ t # Refresher /\ call \in [Threads -> CallState]
      /\ call[t].pc \in {"open", "raised"}
      /\ UNCHANGED <<now, prov, vendLock, entry, refresher, life>>
      /\ call' = [call EXCEPT ![t] = NoCall]
  BY ThreadsAssumption DEF Close, Inv, Typed, Threads
<1>1. NoCall \in CallState /\ NoCall.pc = "idle"
  BY DEF NoCall, CallState, Maybe
<1>2. Onward(t, NoCall) /\ Seen(NoCall)
  BY <1>0, <1>1 DEF Onward, Seen, Milder
<1>3. Typed'
  BY <1>0, <1>1 DEF Typed, Tracked, Threads
<1>4. Contract
  BY <1>0, <1>1, ContractOfOne
<1> QED BY <1>0, <1>1, <1>2, <1>3, <1>4, OnwardKept DEF Inv

\* A caller opens the table.
LEMMA OpenKept ==
    ASSUME Inv, NEW t \in Callers, NEW p \in Providers, Open(t, p)
    PROVE  Inv' /\ Contract
<1> DEFINE np == [prov[p] EXCEPT !.alive = TRUE]
<1>0. /\ Typed /\ t \in Threads /\ t # Refresher /\ call \in [Threads -> CallState]
      /\ prov \in [Providers -> ProviderState]
      /\ call[t].pc = "idle" /\ Enter(t, p)
      /\ UNCHANGED <<now, vendLock, entry, refresher, life>>
      /\ prov' = [prov EXCEPT ![p] = np]
  BY ThreadsAssumption DEF Open, Inv, Typed, Threads
<1>1. np \in ProviderState /\ np.cred = prov[p].cred /\ np.vendedAt = prov[p].vendedAt
      /\ np.skewed = prov[p].skewed
  BY <1>0 DEF ProviderState
<1> HIDE DEF np
<1>2. prov' \in [Providers -> ProviderState]
      /\ \A q \in Providers : Milder(q) /\ prov'[q].skewed = prov[q].skewed
  BY <1>0, <1>1 DEF Milder
<1>3. Dated' /\ Vending' /\ Waiting' /\ Contract /\ call' \in [Threads -> CallState]
  BY <1>0, <1>2, EnterKept
<1>4. call'[Refresher] = call[Refresher]
  BY <1>0 DEF Enter, Threads
<1> QED BY <1>0, <1>2, <1>3, <1>4 DEF Inv, Typed, Tracked

\* A caller whose credential was rejected asks once more.
LEMMA AgainKept ==
    ASSUME Inv, NEW t \in Callers, Again(t)
    PROVE  Inv' /\ Contract
<1>0. /\ Typed /\ t \in Threads /\ t # Refresher /\ call \in [Threads -> CallState]
      /\ call[t].pc = "again" /\ Enter(t, call[t].p)
      /\ UNCHANGED <<now, prov, vendLock, entry, refresher, life>>
  BY ThreadsAssumption DEF Again, Inv, Typed, Threads
<1>1. call[t].p \in Providers
  BY <1>0 DEF Inv, Waiting, Seen
<1>2. \A q \in Providers : Milder(q) /\ prov'[q].skewed = prov[q].skewed
  BY <1>0 DEF Milder
<1>3. Dated' /\ Vending' /\ Waiting' /\ Contract /\ call' \in [Threads -> CallState]
  BY <1>0, <1>1, <1>2, EnterKept
<1>4. call'[Refresher] = call[Refresher]
  BY <1>0 DEF Enter, Threads
<1> QED BY <1>0, <1>3, <1>4 DEF Inv, Typed, Tracked

\* A provider nobody refers to is collected; the refresher only has a weak reference.
LEMMA CollectKept ==
    ASSUME Inv, NEW p \in Providers, Collect(p)
    PROVE  Inv' /\ Contract
<1>0. /\ Typed /\ prov \in [Providers -> ProviderState] /\ call \in [Threads -> CallState]
      /\ prov' = [prov EXCEPT ![p] = NewProvider]
      /\ entry' = entry \/ (entry # None /\ entry' = [entry EXCEPT !.prov = None])
      /\ refresher' = refresher \/ refresher' = [refresher EXCEPT !.mine = None]
      /\ UNCHANGED <<now, vendLock, call, life>>
  BY DEF Collect, Inv, Typed
<1>1. NewProvider \in ProviderState /\ NewProvider.cred = None
  BY DEF NewProvider, ProviderState, Maybe
<1>2. prov' \in [Providers -> ProviderState] /\ \A q \in Providers : Milder(q)
  BY <1>0, <1>1 DEF Milder
<1>3. entry' # None \/ refresher.pc \in {"chosen", "asking"} => Tracked'
  BY <1>0 DEF Typed, Tracked, Maybe
<1>4. refresher' \in RefresherState /\ refresher'.pc = refresher.pc
  BY <1>0 DEF Typed, RefresherState, Maybe
<1>5. Typed'
  BY <1>0, <1>2, <1>3, <1>4 DEF Typed
<1>6. Dated'
  BY <1>0, <1>2 DEF Inv, Dated, Milder
<1>7. Vending'
  BY <1>0, <1>2 DEF Inv, Vending, Milder
<1>8. Waiting'
  <2> SUFFICES ASSUME NEW u \in Threads PROVE Seen(call[u])'
    BY DEF Waiting
  <2>1. Seen(call[u]) /\ call'[u] = call[u]
    BY <1>0 DEF Inv, Waiting
  <2>2. call[u].pc = "acquire" /\ call[u].cached # None /\ prov'[call[u].p].cred = call[u].cached
           => ~IsFresh(call[u].p, call[u].cached)'
    <3> SUFFICES ASSUME call[u].pc = "acquire", call[u].cached # None,
                        prov'[call[u].p].cred = call[u].cached
                 PROVE  ~IsFresh(call[u].p, call[u].cached)'
      OBVIOUS
    <3>1. call[u].p \in Providers /\ Milder(call[u].p)
      BY <1>2, <2>1 DEF Seen
    <3>2. call[u].p # p
      BY <1>0 DEF Collect
    <3>3. prov'[call[u].p] = prov[call[u].p]
      BY <1>0, <3>1, <3>2
    <3> QED BY <1>0, <2>1, <3>3 DEF Seen, IsFresh, MarginFor
  <2> QED BY <1>0, <2>1, <2>2 DEF Seen, IsExpired
<1>9. Contract
  BY <1>0 DEF Contract, ServesLive, NoVendWhileFresh
<1> QED BY <1>5, <1>6, <1>7, <1>8, <1>9 DEF Inv

-----------------------------------------------------------------------------
(* The refresher's steps, the store's, and time. *)

\* Steps that leave the provider, its lock and its calls alone.
LEMMA ElsewhereKept ==
    ASSUME Inv, UNCHANGED <<now, life, prov, vendLock, call>>,
           entry' # None \/ refresher'.pc \in {"chosen", "asking"} => Tracked',
           refresher' \in RefresherState,
           refresher.pc = "asking" => refresher'.pc = "asking"
    PROVE  Inv' /\ Contract
<1>1. Typed'
  BY DEF Inv, Typed
<1>2. Dated' /\ Vending'
  BY DEF Inv, Dated, Vending
<1>3. Waiting'
  BY DEF Inv, Waiting, Seen, IsFresh, IsExpired, MarginFor
<1>4. Contract
  BY DEF Contract, ServesLive, NoVendWhileFresh
<1> QED BY <1>1, <1>2, <1>3, <1>4 DEF Inv

\* The steps of the refresher and of the slot that touch no provider.
LEMMA ElsewhereSteps ==
    ASSUME Inv, Choose \/ Drop \/ RemoveSlot \/ Ask \/ Serve \/ UNCHANGED vars
    PROVE  Inv' /\ Contract
<1>0. Typed /\ refresher \in RefresherState
      /\ (entry # None \/ refresher.pc \in {"chosen", "asking"} => Tracked)
  BY DEF Inv, Typed
<1>1. UNCHANGED <<now, life, prov, vendLock, call>>
  BY DEF Choose, Drop, RemoveSlot, Ask, Serve, vars
<1>2. CASE Choose
  BY <1>0, <1>1, <1>2, ElsewhereKept DEF Choose, RefresherState, Tracked
<1>3. CASE Drop
  BY <1>0, <1>1, <1>3, ElsewhereKept DEF Drop, RefresherState, Tracked
<1>4. CASE RemoveSlot
  BY <1>0, <1>1, <1>4, ElsewhereKept DEF RemoveSlot, RefresherState, Tracked, Maybe
<1>5. CASE Ask \/ Serve \/ UNCHANGED vars
  BY <1>0, <1>1, <1>5, ElsewhereKept DEF Ask, Serve, Tracked, vars
<1> QED BY <1>2, <1>3, <1>4, <1>5

\* The refresher calls a provider as any caller does.
LEMMA RefreshKept ==
    ASSUME Inv, Refresh
    PROVE  Inv' /\ Contract
<1>0. /\ Typed /\ refresher \in RefresherState /\ Refresher \in Threads /\ now \in Int
      /\ refresher.pc = "chosen" /\ call[Refresher].pc = "idle"
      /\ UNCHANGED <<now, prov, vendLock, entry, life>>
  BY DEF Refresh, Inv, Typed, Threads
<1>1. \/ refresher' = [refresher EXCEPT !.pc = "doomed"] /\ call' = call
      \/ /\ refresher.mine # None
         /\ refresher' = [refresher EXCEPT !.pc = "asking", !.at = now]
         /\ Enter(Refresher, refresher.mine)
  BY DEF Refresh
<1>2. CASE refresher' = [refresher EXCEPT !.pc = "doomed"] /\ call' = call
  <2>1. refresher' \in RefresherState
    BY <1>0, <1>2 DEF RefresherState
  <2> QED BY <1>0, <1>2, <2>1, ElsewhereKept DEF Typed, Tracked
<1>3. CASE /\ refresher.mine # None
           /\ refresher' = [refresher EXCEPT !.pc = "asking", !.at = now]
           /\ Enter(Refresher, refresher.mine)
  <2>1. refresher' \in RefresherState /\ refresher'.pc = "asking" /\ refresher.mine \in Providers
    BY <1>0, <1>3 DEF RefresherState, Maybe
  <2>2. \A q \in Providers : Milder(q) /\ prov'[q].skewed = prov[q].skewed
    BY <1>0 DEF Milder
  <2>3. Dated' /\ Vending' /\ Waiting' /\ Contract /\ call' \in [Threads -> CallState]
    BY <1>0, <1>3, <2>1, <2>2, EnterKept
  <2> QED BY <1>0, <2>1, <2>3 DEF Inv, Typed, Tracked
<1> QED BY <1>1, <1>2, <1>3

\* A refresh ends, with a credential or an error.
LEMMA RefreshEndsKept ==
    ASSUME Inv, RefreshEnds
    PROVE  Inv' /\ Contract
<1>0. /\ Typed /\ Refresher \in Threads /\ call \in [Threads -> CallState]
      /\ call[Refresher].pc \in {"got", "raised"}
      /\ refresher' = [pc |-> "waiting", mine |-> None, at |-> 0]
      /\ call' = [call EXCEPT ![Refresher] = NoCall]
      /\ UNCHANGED <<now, prov, vendLock, life>>
  BY DEF RefreshEnds, Inv, Typed, Threads
<1>1. NoCall \in CallState /\ NoCall.pc = "idle"
  BY DEF NoCall, CallState, Maybe
<1>2. Onward(Refresher, NoCall) /\ Seen(NoCall)
  BY <1>0, <1>1 DEF Onward, Seen, Milder
<1> DEFINE k == call[Refresher]
<1>3. \/ entry' = [entry EXCEPT !.due = refresher.at + Backoff(entry.cred, refresher.at)]
      \/ entry' = [entry EXCEPT !.cred = k.got, !.published = refresher.at,
                                !.due = Due(k.got, refresher.at)]
  BY DEF RefreshEnds, Publish
<1>4. Tracked'
  <2>1. Tracked
    BY <1>0 DEF RefreshEnds, Typed
  <2> QED BY <1>3, <2>1 DEF Tracked
<1>5. refresher' \in RefresherState
  BY <1>0 DEF RefresherState, Maybe
<1>6. Typed'
  BY <1>0, <1>1, <1>4, <1>5 DEF Typed
<1>7. Contract
  BY <1>0, <1>1, ContractOfOne
<1> QED BY <1>0, <1>1, <1>2, <1>6, <1>7, OnwardKept DEF Inv

\* Time passes only while nobody can do without a vend, and makes nothing fresh.
LEMMA TickKept ==
    ASSUME Inv, Tick
    PROVE  Inv' /\ Contract
<1>0. /\ Typed /\ now \in Int /\ now' = now + 1
      /\ prov \in [Providers -> ProviderState] /\ vendLock \in [Providers -> Maybe(Threads)]
      /\ call \in [Threads -> CallState]
      /\ UNCHANGED <<prov, vendLock, call, entry, refresher, life>>
  BY DEF Tick, Inv, Typed
<1>1. Typed'
  BY <1>0 DEF Typed, Tracked
<1>2. Dated'
  <2> SUFFICES ASSUME NEW p \in Providers, prov[p].cred # None
               PROVE  prov[p].vendedAt <= now'
    BY <1>0 DEF Inv, Dated
  <2>1. prov[p].vendedAt \in Int /\ prov[p].vendedAt <= now
    BY <1>0 DEF Inv, Dated, ProviderState
  <2> QED BY <1>0, <2>1
<1>3. Vending'
  <2> SUFFICES ASSUME NEW p \in Providers, vendLock[p] # None
               PROVE  call[vendLock[p]].since <= now'
    BY <1>0 DEF Inv, Vending
  <2>1. call[vendLock[p]].since \in Int
    BY <1>0 DEF Maybe, CallState
  <2>2. call[vendLock[p]].since <= now
    BY DEF Inv, Vending
  <2> QED BY <1>0, <2>1, <2>2
<1>4. Waiting'
  <2> SUFFICES ASSUME NEW t \in Threads, call[t].pc = "acquire", Seen(call[t]),
                      call[t].p \in Providers
               PROVE  /\ ~call[t].usable
                      /\ call[t].cached # None =>
                            /\ call[t].cached.at < now'
                            /\ prov[call[t].p].cred = call[t].cached =>
                                  ~IsFresh(call[t].p, call[t].cached)'
    BY <1>0 DEF Inv, Waiting, Seen
  <2>1. ~call[t].usable
    BY DEF Tick, Waits
  <2> SUFFICES ASSUME call[t].cached # None
               PROVE  /\ call[t].cached.at < now'
                      /\ prov[call[t].p].cred = call[t].cached =>
                            ~IsFresh(call[t].p, call[t].cached)'
    BY <2>1
  <2> DEFINE p == call[t].p
             c == call[t].cached
             m == MarginFor(p, c)
  <2>2. c \in AnyCredential /\ c.at \in Int /\ c.exp \in Int /\ prov[p].vendedAt \in Int
    BY <1>0 DEF CallState, Maybe, AnyCredential, ProviderState
  <2>3. c.at < now'
    BY <1>0, <2>2 DEF Seen
  <2>4. ASSUME prov[p].cred = c PROVE ~IsFresh(p, c)'
    <3>1. ~IsFresh(p, c)
      BY <2>4 DEF Seen
    <3>2. m \in Int /\ m' = m
      BY <1>0, <2>2, Numbers DEF MarginFor, Lesser, Greater
    <3> HIDE DEF m
    <3>3. IsFresh(p, c) <=> IF c.exp = Never THEN now - prov[p].vendedAt < MaxAge
                            ELSE IF prov[p].skewed THEN now - prov[p].vendedAt < Grace
                            ELSE now + m < c.exp
      BY DEF IsFresh, m
    <3>4. IsFresh(p, c)' <=> IF c.exp = Never THEN now' - prov[p].vendedAt < MaxAge
                             ELSE IF prov[p].skewed THEN now' - prov[p].vendedAt < Grace
                             ELSE now' + m < c.exp
      BY <1>0, <3>2 DEF IsFresh, m
    <3> HIDE DEF c, p
    <3> QED BY <1>0, <2>2, <3>1, <3>2, <3>3, <3>4, Numbers
  <2> QED BY <2>3, <2>4
<1>5. Contract
  BY <1>0 DEF Contract, ServesLive, NoVendWhileFresh
<1> QED BY <1>1, <1>2, <1>3, <1>4, <1>5 DEF Inv

-----------------------------------------------------------------------------
\* The invariant holds initially.
LEMMA InvInit == Init => Inv
<1> SUFFICES ASSUME Init PROVE Inv
  OBVIOUS
<1>1. NewProvider \in ProviderState /\ NewProvider.cred = None
  BY DEF NewProvider, ProviderState, Maybe
<1>2. NoCall \in CallState /\ NoCall.pc = "idle"
  BY DEF NoCall, CallState, Maybe
<1>3. Typed
  BY <1>1, <1>2, TimesAssumption DEF Init, Typed, RefresherState, Maybe, Threads
<1>4. Dated
  BY <1>1 DEF Init, Dated
<1>5. Vending
  BY <1>2 DEF Init, Vending
<1>6. Waiting
  BY <1>2 DEF Init, Waiting, Seen
<1> QED BY <1>3, <1>4, <1>5, <1>6 DEF Inv

\* Every step keeps the invariant and the contract.
LEMMA StepKept == ASSUME Inv, [Next]_vars PROVE Inv' /\ Contract
<1>1. CASE \E t \in Threads : Acquire(t) \/ Answered(t) \/ Failed(t)
  BY <1>1, AcquireKept, AnsweredKept, FailedKept
<1>2. CASE \E t \in Callers : Track(t) \/ Rejected(t) \/ Again(t) \/ Close(t)
  BY <1>2, TrackKept, RejectedKept, AgainKept, CloseKept
<1>3. CASE \E t \in Callers, p \in Providers : Open(t, p)
  BY <1>3, OpenKept
<1>4. CASE \E p \in Providers : Collect(p)
  BY <1>4, CollectKept
<1>5. CASE Choose \/ Drop \/ RemoveSlot \/ Ask \/ Serve \/ UNCHANGED vars
  BY <1>5, ElsewhereSteps
<1>6. CASE Refresh
  BY <1>6, RefreshKept
<1>7. CASE RefreshEnds
  BY <1>7, RefreshEndsKept
<1>8. CASE Tick
  BY <1>8, TickKept
<1> QED BY <1>1, <1>2, <1>3, <1>4, <1>5, <1>6, <1>7, <1>8 DEF Next

\* DatabricksCredentialProvider.credentials(): for any number of threads and
\* provider objects, whatever the lifetimes, margins and failures, no credential
\* is served after it expired in the cache, and none is asked of the catalog while
\* the provider holds a fresh one.
THEOREM ProviderKeepsContract == Spec => ProviderContract
<1>1. Inv /\ [Next]_vars => Inv' /\ Contract
  BY StepKept
<1>2. Inv /\ [Next]_vars => [ServesLive /\ NoVendWhileFresh]_vars
  BY <1>1 DEF Contract
<1> QED BY <1>1, <1>2, InvInit, PTL DEF Spec, ProviderContract
=============================================================================
