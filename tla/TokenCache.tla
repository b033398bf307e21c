----------------------------- MODULE TokenCache -----------------------------
(***************************************************************************)
(* PeopleService.GetTokenAsync (XRoadFolkRaw.Lib/PeopleService.cs): how the *)
(* requests of the web application share a login token.                     *)
(*                                                                         *)
(* A PeopleService is scoped to a request: it has a one-slot semaphore,     *)
(* _tokenGate, and a FolkTokenProviderRaw of its own.  What the scopes      *)
(* share is one entry of the process's IMemoryCache, which each of them     *)
(* reads without a lock, misses, and fills on its own.                      *)
(*                                                                         *)
(* Calls of one scope reach the provider one at a time, so the provider is  *)
(* here what TokenProvider is for callers that do not overlap: the token it *)
(* holds, its skewed expiry, and the finished task that a cancelled caller  *)
(* leaves behind.  Each scope refines TokenService.                         *)
(*                                                                         *)
(* Time is an integer clock.  The code between the provider's answer and    *)
(* the commit of the cache entry does not wait for anything, so no more     *)
(* than MaxLag ticks pass in it.                                            *)
(***************************************************************************)
EXTENDS Integers, FiniteSets

CONSTANTS
    Calls,        \* calls of GetTokenAsync that may overlap
    Scopes,       \* instances of PeopleService
    ScopeOf,      \* ScopeOf[c]: the instance that c calls
    Cancellable,  \* the calls whose CancellationToken may be cancelled
    Lifetimes,    \* lifetimes a login response may grant
    Skew,         \* RefreshSkewSeconds
    DefaultTtl,   \* DefaultTtlSeconds
    MaxLag,       \* ticks between the provider's answer and the commit
    MaxTime,      \* bound: the clock stops here
    MaxLogins     \* bound: logins started in a behaviour

None == "none"

ASSUME CacheAssumption ==
    /\ ScopeOf \in [Calls -> Scopes]
    /\ None \notin Calls
    /\ Cancellable \subseteq Calls
    /\ Lifetimes \subseteq Nat
    /\ Skew \in Nat
    /\ DefaultTtl \in Nat \ {0}
    /\ MaxLag \in Nat
    /\ MaxTime \in Nat
    /\ MaxLogins \in Nat

NoToken  == 0
Logins   == 1..MaxLogins
MinValue == -Skew     \* DateTimeOffset.MinValue: before every instant

\* The finished task in _refreshTask: none, one that threw, or a token.
NoTask     == -1
FailedTask == 0

VARIABLES
    now,        \* DateTimeOffset.UtcNow, and the clock of the cache
    cached,     \* the cache entry's token, NoToken without an entry
    until,      \* when the entry expires
    gate,       \* gate[s]: the call that holds s's _tokenGate, or none
    held,       \* held[s]: the _token of s's provider
    expires,    \* expires[s]: its _expiresUtc
    leftover,   \* leftover[s]: its _refreshTask between two calls
    started,    \* logins started so far
    deadOn,     \* deadOn[t]: when the token of login t really expires
    joined,     \* tokens given to a call that joined a task left behind (a history)
    pc,         \* pc[c]: where call c is
    tok,        \* tok[c]: the token c was given
    exp,        \* exp[c]: ExpiresUtc
    ttl,        \* ttl[c]: AbsoluteExpirationRelativeToNow
    lag,        \* lag[c]: ticks since the provider answered c
    cancelled,  \* cancelled[c]: c's CancellationToken is cancelled
    answer      \* answer[c]: what c's last call returned or threw

entry    == <<cached, until>>
provider == <<held, expires, leftover, started, deadOn, joined>>
locals   == <<tok, exp, ttl, lag>>
vars     == <<now, cached, until, gate, held, expires, leftover, started,
              deadOn, joined, pc, tok, exp, ttl, lag, cancelled, answer>>

PCs == {"idle", "lookup", "waitGate", "recheck", "create", "provider",
        "login", "stored", "compare", "subtract", "commit"}

\* From the provider's answer to the commit: no await.
Prompt == {"compare", "subtract", "commit"}

Answers == {"none", "canceled", "failed", "outOfRange", "token"}

TypeOK ==
    /\ now \in 0..MaxTime
    /\ cached \in 0..MaxLogins
    /\ until \in Int
    /\ gate \in [Scopes -> Calls \cup {None}]
    /\ held \in [Scopes -> 0..MaxLogins]
    /\ expires \in [Scopes -> Int]
    /\ leftover \in [Scopes -> NoTask..MaxLogins]
    /\ started \in 0..MaxLogins
    /\ deadOn \in [Logins -> Int]
    /\ joined \subseteq Logins
    /\ pc \in [Calls -> PCs]
    /\ tok \in [Calls -> 0..MaxLogins]
    /\ exp \in [Calls -> Int]
    /\ ttl \in [Calls -> Nat]
    /\ lag \in [Calls -> 0..MaxLag]
    /\ cancelled \in [Calls -> BOOLEAN]
    /\ answer \in [Calls -> [kind : Answers, tok : 0..MaxLogins]]

Init ==
    /\ now = 0
    /\ cached = NoToken
    /\ until = 0
    /\ gate = [s \in Scopes |-> None]
    /\ held = [s \in Scopes |-> NoToken]
    /\ expires = [s \in Scopes |-> MinValue]
    /\ leftover = [s \in Scopes |-> NoTask]
    /\ started = 0
    /\ deadOn = [t \in Logins |-> 0]
    /\ joined = {}
    /\ pc = [c \in Calls |-> "idle"]
    /\ tok = [c \in Calls |-> NoToken]
    /\ exp = [c \in Calls |-> 0]
    /\ ttl = [c \in Calls |-> 0]
    /\ lag = [c \in Calls |-> 0]
    /\ cancelled = [c \in Calls |-> FALSE]
    /\ answer = [c \in Calls |-> [kind |-> "none", tok |-> NoToken]]

Live == cached # NoToken /\ now < until

Goto(c, l) == pc' = [pc EXCEPT ![c] = l]

\* The bound on the time that passes between the provider and the commit.
Tick ==
    /\ now < MaxTime
    /\ \A c \in Calls : pc[c] \in Prompt => lag[c] < MaxLag
    /\ now' = now + 1
    /\ lag' = [c \in Calls |-> IF pc[c] \in Prompt THEN lag[c] + 1 ELSE 0]
    /\ UNCHANGED <<entry, gate, provider, pc, tok, exp, ttl, cancelled, answer>>

Cancel(c) ==
    /\ c \in Cancellable
    /\ pc[c] # "idle"
    /\ ~cancelled[c]
    /\ cancelled' = [cancelled EXCEPT ![c] = TRUE]
    /\ UNCHANGED <<now, entry, gate, provider, pc, locals, answer>>

\* Bound: each call on its way to the provider may start a login.
MayStart(c) == pc[c] \in {"lookup", "waitGate", "recheck", "create", "provider"}

Call(c) ==
    /\ pc[c] = "idle"
    /\ started + Cardinality({d \in Calls : MayStart(d)}) < MaxLogins
    /\ Goto(c, "lookup")
    /\ answer' = [answer EXCEPT ![c] = [kind |-> "none", tok |-> NoToken]]
    /\ UNCHANGED <<now, entry, gate, provider, locals, cancelled>>

\* Mutant: the gate is not released in a finally block, but after a success.
ReleasedMutant(c, kind) ==
    [s \in Scopes |-> IF gate[s] = c /\ kind = "token" THEN None ELSE gate[s]]

Released(c, kind) == [s \in Scopes |-> IF gate[s] = c THEN None ELSE gate[s]]

\* The call ends: the finally block releases the gate if c holds it.
End(c, kind, t) ==
    /\ Goto(c, "idle")
    /\ answer' = [answer EXCEPT ![c] = [kind |-> kind, tok |-> t]]
    /\ gate' = Released(c, kind)
    /\ tok' = [tok EXCEPT ![c] = NoToken]
    /\ exp' = [exp EXCEPT ![c] = 0]
    /\ ttl' = [ttl EXCEPT ![c] = 0]
    /\ lag' = [lag EXCEPT ![c] = 0]
    /\ cancelled' = [cancelled EXCEPT ![c] = FALSE]

\* _cache.TryGetValue: before the gate, under it, and inside GetOrCreateAsync.
Found(c) ==
    /\ pc[c] \in {"lookup", "recheck", "create"}
    /\ Live
    /\ End(c, "token", cached)
    /\ UNCHANGED <<now, entry, provider>>

Missed(c) ==
    /\ pc[c] \in {"lookup", "recheck", "create"}
    /\ ~Live
    /\ Goto(c, CASE pc[c] = "lookup" -> "waitGate"
                 [] pc[c] = "recheck" -> "create"
                 [] pc[c] = "create" -> "provider")
    /\ UNCHANGED <<now, entry, gate, provider, locals, cancelled, answer>>

\* Mutant: a semaphore that admits everyone.
GateFreeMutant(s) == TRUE

GateFree(s) == gate[s] = None

TakeGate(c) ==
    /\ pc[c] = "waitGate"
    /\ ~cancelled[c]
    /\ GateFree(ScopeOf[c])
    /\ gate' = [gate EXCEPT ![ScopeOf[c]] = c]
    /\ Goto(c, "recheck")
    /\ UNCHANGED <<now, entry, provider, locals, cancelled, answer>>

GateCancelled(c) ==
    /\ pc[c] = "waitGate"
    /\ cancelled[c]
    /\ End(c, "canceled", NoToken)
    /\ UNCHANGED <<now, entry, provider>>

-----------------------------------------------------------------------------
(* GetTokenWithExpiryAsync of the scope's provider *)

\* Mutant: a token that is there is good.
NeedsRefreshMutant(s) == held[s] = NoToken

NeedsRefresh(s) == held[s] = NoToken \/ now >= expires[s]

Given(c, t, e) ==
    /\ tok' = [tok EXCEPT ![c] = t]
    /\ exp' = [exp EXCEPT ![c] = e]
    /\ lag' = [lag EXCEPT ![c] = 0]
    /\ UNCHANGED ttl

ProviderFresh(c) ==
    LET s == ScopeOf[c] IN
    /\ pc[c] = "provider"
    /\ ~NeedsRefresh(s)
    /\ Given(c, held[s], expires[s])
    /\ Goto(c, "compare")
    /\ UNCHANGED <<now, entry, gate, provider, cancelled, answer>>

\* A provider's gate is free here, but a cancelled token does not get it.
ProviderCancelled(c) ==
    /\ pc[c] = "provider"
    /\ NeedsRefresh(ScopeOf[c])
    /\ cancelled[c]
    /\ End(c, "canceled", NoToken)
    /\ UNCHANGED <<now, entry, provider>>

\* The task that a cancelled call left behind is joined, and then cleared.
ProviderJoin(c) ==
    LET s == ScopeOf[c] IN
    /\ pc[c] = "provider"
    /\ NeedsRefresh(s)
    /\ ~cancelled[c]
    /\ leftover[s] # NoTask
    /\ leftover' = [leftover EXCEPT ![s] = NoTask]
    /\ \/ /\ leftover[s] = FailedTask
          /\ End(c, "failed", NoToken)
          /\ UNCHANGED joined
       \/ /\ leftover[s] # FailedTask
          /\ joined' = joined \cup {leftover[s]}
          /\ Given(c, leftover[s], expires[s])
          /\ Goto(c, "compare")
          /\ UNCHANGED <<gate, cancelled, answer>>
    /\ UNCHANGED <<now, entry, held, expires, started, deadOn>>

ProviderLogin(c) ==
    /\ pc[c] = "provider"
    /\ NeedsRefresh(ScopeOf[c])
    /\ ~cancelled[c]
    /\ leftover[ScopeOf[c]] = NoTask
    /\ started < MaxLogins
    /\ started' = started + 1
    /\ tok' = [tok EXCEPT ![c] = started + 1]
    /\ Goto(c, "login")
    /\ UNCHANGED <<now, entry, gate, held, expires, leftover, deadOn, joined,
                   exp, ttl, lag, cancelled, answer>>

\* The login response: _token, and then _expiresUtc.
LoginStores(c) ==
    /\ pc[c] = "login"
    /\ held' = [held EXCEPT ![ScopeOf[c]] = tok[c]]
    /\ Goto(c, "stored")
    /\ UNCHANGED <<now, entry, gate, expires, leftover, started, deadOn, joined,
                   locals, cancelled, answer>>

\* Mutant: the skew is forgotten.
SkewedMutant(e) == e

Skewed(e) == e - Skew

LoginExpires(c) ==
    LET s == ScopeOf[c] IN
    /\ pc[c] = "stored"
    /\ \E life \in Lifetimes :
          /\ deadOn' = [deadOn EXCEPT ![tok[c]] = now + life]
          /\ expires' = [expires EXCEPT ![s] = Skewed(now + life)]
    /\ \/ /\ Given(c, tok[c], expires'[s])
          /\ Goto(c, "compare")
          /\ UNCHANGED <<gate, leftover, cancelled, answer>>
       \/ /\ cancelled[c]
          /\ leftover' = [leftover EXCEPT ![s] = tok[c]]
          /\ End(c, "canceled", NoToken)
    /\ UNCHANGED <<now, entry, held, started, joined>>

\* The login, or the reading of its response, throws; or c is cancelled.
LoginFails(c) ==
    LET s == ScopeOf[c] IN
    /\ pc[c] \in {"login", "stored"}
    /\ \/ /\ End(c, "failed", NoToken)
          /\ UNCHANGED leftover
       \/ /\ cancelled[c]
          /\ leftover' = [leftover EXCEPT ![s] = FailedTask]
          /\ End(c, "canceled", NoToken)
    /\ UNCHANGED <<now, entry, held, expires, started, deadOn, joined>>

-----------------------------------------------------------------------------
(* The factory of GetOrCreateAsync, after the provider's answer *)

\* ExpiresUtc > DateTimeOffset.UtcNow ?
Compare(c) ==
    /\ pc[c] = "compare"
    /\ \/ /\ exp[c] > now
          /\ Goto(c, "subtract")
          /\ UNCHANGED ttl
       \/ /\ exp[c] <= now
          /\ ttl' = [ttl EXCEPT ![c] = DefaultTtl]
          /\ Goto(c, "commit")
    /\ UNCHANGED <<now, entry, gate, provider, tok, exp, lag, cancelled, answer>>

Remaining(c) == exp[c] - now

\* ExpiresUtc - DateTimeOffset.UtcNow, a second reading of the clock.  The
\* setter of AbsoluteExpirationRelativeToNow throws unless it is positive.
Subtract(c) ==
    /\ pc[c] = "subtract"
    /\ exp[c] > now
    /\ ttl' = [ttl EXCEPT ![c] = Remaining(c)]
    /\ Goto(c, "commit")
    /\ UNCHANGED <<now, entry, gate, provider, tok, exp, lag, cancelled, answer>>

SubtractFails(c) ==
    /\ pc[c] = "subtract"
    /\ exp[c] <= now
    /\ End(c, "outOfRange", NoToken)
    /\ UNCHANGED <<now, entry, provider>>

\* The entry is committed with the clock the cache reads now.
Commit(c) ==
    /\ pc[c] = "commit"
    /\ cached' = tok[c]
    /\ until' = now + ttl[c]
    /\ End(c, "token", tok[c])
    /\ UNCHANGED <<now, provider>>

CallStep(c) ==
    \/ Found(c)
    \/ Missed(c)
    \/ GateCancelled(c)
    \/ ProviderFresh(c)
    \/ ProviderCancelled(c)
    \/ ProviderJoin(c)
    \/ ProviderLogin(c)
    \/ LoginStores(c)
    \/ LoginExpires(c)
    \/ LoginFails(c)
    \/ Compare(c)
    \/ Subtract(c)
    \/ SubtractFails(c)
    \/ Commit(c)

\* Nobody calls, or those who do wait at the gate.
Rest ==
    /\ \A c \in Calls : pc[c] \in {"idle", "waitGate"}
    /\ UNCHANGED vars

Next ==
    \/ Tick
    \/ \E c \in Calls : Call(c) \/ Cancel(c) \/ TakeGate(c) \/ CallStep(c)
    \/ Rest

Spec == Init /\ [][Next]_vars

(***************************************************************************)
(* Fairness: continuations run, logins end (the HttpClient has a timeout),  *)
(* SemaphoreSlim serves its waiters in order.                               *)
(***************************************************************************)
Fairness ==
    \A c \in Calls : WF_vars(CallStep(c)) /\ SF_vars(TakeGate(c))

FairSpec == Spec /\ Fairness

-----------------------------------------------------------------------------
(***************************************************************************)
(* Properties.                                                              *)
(***************************************************************************)

\* By what margin the provider stops trusting a token before it dies: at most the
\* skew, and at most the whole of the shortest lifetime a login may grant.
Margins == {g \in 0..Skew : \A life \in Lifetimes : g <= life}

\* Whatever the options, a dead token is served for a bounded time: an entry
\* outlives the moment the provider stops trusting its token by no more than
\* DefaultTtl, which PeopleService.cs:205 grants once that moment has passed, and
\* the time the code takes to commit it, although scopes overwrite each other's
\* entries and calls are cancelled.  (With the defaults, 60 and 300 seconds: four
\* minutes after its death for a token that was granted at least one.)  There is
\* no bound for a token that a later call took from the task of a cancelled one,
\* for such a task may lie there for any time (TokenHelper.cs:59).
CachedTokenTimely ==
    Live /\ cached \notin joined =>
        \A g \in Margins : now + g < deadOn[cached] + DefaultTtl + MaxLag

\* However many calls of a scope find the cache empty, one of them logs in
\* (PeopleService.cs:186-194).
OneLoginPerScope ==
    \A c, d \in Calls :
        /\ ScopeOf[c] = ScopeOf[d]
        /\ pc[c] \in {"login", "stored"}
        /\ pc[d] \in {"login", "stored"}
        => c = d

\* A call that answers with a token it did not get from the cache answers with
\* the newest token of its scope.
NewestOfScope ==
    \A c \in Calls :
        pc[c] \in Prompt => tok[c] = held[ScopeOf[c]]

LoggingIn(s) == \E c \in Calls : ScopeOf[c] = s /\ pc[c] \in {"login", "stored"}

Service(s) ==
    INSTANCE TokenService WITH
        token <- held[s], expires <- expires[s], loggingIn <- LoggingIn(s)

\* Every scope's provider is a TokenService: what the cache assumes of it is what
\* TokenProvider is shown to implement.
ScopesAreServices ==
    /\ \A s \in Scopes : Service(s)!Init
    /\ [][\A s \in Scopes :
             \/ Service(s)!Next
             \/ UNCHANGED <<now, held[s], expires[s], LoggingIn(s)>>]_vars

\* Every call returns or throws, and the scope's gate is free for the next one.
CallsEnd == \A c \in Calls : pc[c] # "idle" ~> pc[c] = "idle"

-----------------------------------------------------------------------------
(***************************************************************************)
(* The inductive invariants behind the safety properties.                   *)
(***************************************************************************)
InLogin(c)  == pc[c] \in {"login", "stored"}
InPrompt(c) == pc[c] \in Prompt

\* Past _tokenGate.WaitAsync a call holds its scope's gate.
GateInv ==
    \A c \in Calls :
        pc[c] \in PCs \ {"idle", "lookup", "waitGate"} => gate[ScopeOf[c]] = c

\* A provider without a token has no expiry either, and the task a cancelled call
\* left behind is that of the newest token.
RestInv ==
    \A s \in Scopes :
        /\ held[s] <= started
        /\ held[s] = NoToken => now >= expires[s]
        /\ leftover[s] \in Logins => held[s] = leftover[s]

\* A login runs when the provider's token has expired, and brings a newer one.
LoginInv ==
    \A c \in Calls :
        /\ InLogin(c) =>
            /\ tok[c] \in 1..started
            /\ now >= expires[ScopeOf[c]]
            /\ leftover[ScopeOf[c]] = NoTask
        /\ pc[c] = "login" => held[ScopeOf[c]] < tok[c]
        /\ pc[c] = "stored" => held[ScopeOf[c]] = tok[c]
        /\ InPrompt(c) => tok[c] \in Logins /\ tok[c] = held[ScopeOf[c]]

ProviderInv == GateInv /\ RestInv /\ LoginInv

(***************************************************************************)
(* Why the cache serves a token no longer than CachedTokenTimely says.      *)
(***************************************************************************)

\* The token of a login in flight is nobody else's.
FreshInv ==
    /\ cached <= started
    /\ \A c \in Calls : InLogin(c) =>
        /\ cached # tok[c]
        /\ \A s \in Scopes : s # ScopeOf[c] => held[s] # tok[c]
        /\ \A d \in Calls : d # c /\ InLogin(d) => tok[d] # tok[c]

\* A fresh provider knows its token's expiry.
HeldInv ==
    \A s \in Scopes :
        now < expires[s] => expires[s] = deadOn[held[s]] - Skew

\* The provider trusted the token of a call on its way to the commit when it gave
\* it, lag[c] ago.
PromptInv ==
    \A c \in Calls :
        InPrompt(c) /\ tok[c] \notin joined =>
            /\ exp[c] = deadOn[tok[c]] - Skew
            /\ \A g \in Margins :
                /\ now - lag[c] + g <= deadOn[tok[c]]
                /\ pc[c] = "commit" =>
                    now + ttl[c] - lag[c] + g <= deadOn[tok[c]] + DefaultTtl

CacheInv ==
    cached # NoToken /\ cached \notin joined =>
        \A g \in Margins : until + g <= deadOn[cached] + DefaultTtl + MaxLag

TimelyInv == FreshInv /\ HeldInv /\ PromptInv /\ CacheInv
=============================================================================
