---------------------------- MODULE TokenProvider ----------------------------
(***************************************************************************)
(* FolkTokenProviderRaw (XRoadFolkRaw.Lib/TokenHelper.cs): the lazily       *)
(* refreshed login token shared by concurrent callers.                      *)
(*                                                                         *)
(* The provider keeps three unsynchronised fields (_token, _expiresUtc and  *)
(* _refreshTask) and a one-slot semaphore (_gate).  Only _refreshTask is    *)
(* written under the gate: the refresh task writes _token and _expiresUtc   *)
(* while no one holds it.  A caller is a call of GetTokenWithExpiryAsync    *)
(* with its own CancellationToken; a refresh task is a run of RefreshAsync, *)
(* bound to the CancellationToken of the caller that started it.            *)
(*                                                                         *)
(* Abstractions.  A token is the number of the login that issued it, so     *)
(* tokens are ordered by age; 0 is "no token yet".  Time is an integer      *)
(* clock that only Tick advances.  The expiry text of a login response,     *)
(* the JWT `exp' claim and the 30 minute default are one choice of a        *)
(* lifetime.                                                               *)
(***************************************************************************)
EXTENDS Integers, FiniteSets

CONSTANTS
    Callers,      \* concurrent calls of the provider
    Cancellable,  \* the callers whose CancellationToken may be cancelled
    Lifetimes,    \* lifetimes a login response may grant
    Skew,         \* refreshSkew: how early a token counts as expired
    MaxTime,      \* bound: the clock stops here
    MaxLogins     \* bound: logins started in a behaviour

ASSUME ProviderAssumption ==
    /\ Cancellable \subseteq Callers
    /\ 0 \notin Callers
    /\ Lifetimes \subseteq Nat
    /\ Skew \in Nat
    /\ MaxTime \in Nat
    /\ MaxLogins \in Nat

NoOne    == 0
NoToken  == 0
NoTask   == 0
MinValue == -Skew     \* DateTimeOffset.MinValue: before every instant
Logins   == 1..MaxLogins

VARIABLES
    now,          \* DateTimeOffset.UtcNow
    token,        \* _token
    expires,      \* _expiresUtc
    refreshTask,  \* _refreshTask: NoTask or a refresh task
    gate,         \* _gate: its holder, or NoOne
    started,      \* refresh tasks started so far, numbered in order
    status,       \* status[t]: where refresh task t is
    starter,      \* starter[t]: whose CancellationToken t observes
    expiryOf,     \* expiryOf[t]: the skewed expiry login t granted
    pc,           \* pc[c]: where caller c is
    mine,         \* mine[c]: the local variable `refresh'
    got,          \* got[c]: the token c is about to return
    cancelled,    \* cancelled[c]: c's CancellationToken is cancelled
    answer,       \* answer[c]: what c's last call returned or threw
    asked         \* asked[c]: history, _token when c called

task   == <<started, status, starter, expiryOf>>
shared == <<token, expires>>
locals == <<mine, got, cancelled, answer, asked>>
vars   == <<now, token, expires, refreshTask, gate, started, status, starter,
            expiryOf, pc, mine, got, cancelled, answer, asked>>

PCs == {"idle", "enter", "waitGate", "recheck", "starting", "started",
        "await", "waitClear", "clear", "setNull", "readToken", "readExpiry"}
Statuses == {"none", "login", "stored", "done", "failed", "canceled"}

Nothing == [kind |-> "none", tok |-> NoToken, exp |-> MinValue]
Thrown(k) == [kind |-> k, tok |-> NoToken, exp |-> MinValue]
Pair(t, e) == [kind |-> "token", tok |-> t, exp |-> e]

Answers == [kind : {"none", "token", "failed", "canceled"},
            tok : 0..MaxLogins, exp : Int]

TypeOK ==
    /\ now \in 0..MaxTime
    /\ token \in 0..MaxLogins
    /\ expires \in Int
    /\ refreshTask \in 0..MaxLogins
    /\ gate \in Callers \cup {NoOne}
    /\ started \in 0..MaxLogins
    /\ status \in [Logins -> Statuses]
    /\ starter \in [Logins -> Callers \cup {NoOne}]
    /\ expiryOf \in [Logins -> Int]
    /\ pc \in [Callers -> PCs]
    /\ mine \in [Callers -> 0..MaxLogins]
    /\ got \in [Callers -> 0..MaxLogins]
    /\ cancelled \in [Callers -> BOOLEAN]
    /\ answer \in [Callers -> Answers]
    /\ asked \in [Callers -> 0..MaxLogins]

Init ==
    /\ now = 0
    /\ token = NoToken
    /\ expires = MinValue
    /\ refreshTask = NoTask
    /\ gate = NoOne
    /\ started = 0
    /\ status = [t \in Logins |-> "none"]
    /\ starter = [t \in Logins |-> NoOne]
    /\ expiryOf = [t \in Logins |-> MinValue]
    /\ pc = [c \in Callers |-> "idle"]
    /\ mine = [c \in Callers |-> NoTask]
    /\ got = [c \in Callers |-> NoToken]
    /\ cancelled = [c \in Callers |-> FALSE]
    /\ answer = [c \in Callers |-> Nothing]
    /\ asked = [c \in Callers |-> NoToken]

(***************************************************************************)
(* NeedsRefresh reads _token and then _expiresUtc.  A token that is set     *)
(* stays set, so the two reads are one step.                                *)
(***************************************************************************)
NeedsRefresh == token = NoToken \/ now >= expires

Running(t)  == status[t] \in {"login", "stored"}
Finished(t) == status[t] \in {"done", "failed", "canceled"}

(***************************************************************************)
(* The clock and the callers' CancellationTokens.                           *)
(***************************************************************************)
Tick ==
    /\ now < MaxTime
    /\ now' = now + 1
    /\ UNCHANGED <<shared, refreshTask, gate, task, pc, locals>>

Cancel(c) ==
    /\ c \in Cancellable
    /\ pc[c] # "idle"
    /\ ~cancelled[c]
    /\ cancelled' = [cancelled EXCEPT ![c] = TRUE]
    /\ UNCHANGED <<now, shared, refreshTask, gate, task, pc, mine, got,
                   answer, asked>>

(***************************************************************************)
(* A caller.  A call may start a login, so a call begins only while the     *)
(* bound leaves one for each call that has yet to pass its second check.    *)
(***************************************************************************)
Goto(c, l) == pc' = [pc EXCEPT ![c] = l]

MayStart(c) == pc[c] \in {"enter", "waitGate", "recheck"}

Call(c) ==
    /\ pc[c] = "idle"
    /\ started + Cardinality({d \in Callers : MayStart(d)}) < MaxLogins
    /\ Goto(c, "enter")
    /\ answer' = [answer EXCEPT ![c] = Nothing]
    /\ asked' = [asked EXCEPT ![c] = token]
    /\ UNCHANGED <<now, shared, refreshTask, gate, task, mine, got, cancelled>>

\* The call returns or throws a; its locals and its CancellationToken die.
End(c, a) ==
    /\ answer' = [answer EXCEPT ![c] = a]
    /\ mine' = [mine EXCEPT ![c] = NoTask]
    /\ got' = [got EXCEPT ![c] = NoToken]
    /\ cancelled' = [cancelled EXCEPT ![c] = FALSE]
    /\ asked' = asked
    /\ Goto(c, "idle")

\* The check outside the gate.
Enter(c) ==
    /\ pc[c] = "enter"
    /\ Goto(c, IF NeedsRefresh THEN "waitGate" ELSE "readToken")
    /\ UNCHANGED <<now, shared, refreshTask, gate, task, locals>>

\* Mutant: the semaphore admits everyone.
GateFreeMutant == TRUE

GateFree == gate = NoOne

\* _gate.WaitAsync(ct), before the join ("waitGate") or after the await
\* ("waitClear"): it takes the slot, or throws when ct is cancelled first.
TakeGate(c) ==
    /\ pc[c] \in {"waitGate", "waitClear"}
    /\ GateFree
    /\ ~cancelled[c]
    /\ gate' = c
    /\ Goto(c, IF pc[c] = "waitGate" THEN "recheck" ELSE "clear")
    /\ UNCHANGED <<now, shared, refreshTask, task, locals>>

GateCancelled(c) ==
    /\ pc[c] \in {"waitGate", "waitClear"}
    /\ cancelled[c]
    /\ End(c, Thrown("canceled"))
    /\ UNCHANGED <<now, shared, refreshTask, gate, task>>

\* The second check, under the gate.
StillStale == NeedsRefresh

\* ... when it finds a fresh token.
RecheckFresh(c) ==
    /\ pc[c] = "recheck"
    /\ ~StillStale
    /\ Goto(c, "readToken")
    /\ UNCHANGED <<now, shared, refreshTask, gate, task, locals>>

\* _refreshTask ??= RefreshAsync(ct), when there is a task to join ...
Join(c) ==
    /\ pc[c] = "recheck"
    /\ StillStale
    /\ refreshTask # NoTask
    /\ mine' = [mine EXCEPT ![c] = refreshTask]
    /\ Goto(c, "started")
    /\ UNCHANGED <<now, shared, refreshTask, gate, task, got, cancelled,
                   answer, asked>>

\* ... and when there is none: RefreshAsync runs up to its await of the login,
Start(c) ==
    /\ pc[c] = "recheck"
    /\ StillStale
    /\ refreshTask = NoTask
    /\ started < MaxLogins
    /\ started' = started + 1
    /\ status' = [status EXCEPT ![started + 1] = "login"]
    /\ starter' = [starter EXCEPT ![started + 1] = c]
    /\ mine' = [mine EXCEPT ![c] = started + 1]
    /\ Goto(c, "starting")
    /\ UNCHANGED <<now, shared, refreshTask, gate, expiryOf, got, cancelled,
                   answer, asked>>

\* and the task it returns is assigned.
AssignTask(c) ==
    /\ pc[c] = "starting"
    /\ refreshTask' = mine[c]
    /\ Goto(c, "started")
    /\ UNCHANGED <<now, shared, gate, task, locals>>

\* The first finally block.
ReleaseGate(c) ==
    /\ pc[c] = "started"
    /\ gate' = NoOne
    /\ Goto(c, "await")
    /\ UNCHANGED <<now, shared, refreshTask, task, locals>>

\* await refresh: the task's CancellationToken is the starter's, not c's.
Awaited(c) ==
    /\ pc[c] = "await"
    /\ Finished(mine[c])
    /\ Goto(c, "waitClear")
    /\ UNCHANGED <<now, shared, refreshTask, gate, task, locals>>

\* Mutant: no ReferenceEquals, a late caller clears somebody else's task.
OwnTaskMutant(c) == TRUE

\* Mutant: the task is cleared only when it succeeded, not in a finally block.
OwnTaskOnSuccessMutant(c) == refreshTask = mine[c] /\ status[mine[c]] = "done"

\* ReferenceEquals(refresh, _refreshTask)
OwnTask(c) == refreshTask = mine[c]

\* The second finally block ends: the gate is released, and the exception of
\* the task is rethrown or its token returned.
LeaveClear(c) ==
    /\ gate' = NoOne
    /\ \/ /\ status[mine[c]] = "done"
          /\ got' = [got EXCEPT ![c] = mine[c]]
          /\ Goto(c, "readExpiry")
          /\ UNCHANGED <<mine, cancelled, answer, asked>>
       \/ /\ status[mine[c]] # "done"
          /\ End(c, Thrown(status[mine[c]]))

FindOwnTask(c) ==
    /\ pc[c] = "clear"
    /\ OwnTask(c)
    /\ Goto(c, "setNull")
    /\ UNCHANGED <<now, shared, refreshTask, gate, task, locals>>

FindOtherTask(c) ==
    /\ pc[c] = "clear"
    /\ ~OwnTask(c)
    /\ LeaveClear(c)
    /\ UNCHANGED <<now, shared, refreshTask, task>>

SetNull(c) ==
    /\ pc[c] = "setNull"
    /\ refreshTask' = NoTask
    /\ LeaveClear(c)
    /\ UNCHANGED <<now, shared, task>>

\* return (_token, _expiresUtc), outside the gate or under it: two reads.
ReadToken(c) ==
    /\ pc[c] = "readToken"
    /\ got' = [got EXCEPT ![c] = token]
    /\ Goto(c, "readExpiry")
    /\ UNCHANGED <<now, shared, refreshTask, gate, task, mine, cancelled,
                   answer, asked>>

\* Mutant: the early return under the gate keeps it.
GateAfterReturnMutant(c) == gate

GateAfterReturn(c) == IF gate = c THEN NoOne ELSE gate

ReadExpiry(c) ==
    /\ pc[c] = "readExpiry"
    /\ End(c, Pair(got[c], expires))
    /\ gate' = GateAfterReturn(c)
    /\ UNCHANGED <<now, shared, refreshTask, task>>

(***************************************************************************)
(* A refresh task, after the await of the login call.                       *)
(***************************************************************************)
SetStatus(t, s) == status' = [status EXCEPT ![t] = s]

\* The response holds a token: _token is assigned before the expiry is known.
StoreToken(t) ==
    /\ status[t] = "login"
    /\ token' = t
    /\ SetStatus(t, "stored")
    /\ UNCHANGED <<now, expires, refreshTask, gate, started, starter,
                   expiryOf, pc, locals>>

\* The login throws, its response is no XML, or has no token.
LoginFails(t) ==
    /\ status[t] = "login"
    /\ SetStatus(t, "failed")
    /\ UNCHANGED <<now, shared, refreshTask, gate, started, starter,
                   expiryOf, pc, locals>>

\* The login call observes the CancellationToken of the task's starter.
LoginCanceled(t) ==
    /\ status[t] = "login"
    /\ cancelled[starter[t]]
    /\ SetStatus(t, "canceled")
    /\ UNCHANGED <<now, shared, refreshTask, gate, started, starter,
                   expiryOf, pc, locals>>

StoreExpiry(t) ==
    /\ status[t] = "stored"
    /\ \E life \in Lifetimes :
          /\ expires' = now + life - Skew
          /\ expiryOf' = [expiryOf EXCEPT ![t] = now + life - Skew]
    /\ SetStatus(t, "done")
    /\ UNCHANGED <<now, token, refreshTask, gate, started, starter, pc, locals>>

\* The expiry is out of the range of DateTimeOffset: _token stays assigned.
ExpiryFails(t) ==
    /\ status[t] = "stored"
    /\ SetStatus(t, "failed")
    /\ UNCHANGED <<now, shared, refreshTask, gate, started, starter,
                   expiryOf, pc, locals>>

RefreshStep(t) ==
    \/ StoreToken(t)
    \/ LoginFails(t)
    \/ LoginCanceled(t)
    \/ StoreExpiry(t)
    \/ ExpiryFails(t)

CallerStep(c) ==
    \/ Enter(c)
    \/ GateCancelled(c)
    \/ RecheckFresh(c)
    \/ Join(c)
    \/ Start(c)
    \/ AssignTask(c)
    \/ ReleaseGate(c)
    \/ Awaited(c)
    \/ FindOwnTask(c)
    \/ FindOtherTask(c)
    \/ SetNull(c)
    \/ ReadToken(c)
    \/ ReadExpiry(c)

\* Nobody calls: the provider may rest.
Rest ==
    /\ \A c \in Callers : pc[c] = "idle"
    /\ UNCHANGED vars

Next ==
    \/ Tick
    \/ \E c \in Callers : Call(c) \/ Cancel(c) \/ TakeGate(c) \/ CallerStep(c)
    \/ \E t \in Logins : RefreshStep(t)
    \/ Rest

Spec == Init /\ [][Next]_vars

(***************************************************************************)
(* Fairness: every continuation that can run is run by the thread pool; a   *)
(* login call ends (its HttpClient has a timeout); SemaphoreSlim hands a    *)
(* released slot to its waiters in order, so a caller at the gate is not    *)
(* overtaken forever.                                                       *)
(***************************************************************************)
Fairness ==
    /\ \A c \in Callers : WF_vars(CallerStep(c)) /\ SF_vars(TakeGate(c))
    /\ \A t \in Logins : WF_vars(RefreshStep(t))

FairSpec == Spec /\ Fairness

-----------------------------------------------------------------------------
(***************************************************************************)
(* Properties.                                                              *)
(***************************************************************************)

\* At most one login is in flight, however late a caller comes to clear the task
\* it awaited, and whoever else has started another one meanwhile
\* (TokenHelper.cs:44, 57-71).
SingleFlight == \A t, u \in Logins : Running(t) /\ Running(u) => t = u

\* A token that has not expired is never replaced: the second check under the
\* gate (TokenHelper.cs:39) lets no caller log in after another already has,
\* and no late refresh overwrites a newer one.  (Proved.)
FreshTokenKept == [][token' # token \/ expires' # expires => NeedsRefresh]_vars

\* A call never returns a token older than the one the provider held when the
\* call began, whichever of the three return statements it takes and whatever
\* other refreshes ran meanwhile.
NoOlderToken ==
    \A c \in Callers :
        answer[c].kind = "token" => answer[c].tok >= asked[c]

\* A task whose starter cannot be cancelled does not outlive it: while
\* _refreshTask refers to it, its starter is on the way to clear it
\* (TokenHelper.cs:57-71).
TaskHasOwner ==
    \A t \in Logins :
        refreshTask = t /\ starter[t] \notin Cancellable =>
            \E c \in Callers :
                /\ c = starter[t]
                /\ mine[c] = t
                /\ pc[c] \in {"started", "await", "waitClear", "clear",
                             "setNull"}

\* The provider implements TokenService: callers joining, cancelling and clearing
\* tasks are invisible there, and a login in flight is a refresh that runs.
Service == INSTANCE TokenService WITH loggingIn <- \E t \in Logins : Running(t)
ServiceSpec == Service!Spec

\* Every call returns or throws: no caller is left waiting at the gate or for
\* a task.
CallsEnd == \A c \in Callers : pc[c] # "idle" ~> pc[c] = "idle"

-----------------------------------------------------------------------------
(***************************************************************************)
(* The inductive invariant behind the safety properties.                    *)
(***************************************************************************)

\* Whoever is between WaitAsync and Release holds the gate.
GateInv ==
    \A c \in Callers :
        pc[c] \in {"recheck", "starting", "started", "clear", "setNull"} =>
            gate = c

\* Tasks start in order; _refreshTask, once assigned, is the last one; and
\* only the last one runs, known to _refreshTask or about to be.
TaskInv ==
    /\ refreshTask \in {NoTask, started}
    /\ token <= started
    /\ \A t \in Logins :
        /\ status[t] # "none" => t <= started
        /\ status[t] = "login" => token < t
        /\ status[t] = "stored" => token = t
        /\ Running(t) =>
            /\ t = started
            /\ \/ refreshTask = t
               \/ \E c \in Callers : pc[c] = "starting"

\* What a caller knows about the task it started or joined.
LocalInv ==
    \A c \in Callers :
        /\ pc[c] = "starting" => refreshTask = NoTask /\ mine[c] = started
        /\ pc[c] \in {"starting", "started", "await", "waitClear", "clear",
                     "setNull"} =>
               mine[c] \in Logins /\ asked[c] <= mine[c]
        /\ pc[c] \in {"waitClear", "clear", "setNull"} => Finished(mine[c])
        /\ pc[c] = "setNull" => refreshTask = mine[c]

\* While a refresh runs, or before the first one, nothing is fresh.
StaleInv ==
    /\ \A t \in Logins : Running(t) => now >= expires
    /\ token = NoToken => now >= expires

\* What a caller is about to return is no older than what it could have had.
AgeInv ==
    \A c \in Callers :
        /\ asked[c] <= token
        /\ pc[c] = "readExpiry" => asked[c] <= got[c]

\* Who is to clear a task: TaskHasOwner made inductive.
OwnerInv ==
    /\ TaskHasOwner
    /\ \A c \in Callers :
        /\ cancelled[c] => c \in Cancellable
        /\ pc[c] = "starting" => starter[mine[c]] = c

IInv == GateInv /\ TaskInv /\ LocalInv /\ StaleInv /\ AgeInv /\ NoOlderToken
=============================================================================
