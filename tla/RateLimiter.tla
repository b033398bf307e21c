---------------------------- MODULE RateLimiter ----------------------------
(***************************************************************************)
(* HttpLogRateLimiter.ShouldDrop (XRoadFolkWeb/Infrastructure/              *)
(* HttpLogRateLimiter.cs): how many log entries the store takes per second. *)
(*                                                                         *)
(* Threads share the start of a window and a counter.  A thread reads the   *)
(* clock first and the start afterwards, without the lock; under it, it     *)
(* looks at the start again and may reset both, one after the other; and it *)
(* increments the counter with no lock held.                                *)
(***************************************************************************)
EXTENDS Integers, Sequences, FiniteSets

CONSTANTS
    Threads,
    MaxWrites,    \* _maxWritesPerSecond
    AlwaysAllow,  \* _alwaysAllowWarnError
    Window,       \* 1000 ms
    MaxTime,      \* bound: the clock stops here
    MaxCalls      \* bound: calls in a behaviour

NoOne == "noOne"

ASSUME LimiterAssumption ==
    /\ NoOne \notin Threads
    /\ MaxWrites \in Nat
    /\ AlwaysAllow \in BOOLEAN
    /\ Window \in Nat \ {0}
    /\ MaxTime \in Nat
    /\ MaxCalls \in Nat

VARIABLES
    clock,     \* Environment.TickCount64
    start,     \* _rateWindowStartMs
    count,     \* _rateCount
    gate,      \* the thread that holds _gate, or NoOne
    pc,        \* pc[t]: where t is in ShouldDrop
    now,       \* now[t]: the local variable `now'
    seen,      \* seen[t]: the local variable `start'
    verdict,   \* verdict[t]: what t's last call returned
    calls,     \* calls begun so far
    admitted,  \* history: `now' of each call the counter let through
    since,     \* history: how many of them since _rateCount was last reset
    overlapped \* history: some call began before another had returned

shared == <<start, count, gate>>
locals == <<now, seen>>
history == <<admitted, since, overlapped>>
vars == <<clock, start, count, gate, pc, now, seen, verdict, calls, admitted,
          since, overlapped>>

Times == 0..MaxTime
PCs   == {"idle", "readStart", "check", "lock", "recheck", "setStart",
          "setCount", "unlock", "increment"}

TypeOK ==
    /\ clock \in Times
    /\ start \in Times
    /\ count \in Nat
    /\ gate \in Threads \cup {NoOne}
    /\ pc \in [Threads -> PCs]
    /\ now \in [Threads -> Times]
    /\ seen \in [Threads -> Times]
    /\ verdict \in [Threads -> {"none", "kept", "dropped"}]
    /\ calls \in 0..MaxCalls
    /\ admitted \in Seq(Times)
    /\ since \in Nat
    /\ overlapped \in BOOLEAN

Init ==
    /\ clock = 0
    /\ start = 0
    /\ count = 0
    /\ gate = NoOne
    /\ pc = [t \in Threads |-> "idle"]
    /\ now = [t \in Threads |-> 0]
    /\ seen = [t \in Threads |-> 0]
    /\ verdict = [t \in Threads |-> "none"]
    /\ calls = 0
    /\ admitted = <<>>
    /\ since = 0
    /\ overlapped = FALSE

Goto(t, l) == pc' = [pc EXCEPT ![t] = l]

Tick ==
    /\ clock < MaxTime
    /\ clock' = clock + 1
    /\ UNCHANGED <<shared, pc, locals, verdict, calls, history>>

\* No limit is set, or a warning or an error passes it.
Bypass(t) ==
    /\ pc[t] = "idle"
    /\ calls < MaxCalls
    /\ MaxWrites = 0 \/ AlwaysAllow
    /\ calls' = calls + 1
    /\ verdict' = [verdict EXCEPT ![t] = "kept"]
    /\ UNCHANGED <<clock, shared, pc, locals, history>>

\* long now = Environment.TickCount64
Begin(t) ==
    /\ pc[t] = "idle"
    /\ calls < MaxCalls
    /\ MaxWrites > 0
    /\ calls' = calls + 1
    /\ verdict' = [verdict EXCEPT ![t] = "none"]
    /\ now' = [now EXCEPT ![t] = clock]
    /\ Goto(t, "readStart")
    /\ overlapped' = (overlapped \/ \E u \in Threads : pc[u] # "idle")
    /\ UNCHANGED <<clock, shared, seen, admitted, since>>

\* The first reading of the start, or the second one, under the lock.
ReadStart(t) ==
    /\ pc[t] \in {"readStart", "recheck"}
    /\ seen' = [seen EXCEPT ![t] = start]
    /\ Goto(t, IF pc[t] = "readStart" THEN "check" ELSE "setStart")
    /\ UNCHANGED <<clock, shared, now, verdict, calls, history>>

\* Mutant: off by one, the window is a tick too short.
ElapsedMutant(t) == LET d == now[t] - seen[t] IN d >= Window - 1 \/ d < 0

\* elapsed is >= 1000 or < 0
Elapsed(t) == LET d == now[t] - seen[t] IN d >= Window \/ d < 0

Check(t) ==
    /\ pc[t] = "check"
    /\ Goto(t, IF Elapsed(t) THEN "lock" ELSE "increment")
    /\ UNCHANGED <<clock, shared, locals, verdict, calls, history>>

Lock(t) ==
    /\ pc[t] = "lock"
    /\ gate = NoOne
    /\ gate' = t
    /\ Goto(t, "recheck")
    /\ UNCHANGED <<clock, start, count, locals, verdict, calls, history>>

\* Mutant: what was found outside the lock is taken for granted.
StillElapsedMutant(t) == TRUE

StillElapsed(t) == Elapsed(t)

Opened(t) == now[t]

SetStart(t) ==
    /\ pc[t] = "setStart"
    /\ StillElapsed(t)
    /\ start' = Opened(t)
    /\ Goto(t, "setCount")
    /\ UNCHANGED <<clock, count, gate, locals, verdict, calls, history>>

KeepStart(t) ==
    /\ pc[t] = "setStart"
    /\ ~StillElapsed(t)
    /\ Goto(t, "unlock")
    /\ UNCHANGED <<clock, shared, locals, verdict, calls, history>>

SetCount(t) ==
    /\ pc[t] = "setCount"
    /\ count' = 0
    /\ since' = 0
    /\ Goto(t, "unlock")
    /\ UNCHANGED <<clock, start, gate, locals, verdict, calls, admitted,
                   overlapped>>

Unlocked == NoOne

Unlock(t) ==
    /\ pc[t] = "unlock"
    /\ gate' = Unlocked
    /\ Goto(t, "increment")
    /\ UNCHANGED <<clock, start, count, locals, verdict, calls, history>>

\* Mutants: the comparison is off by one, either way.
OverLimitEarlyMutant(n) == n >= MaxWrites
OverLimitLateMutant(n)  == n > MaxWrites + 1

OverLimit(n) == n > MaxWrites

\* Interlocked.Increment, and the verdict on its result.
Increment(t) ==
    /\ pc[t] = "increment"
    /\ count' = count + 1
    /\ \/ /\ OverLimit(count + 1)
          /\ verdict' = [verdict EXCEPT ![t] = "dropped"]
          /\ UNCHANGED history
       \/ /\ ~OverLimit(count + 1)
          /\ verdict' = [verdict EXCEPT ![t] = "kept"]
          /\ admitted' = Append(admitted, now[t])
          /\ since' = since + 1
          /\ UNCHANGED overlapped
    /\ Goto(t, "idle")
    /\ UNCHANGED <<clock, start, gate, locals, calls>>

ThreadStep(t) ==
    \/ ReadStart(t)
    \/ Check(t)
    \/ Lock(t)
    \/ SetStart(t)
    \/ KeepStart(t)
    \/ SetCount(t)
    \/ Unlock(t)
    \/ Increment(t)

\* Nobody logs, or those who do wait for the lock.
Rest ==
    /\ \A t \in Threads : pc[t] \in {"idle", "lock"}
    /\ UNCHANGED vars

Next ==
    \/ Tick
    \/ \E t \in Threads : Bypass(t) \/ Begin(t) \/ ThreadStep(t)
    \/ Rest

Spec == Init /\ [][Next]_vars

-----------------------------------------------------------------------------
(***************************************************************************)
(* Properties.                                                              *)
(***************************************************************************)

\* Whatever threads interleave, at most MaxWrites calls are let through from one
\* reset of the counter to the next (HttpLogRateLimiter.cs:60-66).
AdmittedPerReset == since <= MaxWrites

\* A window that opens later than the current one opens at least Window later:
\* threads that all found it over open one window, not one each, because they
\* look again under the lock (HttpLogRateLimiter.cs:54-59).
ForwardResetsApart == [][start' > start => start' - start >= Window]_start

\* As long as calls do not overlap: of any 2 * MaxWrites + 1 consecutive entries
\* let through, the first and the last are more than a window apart.
BurstBound ==
    ~overlapped =>
        \A i \in DOMAIN admitted :
            i + 2 * MaxWrites \in DOMAIN admitted =>
                admitted[i + 2 * MaxWrites] - admitted[i] > Window

\* The entries let through less than a window before t read the clock.
Recent(t) == {i \in DOMAIN admitted : now[t] - admitted[i] < Window}

\* As long as calls do not overlap: an entry is dropped only when MaxWrites others
\* were let through less than a window before it.
DropsJustified ==
    ~overlapped =>
        \A t \in Threads :
            verdict[t] = "dropped" => Cardinality(Recent(t)) >= MaxWrites

=============================================================================
