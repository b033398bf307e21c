------------------------- MODULE RateLimiterProofs -------------------------
(***************************************************************************)
(* Proofs about RateLimiter, for every number of threads, every limit and   *)
(* every window.                                                            *)
(***************************************************************************)
EXTENDS RateLimiter, FiniteSetTheorems, TLAPS

-----------------------------------------------------------------------------
(***************************************************************************)
(* The type invariant.                                                      *)
(***************************************************************************)
LEMMA AppendToTimes ==
    ASSUME NEW s \in Seq(Times), NEW e \in Times
    PROVE  Append(s, e) \in Seq(Times)
  OBVIOUS

LEMMA InitTypeOK == Init => TypeOK
<1>1. Init => 0 \in Times /\ admitted \in Seq(Times)
  <2>1. <<>> \in Seq(Times)
    OBVIOUS
  <2>2. 0 \in Times
    BY LimiterAssumption DEF Times
  <2>3. QED
    BY <2>1, <2>2 DEF Init
<1>2. Init => /\ pc \in [Threads -> PCs]
              /\ now \in [Threads -> Times] /\ seen \in [Threads -> Times]
              /\ verdict \in [Threads -> {"none", "kept", "dropped"}]
  <2>1. "idle" \in PCs /\ "none" \in {"none", "kept", "dropped"}
    BY DEF PCs
  <2>2. QED
    BY <1>1, <2>1, Zenon DEF Init
<1>3. Init => /\ clock \in Times /\ start \in Times /\ count \in Nat
              /\ gate \in Threads \cup {NoOne} /\ calls \in 0..MaxCalls
              /\ since \in Nat /\ overlapped \in BOOLEAN
  <2>1. 0 \in Nat /\ 0 \in 0..MaxCalls /\ FALSE \in BOOLEAN
    BY LimiterAssumption
  <2>2. QED
    BY <1>1, <2>1, Zenon DEF Init
<1>4. QED
  BY <1>1, <1>2, <1>3 DEF TypeOK

LEMMA NextTypeOK == TypeOK /\ [Next]_vars => TypeOK'
<1> SUFFICES ASSUME TypeOK, [Next]_vars
             PROVE  TypeOK'
  OBVIOUS
<1>1. CASE Tick
  BY <1>1, LimiterAssumption DEF TypeOK, Times, Tick, shared, locals, history
<1>2. ASSUME NEW t \in Threads, Bypass(t)
      PROVE  TypeOK'
  BY <1>2, LimiterAssumption DEF TypeOK, PCs, Bypass, shared, locals, history
<1>3. ASSUME NEW t \in Threads, Begin(t)
      PROVE  TypeOK'
  BY <1>3, LimiterAssumption DEF TypeOK, PCs, Begin, Goto, shared
<1>4. ASSUME NEW t \in Threads, ThreadStep(t)
      PROVE  TypeOK'
  <2>1. CASE ReadStart(t)
    BY <2>1 DEF TypeOK, PCs, ReadStart, Goto, shared, history
  <2>2. CASE Check(t)
    BY <2>2 DEF TypeOK, PCs, Check, Goto, shared, locals, history
  <2>3. CASE Lock(t)
    BY <2>3 DEF TypeOK, PCs, Lock, Goto, locals, history
  <2>4. CASE SetStart(t)
    BY <2>4 DEF TypeOK, PCs, SetStart, Opened, Goto, locals, history
  <2>5. CASE KeepStart(t)
    BY <2>5 DEF TypeOK, PCs, KeepStart, Goto, shared, locals, history
  <2>6. CASE SetCount(t)
    BY <2>6 DEF TypeOK, PCs, SetCount, Goto, locals
  <2>7. CASE Unlock(t)
    BY <2>7 DEF TypeOK, PCs, Unlock, Unlocked, Goto, locals, history
  <2>8. CASE Increment(t)
    <3>1. Append(admitted, now[t]) \in Seq(Times)
      BY AppendToTimes DEF TypeOK
    <3>2. admitted' = admitted \/ admitted' = Append(admitted, now[t])
      BY <2>8 DEF Increment, history
    <3>3. admitted' \in Seq(Times)
      BY <3>1, <3>2 DEF TypeOK
    <3>4. since' \in Nat /\ overlapped' \in BOOLEAN
      BY <2>8 DEF Increment, history, TypeOK
    <3>5. /\ pc' \in [Threads -> PCs]
          /\ verdict' \in [Threads -> {"none", "kept", "dropped"}]
      BY <2>8 DEF Increment, Goto, TypeOK, PCs
    <3>6. /\ count' \in Nat
          /\ UNCHANGED <<clock, start, gate, now, seen, calls>>
      BY <2>8 DEF Increment, locals, TypeOK
    <3>7. QED
      BY <3>3, <3>4, <3>5, <3>6 DEF TypeOK
  <2>9. QED
    BY <1>4, <2>1, <2>2, <2>3, <2>4, <2>5, <2>6, <2>7, <2>8 DEF ThreadStep
<1>5. CASE UNCHANGED vars
  BY <1>5 DEF TypeOK, vars
<1>6. QED
  BY <1>1, <1>2, <1>3, <1>4, <1>5 DEF Next, Rest

\* The start of the window is always a reading of the clock, whoever resets it.
THEOREM TypeCorrect == Spec => []TypeOK
  BY InitTypeOK, NextTypeOK, PTL DEF Spec

-----------------------------------------------------------------------------
(***************************************************************************)
(* What is let through.  The counter and its history are reset together,    *)
(* and every call let through has counted itself first.                     *)
(***************************************************************************)
CountInv == since <= count /\ AdmittedPerReset

\* From one reset of the counter to the next at most MaxWrites calls are let
\* through, however many threads interleave.
THEOREM LimitIsKept == Spec => []AdmittedPerReset
<1> USE LimiterAssumption DEF CountInv, AdmittedPerReset
<1>1. Init => CountInv
  BY DEF Init
<1>2. TypeOK /\ CountInv /\ [Next]_vars => CountInv'
  <2> SUFFICES ASSUME TypeOK, CountInv, [Next]_vars
               PROVE  CountInv'
    OBVIOUS
  <2>1. ASSUME NEW t \in Threads, SetCount(t)
        PROVE  CountInv'
    BY <2>1 DEF SetCount
  <2>2. ASSUME NEW t \in Threads, Increment(t)
        PROVE  CountInv'
    BY <2>2 DEF Increment, OverLimit, TypeOK, history
  <2>3. CASE UNCHANGED <<count, since>>
    BY <2>3
  <2>4. QED
    BY <2>1, <2>2, <2>3
    DEF Next, ThreadStep, Tick, Bypass, Begin, ReadStart, Check, Lock,
        SetStart, KeepStart, Unlock, Rest, shared, history, vars
<1>3. CountInv => AdmittedPerReset
  OBVIOUS
<1>4. QED
  BY <1>1, <1>2, <1>3, TypeCorrect, PTL DEF Spec

-----------------------------------------------------------------------------
(***************************************************************************)
(* The lock.  Only its holder writes the start, hence what the holder has   *)
(* read of it is still so when it decides.                                  *)
(***************************************************************************)
Locked(t) == pc[t] \in {"recheck", "setStart", "setCount", "unlock"}

LockInv ==
    \A t \in Threads :
        /\ Locked(t) => gate = t
        /\ pc[t] = "setStart" => seen[t] = start

LEMMA NextLockInv == TypeOK /\ LockInv /\ [Next]_vars => LockInv'
<1> SUFFICES ASSUME TypeOK, LockInv, [Next]_vars, NEW u \in Threads
             PROVE  /\ Locked(u)' => gate' = u
                    /\ pc'[u] = "setStart" => seen'[u] = start'
  BY DEF LockInv
<1> USE LimiterAssumption DEF TypeOK, LockInv, Locked, Goto
<1>1. ASSUME NEW t \in Threads, Begin(t)
      PROVE  /\ Locked(u)' => gate' = u
             /\ pc'[u] = "setStart" => seen'[u] = start'
  BY <1>1 DEF Begin, shared
<1>2. ASSUME NEW t \in Threads, ReadStart(t) \/ Check(t)
      PROVE  /\ Locked(u)' => gate' = u
             /\ pc'[u] = "setStart" => seen'[u] = start'
  BY <1>2 DEF ReadStart, Check, shared, locals
<1>3. ASSUME NEW t \in Threads, Lock(t)
      PROVE  /\ Locked(u)' => gate' = u
             /\ pc'[u] = "setStart" => seen'[u] = start'
  BY <1>3 DEF Lock, locals
<1>4. ASSUME NEW t \in Threads, SetStart(t) \/ KeepStart(t) \/ SetCount(t)
      PROVE  /\ Locked(u)' => gate' = u
             /\ pc'[u] = "setStart" => seen'[u] = start'
  BY <1>4 DEF SetStart, KeepStart, SetCount, shared, locals
<1>5. ASSUME NEW t \in Threads, Unlock(t)
      PROVE  /\ Locked(u)' => gate' = u
             /\ pc'[u] = "setStart" => seen'[u] = start'
  BY <1>5 DEF Unlock, Unlocked, locals
<1>6. ASSUME NEW t \in Threads, Increment(t)
      PROVE  /\ Locked(u)' => gate' = u
             /\ pc'[u] = "setStart" => seen'[u] = start'
  BY <1>6 DEF Increment, locals
<1>7. CASE UNCHANGED <<start, gate, pc, seen>>
  BY <1>7
<1>8. QED
  BY <1>1, <1>2, <1>3, <1>4, <1>5, <1>6, <1>7
  DEF Next, ThreadStep, Tick, Bypass, Rest, shared, locals, vars

\* A later window opens a whole window after the current one: of the threads that
\* find a window over only one opens the next.
THEOREM OneResetPerWindow == Spec => ForwardResetsApart
<1>1. Init => LockInv
  BY DEF Init, LockInv, Locked
<1>2. TypeOK /\ LockInv /\ [Next]_vars =>
          [start' > start => start' - start >= Window]_start
  <2> SUFFICES ASSUME TypeOK, LockInv, [Next]_vars, start' > start
               PROVE  start' - start >= Window
    OBVIOUS
  <2>1. PICK t \in Threads : SetStart(t)
    <3>1. start' # start
      BY DEF TypeOK, Times
    <3>2. QED
      BY <3>1
      DEF Next, ThreadStep, Tick, Bypass, Begin, ReadStart, Check, Lock,
          KeepStart, SetCount, Unlock, Increment, Rest, shared, vars
  <2>2. seen[t] = start /\ start' = now[t]
    BY <2>1 DEF SetStart, Opened, LockInv
  <2>3. QED
    BY <2>1, <2>2, LimiterAssumption
    DEF SetStart, StillElapsed, Elapsed, TypeOK, Times
<1>3. QED
  BY <1>1, <1>2, NextLockInv, TypeCorrect, PTL DEF Spec, ForwardResetsApart

-----------------------------------------------------------------------------
(***************************************************************************)
(* The clock and the counter, however calls interleave: nothing that was    *)
(* read of the clock is ahead of it, and the calls let through since the    *)
(* last reset are those the counter counts, up to the limit.                *)
(***************************************************************************)
ClockInv ==
    /\ start <= clock
    /\ \A t \in Threads : now[t] <= clock
    /\ \A i \in DOMAIN admitted : admitted[i] <= clock

TallyInv ==
    /\ since = IF count <= MaxWrites THEN count ELSE MaxWrites
    /\ since <= Len(admitted)

LEMMA AppendEntry ==
    ASSUME NEW s \in Seq(Times), NEW e \in Times
    PROVE  /\ DOMAIN Append(s, e) = 1..Len(s) + 1
           /\ Len(Append(s, e)) = Len(s) + 1
           /\ \A i \in 1..Len(s) : Append(s, e)[i] = s[i]
           /\ Append(s, e)[Len(s) + 1] = e
  OBVIOUS

LEMMA NextClockInv == TypeOK /\ ClockInv /\ [Next]_vars => ClockInv'
<1> SUFFICES ASSUME TypeOK, ClockInv, [Next]_vars
             PROVE  ClockInv'
  OBVIOUS
<1> USE LimiterAssumption DEF ClockInv
<1>1. CASE Tick
  BY <1>1 DEF Tick, TypeOK, Times, shared, locals, history
<1>2. ASSUME NEW t \in Threads, Begin(t)
      PROVE  ClockInv'
  BY <1>2 DEF Begin, TypeOK, Times, shared
<1>3. ASSUME NEW t \in Threads, SetStart(t)
      PROVE  ClockInv'
  BY <1>3 DEF SetStart, Opened, TypeOK, Times, locals, history
<1>4. ASSUME NEW t \in Threads, Increment(t)
      PROVE  ClockInv'
  <2>1. UNCHANGED <<clock, start, now>>
    BY <1>4 DEF Increment, locals
  <2>2. CASE admitted' = admitted
    BY <2>1, <2>2
  <2>3. CASE admitted' = Append(admitted, now[t])
    BY <2>1, <2>3, AppendEntry DEF TypeOK
  <2>4. QED
    BY <1>4, <2>2, <2>3 DEF Increment, history
<1>5. CASE UNCHANGED <<clock, start, now, admitted>>
  BY <1>5
<1>6. QED
  BY <1>1, <1>2, <1>3, <1>4, <1>5
  DEF Next, ThreadStep, Bypass, ReadStart, Check, Lock, KeepStart, SetCount,
      Unlock, Rest, shared, locals, history, vars

LEMMA NextTallyInv == TypeOK /\ TallyInv /\ [Next]_vars => TallyInv'
<1> SUFFICES ASSUME TypeOK, TallyInv, [Next]_vars
             PROVE  TallyInv'
  OBVIOUS
<1> USE LimiterAssumption DEF TallyInv
<1>1. ASSUME NEW t \in Threads, SetCount(t)
      PROVE  TallyInv'
  BY <1>1 DEF SetCount, TypeOK
<1>2. ASSUME NEW t \in Threads, Increment(t)
      PROVE  TallyInv'
  <2>1. /\ count' = count + 1
        /\ \/ count + 1 > MaxWrites /\ since' = since /\ admitted' = admitted
           \/ /\ count + 1 <= MaxWrites /\ since' = since + 1
              /\ admitted' = Append(admitted, now[t])
    BY <1>2 DEF Increment, OverLimit, TypeOK, history
  <2>2. Len(Append(admitted, now[t])) = Len(admitted) + 1
    BY AppendEntry DEF TypeOK
  <2>3. Len(admitted) \in Nat
    BY DEF TypeOK
  <2>4. QED
    BY <2>1, <2>2, <2>3 DEF TypeOK
<1>3. CASE UNCHANGED <<count, since, admitted>>
  BY <1>3
<1>4. QED
  BY <1>1, <1>2, <1>3
  DEF Next, ThreadStep, Tick, Bypass, Begin, ReadStart, Check, Lock, SetStart,
      KeepStart, Unlock, Rest, shared, history, vars

-----------------------------------------------------------------------------
(***************************************************************************)
(* Calls that do not overlap.  The one call that is under way has read the  *)
(* clock after everything the shared state knows of, and when it reaches    *)
(* the counter its reading lies in the window that is open.                 *)
(***************************************************************************)
CallInv ==
    ~overlapped =>
        \A t \in Threads : pc[t] # "idle" =>
            /\ MaxWrites > 0
            /\ \A u \in Threads : pc[u] # "idle" => u = t
            /\ start <= now[t]
            /\ \A i \in DOMAIN admitted : admitted[i] <= now[t]
            /\ pc[t] \in {"check", "setStart"} => seen[t] = start
            /\ pc[t] = "setCount" => now[t] = start
            /\ pc[t] \in {"unlock", "increment"} => now[t] - start < Window

\* How many of the last calls let through belong to the window that is open:
\* none, when its start is set and the counter is not yet.
InWindow == IF \E t \in Threads : pc[t] = "setCount" THEN 0 ELSE since

\* The open window took its calls from its start on, the one before took all
\* the others before, and whoever came more than MaxWrites earlier came in a
\* window that began at least two resets ago.
WindowInv ==
    ~overlapped =>
        \A i \in DOMAIN admitted :
            /\ i > Len(admitted) - InWindow =>
                  start <= admitted[i] /\ admitted[i] - start < Window
            /\ i <= Len(admitted) - InWindow => admitted[i] < start
            /\ i <= Len(admitted) - InWindow - MaxWrites =>
                  start - admitted[i] > Window

\* The last MaxWrites calls let through before t was refused are all recent.
DropInv ==
    ~overlapped =>
        \A t \in Threads : verdict[t] = "dropped" =>
            \E k \in 0..Len(admitted) - MaxWrites :
                \A i \in 1..MaxWrites : now[t] - admitted[k + i] < Window

SequentialInv == ClockInv /\ TallyInv /\ CallInv /\ WindowInv

LEMMA NextCallInv == TypeOK /\ SequentialInv /\ [Next]_vars => CallInv'
<1> SUFFICES ASSUME TypeOK, SequentialInv, [Next]_vars, ~overlapped',
                    NEW u \in Threads, pc'[u] # "idle"
             PROVE  /\ MaxWrites > 0
                    /\ \A v \in Threads : pc'[v] # "idle" => v = u
                    /\ start' <= now'[u]
                    /\ \A i \in DOMAIN admitted' : admitted'[i] <= now'[u]
                    /\ pc'[u] \in {"check", "setStart"} => seen'[u] = start'
                    /\ pc'[u] = "setCount" => now'[u] = start'
                    /\ pc'[u] \in {"unlock", "increment"} =>
                          now'[u] - start' < Window
  BY DEF CallInv
<1> DEFINE Goal == /\ MaxWrites > 0
                   /\ \A v \in Threads : pc'[v] # "idle" => v = u
                   /\ start' <= now'[u]
                   /\ \A i \in DOMAIN admitted' : admitted'[i] <= now'[u]
                   /\ pc'[u] \in {"check", "setStart"} => seen'[u] = start'
                   /\ pc'[u] = "setCount" => now'[u] = start'
                   /\ pc'[u] \in {"unlock", "increment"} =>
                         now'[u] - start' < Window
<1> USE LimiterAssumption DEF SequentialInv
<1>0. ~overlapped
  BY DEF TypeOK, Next, ThreadStep, Tick, Bypass, Begin, ReadStart, Check, Lock,
         SetStart, KeepStart, SetCount, Unlock, Increment, Rest, history, vars
<1>1. CASE Tick
  BY <1>0, <1>1 DEF Tick, CallInv, shared, locals, history
<1>2. ASSUME NEW t \in Threads, Bypass(t)
      PROVE  Goal
  BY <1>0, <1>2 DEF Bypass, CallInv, shared, locals, history
<1>3. ASSUME NEW t \in Threads, Begin(t)
      PROVE  Goal
  <2>1. \A v \in Threads : pc[v] = "idle"
    BY <1>3 DEF Begin, TypeOK
  <2>2. u = t /\ \A v \in Threads : pc'[v] # "idle" => v = u
    BY <1>3, <2>1 DEF Begin, Goto, TypeOK
  <2>3. pc'[u] = "readStart" /\ now'[u] = clock /\ UNCHANGED <<start, admitted>>
    BY <1>3, <2>2 DEF Begin, Goto, TypeOK, shared
  <2>4. MaxWrites > 0
    BY <1>3 DEF Begin
  <2>5. QED
    BY <2>2, <2>3, <2>4 DEF ClockInv
<1>4. ASSUME NEW t \in Threads, ThreadStep(t)
      PROVE  Goal
  <2>1. pc[t] # "idle"
    BY <1>4 DEF ThreadStep, ReadStart, Check, Lock, SetStart, KeepStart,
                SetCount, Unlock, Increment
  <2>2. /\ MaxWrites > 0
        /\ \A v \in Threads : pc[v] # "idle" => v = t
        /\ start <= now[t]
        /\ \A i \in DOMAIN admitted : admitted[i] <= now[t]
        /\ pc[t] \in {"check", "setStart"} => seen[t] = start
        /\ pc[t] = "setCount" => now[t] = start
        /\ pc[t] \in {"unlock", "increment"} => now[t] - start < Window
    BY <1>0, <2>1 DEF CallInv
  <2>3. \A v \in Threads : v # t => pc'[v] = pc[v] /\ pc'[v] = "idle"
    BY <1>4, <2>2
    DEF ThreadStep, ReadStart, Check, Lock, SetStart, KeepStart, SetCount,
        Unlock, Increment, Goto, TypeOK
  <2>4. u = t /\ \A v \in Threads : pc'[v] # "idle" => v = u
    BY <2>3
  <2>5. CASE ReadStart(t)
    BY <2>2, <2>4, <2>5 DEF ReadStart, Goto, TypeOK, shared, history
  <2>6. CASE Check(t)
    BY <2>2, <2>4, <2>6
    DEF Check, Elapsed, Goto, TypeOK, Times, shared, locals, history
  <2>7. CASE Lock(t)
    BY <2>2, <2>4, <2>7 DEF Lock, Goto, TypeOK, locals, history
  <2>8. CASE SetStart(t)
    BY <2>2, <2>4, <2>8 DEF SetStart, Opened, Goto, TypeOK, Times, locals, history
  <2>9. CASE KeepStart(t)
    BY <2>2, <2>4, <2>9
    DEF KeepStart, StillElapsed, Elapsed, Goto, TypeOK, Times, shared, locals,
        history
  <2>10. CASE SetCount(t)
    BY <2>2, <2>4, <2>10 DEF SetCount, Goto, TypeOK, Times, locals
  <2>11. CASE Unlock(t)
    BY <2>2, <2>4, <2>11 DEF Unlock, Goto, TypeOK, locals, history
  <2>12. CASE Increment(t)
    BY <2>4, <2>12 DEF Increment, Goto, TypeOK
  <2>13. QED
    BY <1>4, <2>5, <2>6, <2>7, <2>8, <2>9, <2>10, <2>11, <2>12 DEF ThreadStep
<1>5. CASE UNCHANGED vars
  BY <1>0, <1>5 DEF vars, CallInv
<1>6. QED
  BY <1>1, <1>2, <1>3, <1>4, <1>5 DEF Next, Rest

LEMMA NextWindowInv == TypeOK /\ SequentialInv /\ [Next]_vars => WindowInv'
<1> SUFFICES ASSUME TypeOK, SequentialInv, [Next]_vars, ~overlapped'
             PROVE  WindowInv'
  BY DEF WindowInv
<1> USE LimiterAssumption DEF SequentialInv
<1>0. ~overlapped
  BY DEF TypeOK, Next, ThreadStep, Tick, Bypass, Begin, ReadStart, Check, Lock,
         SetStart, KeepStart, SetCount, Unlock, Increment, Rest, history, vars
<1>1. CASE UNCHANGED <<start, admitted, since>> /\ InWindow' = InWindow
  BY <1>0, <1>1 DEF WindowInv
<1>2. ASSUME UNCHANGED <<start, admitted, since>>,
             NEW t \in Threads, pc[t] # "setCount", pc'[t] # "setCount",
             \A v \in Threads \ {t} : pc'[v] = pc[v]
      PROVE  WindowInv'
  BY <1>1, <1>2 DEF InWindow
<1>3. ASSUME NEW t \in Threads, SetStart(t)
      PROVE  WindowInv'
  <2>1. /\ \A v \in Threads : pc[v] # "setCount"
        /\ start <= now[t] /\ seen[t] = start
    BY <1>0, <1>3 DEF SetStart, CallInv
  <2>2. /\ start' = now[t] /\ admitted' = admitted
        /\ now[t] - start >= Window
    BY <1>3, <2>1
    DEF SetStart, Opened, StillElapsed, Elapsed, TypeOK, Times, history
  <2>3. InWindow = since /\ InWindow' = 0
    BY <1>3, <2>1 DEF InWindow, SetStart, Goto, TypeOK
  <2>4. since <= MaxWrites /\ since \in Nat /\ Len(admitted) \in Nat
    BY DEF TallyInv, TypeOK
  <2>5. ASSUME NEW i \in DOMAIN admitted
        PROVE  /\ admitted[i] < start'
               /\ i <= Len(admitted) - MaxWrites => start' - admitted[i] > Window
    <3>1. /\ i \in 1..Len(admitted) /\ admitted[i] \in Nat
          /\ start \in Nat /\ now[t] \in Nat
      BY <2>5 DEF TypeOK, Times
    <3>2. i > Len(admitted) - since => admitted[i] - start < Window
      BY <1>0, <2>3, <2>5 DEF WindowInv
    <3>3. i <= Len(admitted) - since => admitted[i] < start
      BY <1>0, <2>3, <2>5 DEF WindowInv
    <3>4. QED
      BY <2>2, <2>4, <3>1, <3>2, <3>3
  <2>6. QED
    BY <2>2, <2>3, <2>4, <2>5 DEF WindowInv, TypeOK
<1>4. ASSUME NEW t \in Threads, SetCount(t)
      PROVE  WindowInv'
  <2>1. \A v \in Threads : pc[v] # "idle" => v = t
    BY <1>0, <1>4 DEF SetCount, CallInv
  <2>2. InWindow = 0 /\ InWindow' = 0
    BY <1>4, <2>1 DEF InWindow, SetCount, Goto, TypeOK
  <2>3. QED
    BY <1>0, <1>4, <2>2 DEF SetCount, WindowInv
<1>5. ASSUME NEW t \in Threads, Increment(t), admitted' # admitted
      PROVE  WindowInv'
  <2>1. /\ \A v \in Threads : pc[v] # "setCount" /\ pc'[v] # "setCount"
        /\ start <= now[t] /\ now[t] - start < Window
    BY <1>0, <1>5 DEF Increment, CallInv, Goto, TypeOK
  <2>2. /\ since' = since + 1 /\ start' = start
        /\ admitted' = Append(admitted, now[t])
    BY <1>5 DEF Increment, history
  <2>3. InWindow = since /\ InWindow' = since + 1
    BY <2>1, <2>2 DEF InWindow
  <2> DEFINE n == Len(admitted)
  <2>4. /\ DOMAIN admitted' = 1..n + 1 /\ Len(admitted') = n + 1
        /\ \A i \in 1..n : admitted'[i] = admitted[i]
        /\ admitted'[n + 1] = now[t]
    BY <2>2, AppendEntry DEF TypeOK
  <2>5. n \in Nat /\ since \in Nat /\ DOMAIN admitted = 1..n
    BY DEF TypeOK
  <2> HIDE DEF n
  <2>6. ASSUME NEW i \in 1..n
        PROVE  /\ i > n - since => start <= admitted[i] /\ admitted[i] - start < Window
               /\ i <= n - since => admitted[i] < start
               /\ i <= n - since - MaxWrites => start - admitted[i] > Window
    BY <1>0, <2>3, <2>5 DEF WindowInv, n
  <2>7. Len(admitted') - InWindow' = n - since
    BY <2>3, <2>4, <2>5
  <2>8. QED
    BY <2>1, <2>2, <2>4, <2>5, <2>6, <2>7 DEF WindowInv
<1>6. ASSUME NEW t \in Threads, ThreadStep(t), ~SetStart(t), ~SetCount(t),
             admitted' = admitted
      PROVE  WindowInv'
  <2>1. /\ pc[t] # "setCount" /\ pc'[t] # "setCount"
        /\ \A v \in Threads \ {t} : pc'[v] = pc[v]
    BY <1>6
    DEF ThreadStep, ReadStart, Check, Lock, KeepStart, Unlock, Increment, Goto,
        TypeOK
  <2>2. since' = since /\ start' = start
    <3>1. CASE Increment(t)
      <4>1. Append(admitted, now[t]) # admitted
        BY AppendEntry DEF TypeOK
      <4>2. QED
        BY <1>6, <3>1, <4>1 DEF Increment, history
    <3>2. QED
      BY <1>6, <3>1
      DEF ThreadStep, ReadStart, Check, Lock, KeepStart, Unlock, shared, history
  <2>3. QED
    BY <1>2, <1>6, <2>1, <2>2
<1>7. ASSUME NEW t \in Threads, Begin(t)
      PROVE  WindowInv'
  BY <1>2, <1>7 DEF Begin, Goto, TypeOK, shared
<1>8. CASE UNCHANGED <<start, admitted, since, pc>>
  BY <1>1, <1>8 DEF InWindow
<1>9. ASSUME NEW t \in Threads, ThreadStep(t)
      PROVE  WindowInv'
  <2>1. admitted' = admitted \/ Increment(t)
    BY <1>9
    DEF ThreadStep, ReadStart, Check, Lock, SetStart, KeepStart, SetCount,
        Unlock, history
  <2>2. QED
    BY <1>3, <1>4, <1>5, <1>6, <1>9, <2>1
<1>10. QED
  BY <1>7, <1>8, <1>9 DEF Next, Tick, Bypass, Rest, shared, history, vars

LEMMA Sequential == Spec => [](TypeOK /\ SequentialInv)
<1>1. Init => TypeOK /\ SequentialInv
  BY InitTypeOK, LimiterAssumption
  DEF Init, SequentialInv, ClockInv, TallyInv, CallInv, WindowInv
<1>2. TypeOK /\ SequentialInv /\ [Next]_vars => (TypeOK /\ SequentialInv)'
  BY NextTypeOK, NextClockInv, NextTallyInv, NextCallInv, NextWindowInv
  DEF SequentialInv
<1>3. QED
  BY <1>1, <1>2, PTL DEF Spec

\* As long as calls do not overlap, 2 * MaxWrites + 1 calls in a row take more
\* than a window: for every limit and window, and however the clock advances.
THEOREM BurstsAreBounded == Spec => []BurstBound
<1>1. Init => BurstBound
  BY DEF Init, BurstBound
<1>2. TypeOK /\ SequentialInv /\ BurstBound /\ [Next]_vars => BurstBound'
  <2> SUFFICES ASSUME TypeOK, SequentialInv, BurstBound, [Next]_vars, ~overlapped'
               PROVE  BurstBound'
    BY DEF BurstBound
  <2> USE LimiterAssumption DEF SequentialInv
  <2>0. ~overlapped
    BY DEF TypeOK, Next, ThreadStep, Tick, Bypass, Begin, ReadStart, Check,
           Lock, SetStart, KeepStart, SetCount, Unlock, Increment, Rest,
           history, vars
  <2>1. CASE admitted' = admitted
    BY <2>0, <2>1 DEF BurstBound
  <2>2. ASSUME NEW t \in Threads, Increment(t), admitted' # admitted
        PROVE  BurstBound'
    <3> DEFINE n == Len(admitted)
    <3>1. /\ admitted' = Append(admitted, now[t])
          /\ count + 1 <= MaxWrites
      BY <2>2 DEF Increment, OverLimit, TypeOK, history
    <3>2. /\ DOMAIN admitted' = 1..n + 1
          /\ \A i \in 1..n : admitted'[i] = admitted[i]
          /\ admitted'[n + 1] = now[t]
      BY <3>1, AppendEntry DEF TypeOK
    <3>3. /\ n \in Nat /\ DOMAIN admitted = 1..n
          /\ \A i \in 1..n : admitted[i] \in Nat
          /\ start \in Nat /\ now[t] \in Nat
      BY DEF TypeOK, Times
    <3>4. start <= now[t] /\ InWindow = since
      BY <2>0, <2>2 DEF Increment, CallInv, InWindow
    <3>5. since \in Nat /\ since + 1 <= MaxWrites
      BY <3>1 DEF TallyInv, TypeOK
    <3> HIDE DEF n
    <3>6. \A i \in 1..n : i <= n - since - MaxWrites => start - admitted[i] > Window
      BY <2>0, <3>3, <3>4 DEF WindowInv, n
    <3>7. ASSUME NEW i \in 1..n + 1, i + 2 * MaxWrites \in 1..n + 1
          PROVE  admitted'[i + 2 * MaxWrites] - admitted'[i] > Window
      <4>1. CASE i + 2 * MaxWrites \in 1..n
        <5>1. i \in 1..n
          BY <3>3, <3>7, <4>1
        <5>2. QED
          BY <2>0, <3>2, <3>3, <4>1, <5>1 DEF BurstBound
      <4>2. CASE i + 2 * MaxWrites = n + 1
        <5>1. i \in 1..n /\ i <= n - since - MaxWrites
          BY <3>3, <3>5, <3>7, <4>2
        <5>2. start - admitted[i] > Window
          BY <3>6, <5>1
        <5>3. admitted'[i + 2 * MaxWrites] = now[t] /\ admitted'[i] = admitted[i]
          BY <3>2, <4>2, <5>1
        <5>4. QED
          BY <3>3, <3>4, <5>1, <5>2, <5>3
      <4>3. QED
        BY <3>3, <3>7, <4>1, <4>2
    <3>8. QED
      BY <3>2, <3>7 DEF BurstBound
  <2>3. QED
    BY <2>1, <2>2
    DEF Next, ThreadStep, Tick, Bypass, Begin, ReadStart, Check, Lock, SetStart,
        KeepStart, SetCount, Unlock, Rest, history, vars
<1>3. QED
  BY <1>1, <1>2, Sequential, PTL DEF Spec

LEMMA NextDropInv == TypeOK /\ SequentialInv /\ DropInv /\ [Next]_vars => DropInv'
<1> SUFFICES ASSUME TypeOK, SequentialInv, DropInv, [Next]_vars, ~overlapped',
                    NEW u \in Threads, verdict'[u] = "dropped"
             PROVE  \E k \in 0..Len(admitted') - MaxWrites :
                        \A i \in 1..MaxWrites : now'[u] - admitted'[k + i] < Window
  BY DEF DropInv
<1> DEFINE Goal == \E k \in 0..Len(admitted') - MaxWrites :
                       \A i \in 1..MaxWrites : now'[u] - admitted'[k + i] < Window
<1> USE LimiterAssumption DEF SequentialInv
<1>0. ~overlapped
  BY DEF TypeOK, Next, ThreadStep, Tick, Bypass, Begin, ReadStart, Check, Lock,
         SetStart, KeepStart, SetCount, Unlock, Increment, Rest, history, vars
<1>1. CASE verdict[u] = "dropped" /\ now'[u] = now[u] /\ admitted' = admitted
  BY <1>0, <1>1 DEF DropInv
<1>2. CASE /\ verdict[u] = "dropped" /\ now'[u] = now[u]
           /\ \E e \in Times : admitted' = Append(admitted, e)
  <2>1. PICK k \in 0..Len(admitted) - MaxWrites :
              \A i \in 1..MaxWrites : now[u] - admitted[k + i] < Window
    BY <1>0, <1>2 DEF DropInv
  <2>2. /\ Len(admitted') = Len(admitted) + 1
        /\ \A i \in 1..Len(admitted) : admitted'[i] = admitted[i]
    BY <1>2, AppendEntry DEF TypeOK
  <2>3. Len(admitted) \in Nat
    BY DEF TypeOK
  <2>4. k \in 0..Len(admitted') - MaxWrites
    BY <2>1, <2>2, <2>3
  <2>5. \A i \in 1..MaxWrites : k + i \in 1..Len(admitted)
    BY <2>1, <2>3
  <2>6. \A i \in 1..MaxWrites : now'[u] - admitted'[k + i] < Window
    BY <1>2, <2>1, <2>2, <2>5
  <2>7. QED
    BY <2>4, <2>6
<1>3. CASE Increment(u)
  <2> DEFINE n == Len(admitted)
  <2>1. count + 1 > MaxWrites /\ admitted' = admitted /\ now' = now
    BY <1>3 DEF Increment, OverLimit, TypeOK, history, locals
  <2>2. since = MaxWrites /\ since <= n /\ n \in Nat
    BY <2>1 DEF TallyInv, TypeOK
  <2>3. InWindow = since /\ now[u] - start < Window
    BY <1>0, <1>3 DEF Increment, CallInv, InWindow
  <2> HIDE DEF n
  <2>4. n - MaxWrites \in 0..n - MaxWrites
    BY <2>2
  <2>5. ASSUME NEW i \in 1..MaxWrites
        PROVE  now[u] - admitted[(n - MaxWrites) + i] < Window
    <3>1. (n - MaxWrites) + i \in 1..n /\ (n - MaxWrites) + i > n - since
      BY <2>2
    <3>2. start <= admitted[(n - MaxWrites) + i]
      BY <1>0, <2>3, <3>1 DEF WindowInv, TypeOK, n
    <3>3. admitted[(n - MaxWrites) + i] \in Nat /\ now[u] \in Nat /\ start \in Nat
      <4>1. admitted \in Seq(Times) /\ n = Len(admitted)
        BY DEF TypeOK, n
      <4>2. Times \subseteq Nat /\ now[u] \in Times /\ start \in Times
        BY DEF TypeOK, Times
      <4>3. admitted[(n - MaxWrites) + i] \in Times
        BY <3>1, <4>1
      <4>4. QED
        BY <4>2, <4>3
    <3>4. QED
      BY <2>3, <3>2, <3>3
  <2>6. \E k \in 0..n - MaxWrites :
            \A i \in 1..MaxWrites : now[u] - admitted[k + i] < Window
    BY <2>4, <2>5
  <2>7. QED
    BY <2>1, <2>6 DEF n
<1>4. ASSUME NEW t \in Threads, Increment(t), t # u
      PROVE  Goal
  <2>1. /\ verdict[u] = "dropped" /\ now' = now
        /\ admitted' = admitted \/ admitted' = Append(admitted, now[t])
    BY <1>4 DEF Increment, TypeOK, history, locals
  <2>2. now[t] \in Times
    BY DEF TypeOK
  <2>3. QED
    BY <1>1, <1>2, <2>1, <2>2
<1>5. ASSUME NEW t \in Threads, Bypass(t) \/ Begin(t)
      PROVE  Goal
  <2>1. t # u /\ verdict[u] = "dropped"
    BY <1>5 DEF Bypass, Begin, TypeOK
  <2>2. now'[u] = now[u] /\ admitted' = admitted
    BY <1>5, <2>1 DEF Bypass, Begin, TypeOK, locals, history
  <2>3. QED
    BY <1>1, <2>1, <2>2
<1>6. CASE UNCHANGED <<verdict, now, admitted>>
  BY <1>1, <1>6
<1>7. QED
  BY <1>3, <1>4, <1>5, <1>6
  DEF Next, ThreadStep, Tick, ReadStart, Check, Lock, SetStart, KeepStart,
      SetCount, Unlock, Rest, shared, locals, history, vars

\* As long as calls do not overlap, nothing is dropped that MaxWrites others, let
\* through less than a window before, do not account for.
THEOREM DropsAreJustified == Spec => []DropsJustified
<1>1. Init => DropInv
  BY DEF Init, DropInv
<1>2. TypeOK /\ DropInv => DropsJustified
  <2> SUFFICES ASSUME TypeOK, DropInv, ~overlapped,
                      NEW t \in Threads, verdict[t] = "dropped"
               PROVE  Cardinality(Recent(t)) >= MaxWrites
    BY DEF DropsJustified
  <2>1. PICK k \in 0..Len(admitted) - MaxWrites :
              \A i \in 1..MaxWrites : now[t] - admitted[k + i] < Window
    BY DEF DropInv
  <2> DEFINE last == (k + 1)..(k + MaxWrites)
  <2>2. /\ k \in Nat /\ MaxWrites \in Nat /\ Len(admitted) \in Nat
        /\ DOMAIN admitted = 1..Len(admitted)
    BY LimiterAssumption DEF TypeOK
  <2>3. last \subseteq Recent(t)
    <3>1. SUFFICES ASSUME NEW j \in last
                   PROVE  j \in Recent(t)
      OBVIOUS
    <3>2. j - k \in 1..MaxWrites /\ k + (j - k) = j /\ j \in 1..Len(admitted)
      BY <2>1, <2>2
    <3>3. now[t] - admitted[j] < Window
      BY <2>1, <3>2
    <3>4. QED
      BY <2>2, <3>2, <3>3 DEF Recent
  <2>4. IsFiniteSet(Recent(t))
    <3>1. IsFiniteSet(1..Len(admitted))
      BY <2>2, FS_Interval
    <3>2. Recent(t) \subseteq 1..Len(admitted)
      BY <2>2 DEF Recent
    <3>3. QED
      BY <3>1, <3>2, FS_Subset
  <2>5. Cardinality(last) = MaxWrites /\ Cardinality(last) <= Cardinality(Recent(t))
    <3>1. Cardinality(last) = IF k + 1 > k + MaxWrites THEN 0 ELSE MaxWrites
      <4>1. k + 1 \in Int /\ k + MaxWrites \in Int
        BY <2>2
      <4>2. Cardinality(last) = IF k + 1 > k + MaxWrites THEN 0
                                ELSE (k + MaxWrites) - (k + 1) + 1
        BY <4>1, FS_Interval
      <4>3. QED
        BY <2>2, <4>2
    <3>2. QED
      BY <2>2, <2>3, <2>4, <3>1, FS_Subset
  <2>6. Cardinality(Recent(t)) \in Nat
    BY <2>4, FS_CardinalityType
  <2>7. QED
    BY <2>2, <2>5, <2>6
<1>3. QED
  BY <1>1, <1>2, NextDropInv, Sequential, PTL DEF Spec
=============================================================================
