------------------------- MODULE TokenProviderProofs -------------------------
(***************************************************************************)
(* Proofs about TokenProvider, for every set of callers, every lifetime,    *)
(* skew and bound.                                                          *)
(***************************************************************************)
EXTENDS TokenProvider, TLAPS

LEMMA InitTypeOK == Init => TypeOK
  BY ProviderAssumption
  DEF Init, TypeOK, NoToken, NoTask, NoOne, MinValue, Logins, PCs, Statuses,
      Answers, Nothing

LEMMA EndTypes ==
    ASSUME TypeOK, NEW c \in Callers, NEW a \in Answers, End(c, a)
    PROVE  /\ pc' \in [Callers -> PCs]
           /\ mine' \in [Callers -> 0..MaxLogins]
           /\ got' \in [Callers -> 0..MaxLogins]
           /\ cancelled' \in [Callers -> BOOLEAN]
           /\ answer' \in [Callers -> Answers]
           /\ asked' = asked
  BY ProviderAssumption DEF TypeOK, End, Goto, PCs, NoTask, NoToken

LEMMA AnswerTypes ==
    ASSUME TypeOK
    PROVE  /\ \A k \in {"failed", "canceled"} : Thrown(k) \in Answers
           /\ \A t \in 0..MaxLogins, e \in Int : Pair(t, e) \in Answers
  BY ProviderAssumption
  DEF Answers, Thrown, Pair, NoToken, MinValue

LEMMA LeaveTypes ==
    ASSUME TypeOK, NEW c \in Callers, LeaveClear(c), Finished(mine[c])
    PROVE  /\ gate' \in Callers \cup {NoOne}
           /\ pc' \in [Callers -> PCs]
           /\ mine' \in [Callers -> 0..MaxLogins]
           /\ got' \in [Callers -> 0..MaxLogins]
           /\ cancelled' \in [Callers -> BOOLEAN]
           /\ answer' \in [Callers -> Answers]
           /\ asked' = asked
<1>1. CASE status[mine[c]] = "done"
  BY <1>1 DEF TypeOK, LeaveClear, Goto, PCs
<1>2. CASE status[mine[c]] # "done"
  <2>1. Thrown(status[mine[c]]) \in Answers
    BY <1>2, AnswerTypes DEF Finished
  <2>2. End(c, Thrown(status[mine[c]])) /\ gate' = NoOne
    BY <1>2 DEF LeaveClear
  <2>3. QED
    BY <2>1, <2>2, EndTypes
<1>3. QED
  BY <1>1, <1>2

-----------------------------------------------------------------------------
(***************************************************************************)
(* The type invariant.  It is inductive together with LocalInv, which says  *)
(* that a caller that comes to clear its task knows a finished task.        *)
(***************************************************************************)
LEMMA NextTypeOK == TypeOK /\ LocalInv /\ [Next]_vars => TypeOK'
<1> SUFFICES ASSUME TypeOK, LocalInv, [Next]_vars
             PROVE  TypeOK'
  OBVIOUS
<1> USE ProviderAssumption
<1>1. CASE Tick
  BY <1>1 DEF TypeOK, Tick, shared, task, locals
<1>2. ASSUME NEW c \in Callers, Call(c)
      PROVE  TypeOK'
  BY <1>2 DEF TypeOK, Call, Goto, PCs, Answers, Nothing, NoToken, MinValue,
              shared, task
<1>3. ASSUME NEW c \in Callers, Cancel(c)
      PROVE  TypeOK'
  BY <1>3 DEF TypeOK, Cancel, shared, task
<1>4. ASSUME NEW c \in Callers, TakeGate(c)
      PROVE  TypeOK'
  BY <1>4 DEF TypeOK, TakeGate, Goto, PCs, shared, task, locals
<1>5. ASSUME NEW c \in Callers, Enter(c) \/ RecheckFresh(c)
      PROVE  TypeOK'
  BY <1>5 DEF TypeOK, Enter, RecheckFresh, Goto, PCs, shared, task, locals
<1>6. ASSUME NEW c \in Callers, GateCancelled(c)
      PROVE  TypeOK'
  <2>1. Thrown("canceled") \in Answers
    BY AnswerTypes
  <2>2. QED
    BY <1>6, <2>1, EndTypes DEF TypeOK, GateCancelled, shared, task
<1>7. ASSUME NEW c \in Callers, Join(c)
      PROVE  TypeOK'
  BY <1>7 DEF TypeOK, Join, Goto, PCs, shared, task
<1>8. ASSUME NEW c \in Callers, Start(c)
      PROVE  TypeOK'
  BY <1>8 DEF TypeOK, Start, Goto, PCs, Statuses, Logins, shared
<1>9. ASSUME NEW c \in Callers, AssignTask(c)
      PROVE  TypeOK'
  BY <1>9 DEF TypeOK, AssignTask, Goto, PCs, shared, task, locals
<1>10. ASSUME NEW c \in Callers, ReleaseGate(c)
       PROVE  TypeOK'
  BY <1>10 DEF TypeOK, ReleaseGate, Goto, PCs, shared, task, locals
<1>11. ASSUME NEW c \in Callers, Awaited(c) \/ FindOwnTask(c)
       PROVE  TypeOK'
  BY <1>11 DEF TypeOK, Awaited, FindOwnTask, Goto, PCs, shared, task, locals
<1>12. ASSUME NEW c \in Callers, FindOtherTask(c) \/ SetNull(c)
       PROVE  TypeOK'
  <2>1. LeaveClear(c) /\ Finished(mine[c])
    BY <1>12 DEF FindOtherTask, SetNull, LocalInv
  <2>2. refreshTask' \in 0..MaxLogins /\ UNCHANGED <<now, shared, task>>
    BY <1>12 DEF TypeOK, FindOtherTask, SetNull, NoTask
  <2>3. QED
    BY <2>1, <2>2, LeaveTypes DEF TypeOK, shared, task
<1>13. ASSUME NEW c \in Callers, ReadToken(c)
       PROVE  TypeOK'
  BY <1>13 DEF TypeOK, ReadToken, Goto, PCs, shared, task
<1>14. ASSUME NEW c \in Callers, ReadExpiry(c)
       PROVE  TypeOK'
  <2>1. Pair(got[c], expires) \in Answers
    BY AnswerTypes DEF TypeOK
  <2>2. QED
    BY <1>14, <2>1, EndTypes
    DEF TypeOK, ReadExpiry, GateAfterReturn, shared, task
<1>15. ASSUME NEW t \in Logins, RefreshStep(t)
       PROVE  TypeOK'
  <2>1. CASE StoreToken(t)
    BY <2>1 DEF TypeOK, StoreToken, SetStatus, Statuses, Logins, locals
  <2>2. CASE LoginFails(t) \/ LoginCanceled(t) \/ ExpiryFails(t)
    BY <2>2 DEF TypeOK, LoginFails, LoginCanceled, ExpiryFails, SetStatus,
                Statuses, shared, locals
  <2>3. CASE StoreExpiry(t)
    BY <2>3 DEF TypeOK, StoreExpiry, SetStatus, Statuses, locals
  <2>4. QED
    BY <1>15, <2>1, <2>2, <2>3 DEF RefreshStep
<1>16. CASE UNCHANGED vars
  BY <1>16 DEF TypeOK, vars
<1>17. QED
  BY <1>1, <1>2, <1>3, <1>4, <1>5, <1>6, <1>7, <1>8, <1>9, <1>10, <1>11,
     <1>12, <1>13, <1>14, <1>15, <1>16
  DEF Next, CallerStep, Rest

-----------------------------------------------------------------------------
(***************************************************************************)
(* The inductive invariant.                                                 *)
(***************************************************************************)
LEMMA InitIInv == Init => IInv
  BY ProviderAssumption
  DEF Init, IInv, GateInv, TaskInv, LocalInv, StaleInv, AgeInv, NoOlderToken,
      Running, Finished, NoToken, NoTask, NoOne, Nothing, MinValue

\* A token is fresh or not by the clock: what is stale stays stale until a
\* refresh stores an expiry.
LEMMA TickIInv == TypeOK /\ IInv /\ Tick => IInv'
  BY DEF TypeOK, IInv, GateInv, TaskInv, LocalInv, StaleInv, AgeInv,
         NoOlderToken, Tick, NeedsRefresh, Running, Finished, shared, task,
         locals

\* The steps of a caller before it reaches the gate, and its cancellation.
LEMMA OutsideIInv ==
    ASSUME TypeOK, IInv, NEW c \in Callers,
           Call(c) \/ Cancel(c) \/ Enter(c) \/ Awaited(c)
    PROVE  IInv'
<1>1. CASE Call(c)
  BY <1>1 DEF TypeOK, IInv, GateInv, TaskInv, LocalInv, StaleInv, AgeInv,
              NoOlderToken, Call, Goto, Nothing, NeedsRefresh, Running,
              Finished, PCs, shared, task
<1>2. CASE Cancel(c)
  BY <1>2 DEF TypeOK, IInv, GateInv, TaskInv, LocalInv, StaleInv, AgeInv,
              NoOlderToken, Cancel, NeedsRefresh, Running, Finished, shared,
              task
<1>3. CASE Enter(c)
  BY <1>3 DEF TypeOK, IInv, GateInv, TaskInv, LocalInv, StaleInv, AgeInv,
              NoOlderToken, Enter, Goto, NeedsRefresh, Running, Finished, PCs,
              shared, task, locals
<1>4. CASE Awaited(c)
  BY <1>4 DEF TypeOK, IInv, GateInv, TaskInv, LocalInv, StaleInv, AgeInv,
              NoOlderToken, Awaited, Goto, NeedsRefresh, Running, Finished,
              PCs, shared, task, locals
<1>5. QED
  BY <1>1, <1>2, <1>3, <1>4

\* A call that ends outside the gate gives up everything the invariant says of
\* it, and what it answers is no older than what it could have had.
LEMMA EndIInv ==
    ASSUME TypeOK, IInv, NEW c \in Callers, NEW a \in Answers, End(c, a),
           a.kind = "token" => asked[c] <= a.tok,
           gate' = gate \/ (gate = c /\ gate' = NoOne),
           pc[c] # "starting",
           UNCHANGED <<now, shared, refreshTask, task>>
    PROVE  IInv'
<1> USE ProviderAssumption
        DEF TypeOK, IInv, End, Goto, shared, task
<1>1. GateInv'
  BY DEF GateInv
<1>2. TaskInv' /\ StaleInv'
  BY DEF TaskInv, StaleInv, NeedsRefresh, Running
<1>3. LocalInv'
  BY DEF LocalInv, Finished
<1>4. AgeInv' /\ NoOlderToken'
  BY DEF AgeInv, NoOlderToken
<1>5. QED
  BY <1>1, <1>2, <1>3, <1>4

LEMMA GateIInv ==
    ASSUME TypeOK, IInv, NEW c \in Callers, TakeGate(c) \/ ReleaseGate(c)
    PROVE  IInv'
<1> USE ProviderAssumption
        DEF TypeOK, IInv, TakeGate, ReleaseGate, GateFree, Goto, shared, task,
            locals, NoOne, PCs
<1>1. GateInv'
  BY DEF GateInv
<1>2. TaskInv' /\ StaleInv'
  BY DEF TaskInv, StaleInv, NeedsRefresh, Running
<1>3. LocalInv'
  BY DEF LocalInv, Finished
<1>4. AgeInv' /\ NoOlderToken'
  BY DEF AgeInv, NoOlderToken
<1>5. QED
  BY <1>1, <1>2, <1>3, <1>4

\* Under the gate, before the await.  Start is where a second login could
\* begin: nobody else is starting one, since that takes the gate, and no task
\* is running, since it would be in _refreshTask.
LEMMA RecheckIInv ==
    ASSUME TypeOK, IInv, NEW c \in Callers,
           RecheckFresh(c) \/ Join(c) \/ Start(c) \/ AssignTask(c)
    PROVE  IInv'
<1> USE DEF TypeOK, IInv, Goto, PCs, shared, task, locals, NoTask
<1>1. CASE RecheckFresh(c)
  BY <1>1 DEF GateInv, TaskInv, LocalInv, StaleInv, AgeInv, NoOlderToken,
              RecheckFresh, NeedsRefresh, Running, Finished
<1>2. CASE Join(c)
  <2> USE <1>2 DEF Join
  <2>1. mine'[c] = started /\ started \in Logins /\ asked[c] <= started
    BY DEF TaskInv, AgeInv, Logins
  <2>2. GateInv' /\ TaskInv' /\ StaleInv'
    BY DEF GateInv, TaskInv, StaleInv, NeedsRefresh, Running
  <2>3. LocalInv'
    BY <2>1 DEF LocalInv, Finished
  <2>4. AgeInv' /\ NoOlderToken'
    BY DEF AgeInv, NoOlderToken
  <2>5. QED
    BY <2>2, <2>3, <2>4
<1>3. CASE Start(c)
  <2> USE <1>3 DEF Start
  <2>1. \A d \in Callers : d # c => pc[d] # "starting"
    BY DEF GateInv
  <2>2. \A t \in Logins : ~Running(t)
    BY <2>1 DEF TaskInv, Logins
  <2>3. GateInv'
    BY DEF GateInv
  <2>4. \A t \in Logins : Running(t)' => t = started + 1
    BY <2>2 DEF Running
  <2>5. TaskInv'
    BY <2>4 DEF TaskInv, Logins
  <2>6. LocalInv'
    <3>1. \A d \in Callers : d # c => (pc'[d] = pc[d] /\ mine'[d] = mine[d])
      OBVIOUS
    <3>2. \A t \in Logins : Finished(t) => Finished(t)'
      BY DEF Finished, TaskInv
    <3>3. asked[c] <= started + 1
      BY DEF AgeInv, TaskInv
    <3>4. ASSUME NEW d \in Callers, d # c
          PROVE  /\ pc'[d] # "starting"
                 /\ pc'[d] # "setNull"
                 /\ pc'[d] \in {"started", "await", "waitClear", "clear"} =>
                        mine'[d] \in Logins /\ asked'[d] <= mine'[d]
                 /\ pc'[d] \in {"waitClear", "clear"} => Finished(mine[d])'
      BY <2>1, <3>1, <3>2, <3>4 DEF LocalInv, GateInv
    <3>5. QED
      BY <3>3, <3>4, ProviderAssumption DEF LocalInv, Logins
  <2>7. StaleInv'
    BY <2>2 DEF StaleInv, StillStale, NeedsRefresh, Running
  <2>8. AgeInv' /\ NoOlderToken'
    BY DEF AgeInv, NoOlderToken
  <2>9. QED
    BY <2>3, <2>5, <2>6, <2>7, <2>8
<1>4. CASE AssignTask(c)
  <2> USE <1>4 DEF AssignTask
  <2>1. mine[c] = started
    BY DEF LocalInv
  <2>2. \A d \in Callers : d # c => pc[d] \notin {"starting", "setNull"}
    BY DEF GateInv
  <2>3. GateInv'
    BY DEF GateInv
  <2>4. TaskInv'
    BY <2>1 DEF TaskInv, Running
  <2>5. LocalInv'
    BY <2>2 DEF LocalInv, Finished
  <2>6. StaleInv' /\ AgeInv' /\ NoOlderToken'
    BY DEF StaleInv, AgeInv, NoOlderToken, NeedsRefresh, Running
  <2>7. QED
    BY <2>3, <2>4, <2>5, <2>6
<1>5. QED
  BY <1>1, <1>2, <1>3, <1>4

\* Under the gate, after the await.  The task a caller sets to null is the one
\* it awaited, so it has finished: no running task is forgotten.
LEMMA LeaveIInv ==
    ASSUME TypeOK, IInv, NEW c \in Callers,
           pc[c] \in {"clear", "setNull"}, LeaveClear(c),
           refreshTask' \in {refreshTask, NoTask},
           refreshTask' # refreshTask => Finished(refreshTask),
           UNCHANGED <<now, shared, task>>
    PROVE  IInv'
<1> USE ProviderAssumption DEF TypeOK, IInv, shared, task
<1>1. gate = c
  BY DEF GateInv
<1>2. /\ gate' = NoOne
      /\ \A d \in Callers : d # c =>
            /\ pc[d] \notin {"recheck", "starting", "started", "clear", "setNull"}
            /\ pc'[d] = pc[d] /\ mine'[d] = mine[d] /\ got'[d] = got[d]
            /\ answer'[d] = answer[d] /\ asked'[d] = asked[d]
      /\ pc'[c] \in {"idle", "readExpiry"}
  BY <1>1 DEF GateInv, LeaveClear, End, Goto
<1>3. GateInv'
  BY <1>2 DEF GateInv
<1>4. \A t \in Logins : Running(t) => refreshTask = t
  <2>1. \A d \in Callers : pc[d] # "starting"
    BY <1>2
  <2>2. QED
    BY <2>1 DEF TaskInv
<1>5. \A t \in Logins : Running(t) => refreshTask' = t
  BY <1>4 DEF Running, Finished
<1>6. TaskInv'
  BY <1>5 DEF TaskInv, Running, NoTask
<1>7. LocalInv'
  BY <1>2 DEF LocalInv, Finished
<1>8. StaleInv'
  BY DEF StaleInv, NeedsRefresh, Running
<1>9. asked'[c] <= token /\ asked'[c] = asked[c]
  BY DEF LeaveClear, End, AgeInv
<1>10. pc'[c] = "readExpiry" => asked[c] <= got'[c]
  BY DEF LeaveClear, End, Goto, LocalInv
<1>11. answer'[c].kind = "token" => asked[c] <= answer'[c].tok
  BY DEF LeaveClear, End, Goto, Thrown, LocalInv, NoOlderToken, Finished
<1>12. AgeInv' /\ NoOlderToken'
  BY <1>2, <1>9, <1>10, <1>11 DEF AgeInv, NoOlderToken
<1>13. QED
  BY <1>3, <1>6, <1>7, <1>8, <1>12

LEMMA ClearIInv ==
    ASSUME TypeOK, IInv, NEW c \in Callers,
           FindOwnTask(c) \/ FindOtherTask(c) \/ SetNull(c)
    PROVE  IInv'
<1>1. CASE FindOwnTask(c)
  BY <1>1 DEF TypeOK, IInv, GateInv, TaskInv, LocalInv, StaleInv, AgeInv,
              NoOlderToken, FindOwnTask, OwnTask, Goto, NeedsRefresh, Running,
              Finished, PCs, shared, task, locals
<1>2. CASE FindOtherTask(c)
  BY <1>2, LeaveIInv DEF FindOtherTask
<1>3. CASE SetNull(c)
  <2>1. Finished(refreshTask)
    BY <1>3 DEF SetNull, IInv, LocalInv
  <2>2. QED
    BY <1>3, <2>1, LeaveIInv DEF SetNull
<1>4. QED
  BY <1>1, <1>2, <1>3

\* The two reads of a return statement.
LEMMA ReturnIInv ==
    ASSUME TypeOK, IInv, NEW c \in Callers,
           ReadToken(c) \/ ReadExpiry(c) \/ GateCancelled(c)
    PROVE  IInv'
<1>1. CASE ReadToken(c)
  BY <1>1 DEF TypeOK, IInv, GateInv, TaskInv, LocalInv, StaleInv, AgeInv,
              NoOlderToken, ReadToken, Goto, NeedsRefresh, Running, Finished,
              PCs, shared, task
<1>2. CASE ReadExpiry(c)
  <2>1. Pair(got[c], expires) \in Answers
    BY AnswerTypes DEF TypeOK
  <2>2. asked[c] <= Pair(got[c], expires).tok
    BY <1>2 DEF ReadExpiry, Pair, IInv, AgeInv
  <2>3. gate' = gate \/ (gate = c /\ gate' = NoOne)
    BY <1>2 DEF ReadExpiry, GateAfterReturn
  <2>4. QED
    BY <1>2, <2>1, <2>2, <2>3, EndIInv DEF ReadExpiry
<1>3. CASE GateCancelled(c)
  <2>1. Thrown("canceled") \in Answers /\ Thrown("canceled").kind # "token"
    BY AnswerTypes DEF Thrown
  <2>2. QED
    BY <1>3, <2>1, EndIInv DEF GateCancelled
<1>4. QED
  BY <1>1, <1>2, <1>3

\* A refresh task stores its token, which is the newest, and its expiry, after
\* which nothing runs.
LEMMA RefreshIInv ==
    ASSUME TypeOK, IInv, NEW t \in Logins, RefreshStep(t)
    PROVE  IInv'
<1> USE DEF TypeOK, IInv, SetStatus, Logins
<1>1. Running(t) /\ t = started
  BY DEF TaskInv, RefreshStep, StoreToken, LoginFails, LoginCanceled,
         StoreExpiry, ExpiryFails, Running
<1>2. UNCHANGED <<now, refreshTask, gate, started, pc, mine, got, answer, asked>>
  BY DEF RefreshStep, StoreToken, LoginFails, LoginCanceled, StoreExpiry,
         ExpiryFails, locals
<1>3. /\ \A u \in Logins : u # t => status'[u] = status[u]
      /\ status'[t] \in {"stored", "done", "failed", "canceled"}
  BY DEF RefreshStep, StoreToken, LoginFails, LoginCanceled, StoreExpiry,
         ExpiryFails
<1>4. token' \in {token, started} /\ token <= token'
  BY <1>1 DEF RefreshStep, StoreToken, LoginFails, LoginCanceled, StoreExpiry,
              ExpiryFails, shared, TaskInv
<1>5. expires' = expires \/ status'[t] = "done"
  BY DEF RefreshStep, StoreToken, LoginFails, LoginCanceled, StoreExpiry,
         ExpiryFails, shared
<1>6. GateInv'
  BY <1>2 DEF GateInv
<1>7. TaskInv'
  <2>1. status'[t] = "stored" => token' = t
    BY <1>1 DEF RefreshStep, StoreToken, LoginFails, LoginCanceled,
                StoreExpiry, ExpiryFails
  <2>2. QED
    BY <1>1, <1>2, <1>3, <1>4, <2>1 DEF TaskInv, Running
<1>8. LocalInv'
  BY <1>1, <1>2, <1>3 DEF LocalInv, Finished, Running
<1>9. StaleInv'
  <2>1. \A u \in Logins : Running(u)' => u = t /\ expires' = expires
    BY <1>1, <1>3, <1>5 DEF TaskInv, Running
  <2>2. now >= expires
    BY <1>1 DEF StaleInv
  <2>3. token' = NoToken => expires' = expires
    <3>1. CASE StoreExpiry(t)
      BY <3>1 DEF StoreExpiry, TaskInv, NoToken
    <3>2. CASE ~StoreExpiry(t)
      BY <3>2 DEF RefreshStep, StoreToken, LoginFails, LoginCanceled,
                  ExpiryFails, shared
    <3>3. QED
      BY <3>1, <3>2
  <2>4. QED
    BY <1>2, <2>1, <2>2, <2>3 DEF StaleInv
<1>10. AgeInv' /\ NoOlderToken'
  BY <1>2, <1>4 DEF AgeInv, NoOlderToken
<1>11. QED
  BY <1>6, <1>7, <1>8, <1>9, <1>10

LEMMA NextIInv == TypeOK /\ IInv /\ [Next]_vars => IInv'
<1> SUFFICES ASSUME TypeOK, IInv, [Next]_vars
             PROVE  IInv'
  OBVIOUS
<1>1. ASSUME NEW c \in Callers,
             Call(c) \/ Cancel(c) \/ TakeGate(c) \/ CallerStep(c)
      PROVE  IInv'
  BY <1>1, OutsideIInv, GateIInv, RecheckIInv, ClearIInv, ReturnIInv
  DEF CallerStep
<1>2. ASSUME NEW t \in Logins, RefreshStep(t)
      PROVE  IInv'
  BY <1>2, RefreshIInv
<1>3. CASE UNCHANGED vars
  BY <1>3 DEF IInv, GateInv, TaskInv, LocalInv, StaleInv, AgeInv,
              NoOlderToken, Running, Finished, vars
<1>4. QED
  BY <1>1, <1>2, <1>3, TickIInv DEF Next, Rest

-----------------------------------------------------------------------------

\* The provider's fields, its tasks and its callers' locals keep their types.
THEOREM TypeCorrect == Spec => []TypeOK
<1>1. Init => TypeOK /\ IInv
  BY InitTypeOK, InitIInv
<1>2. TypeOK /\ IInv /\ [Next]_vars => (TypeOK /\ IInv)'
  BY NextTypeOK, NextIInv DEF IInv
<1>3. QED
  BY <1>1, <1>2, PTL DEF Spec

\* The strengthening the safety theorems rest on holds of every behaviour.
THEOREM Invariant == Spec => []IInv
<1>1. Init => TypeOK /\ IInv
  BY InitTypeOK, InitIInv
<1>2. TypeOK /\ IInv /\ [Next]_vars => (TypeOK /\ IInv)'
  BY NextTypeOK, NextIInv DEF IInv
<1>3. QED
  BY <1>1, <1>2, PTL DEF Spec

\* However many callers overlap and however they are cancelled, the provider
\* has at most one login in flight.
THEOREM OneLoginAtATime == Spec => []SingleFlight
<1>1. IInv => SingleFlight
  BY DEF IInv, TaskInv, SingleFlight
<1>2. QED
  BY <1>1, Invariant, PTL

\* No call answers with a token older than the provider's when it began.
THEOREM AnswersDoNotAge == Spec => []NoOlderToken
<1>1. IInv => NoOlderToken
  BY DEF IInv
<1>2. QED
  BY <1>1, Invariant, PTL

\* A token is replaced only once it has expired.
THEOREM FreshTokenIsKept == Spec => FreshTokenKept
<1>1. TypeOK /\ IInv /\ [Next]_vars =>
          [token' # token \/ expires' # expires => NeedsRefresh]_vars
  <2> SUFFICES ASSUME TypeOK, IInv, [Next]_vars,
                      token' # token \/ expires' # expires
               PROVE  NeedsRefresh
    OBVIOUS
  <2>1. \E t \in Logins : StoreToken(t) \/ StoreExpiry(t)
    BY DEF Next, Tick, Call, Cancel, TakeGate, CallerStep, Enter,
           GateCancelled, RecheckFresh, Join, Start, AssignTask, ReleaseGate,
           Awaited, FindOwnTask, FindOtherTask, SetNull, ReadToken,
           ReadExpiry, RefreshStep, LoginFails, LoginCanceled, ExpiryFails,
           Rest, vars, shared
  <2>2. QED
    BY <2>1 DEF StoreToken, StoreExpiry, IInv, StaleInv, Running, NeedsRefresh
<1>2. QED
  BY <1>1, TypeCorrect, Invariant, PTL DEF Spec, FreshTokenKept

LEMMA NextOwnerInv ==
    TypeOK /\ IInv /\ OwnerInv /\ [Next]_vars => OwnerInv'
<1> SUFFICES ASSUME TypeOK, IInv, OwnerInv, [Next]_vars
             PROVE  OwnerInv'
  OBVIOUS
<1> USE ProviderAssumption DEF TypeOK, OwnerInv, TaskHasOwner, PCs
<1>1. CASE Tick
  BY <1>1 DEF Tick, shared, task, locals
<1>2. ASSUME NEW c \in Callers,
             Call(c) \/ Cancel(c) \/ TakeGate(c) \/ Enter(c)
             \/ RecheckFresh(c) \/ ReleaseGate(c) \/ Awaited(c)
             \/ FindOwnTask(c) \/ ReadToken(c)
      PROVE  OwnerInv'
  BY <1>2 DEF Call, Cancel, TakeGate, Enter, RecheckFresh, ReleaseGate,
              Awaited, FindOwnTask, ReadToken, Goto, shared, task, locals
<1>3. ASSUME NEW c \in Callers, Join(c)
      PROVE  OwnerInv'
  BY <1>3 DEF Join, Goto, shared, task, NoTask
<1>4. ASSUME NEW c \in Callers, Start(c)
      PROVE  OwnerInv'
  <2>1. \A d \in Callers : pc[d] # "starting"
    BY <1>4 DEF Start, IInv, GateInv
  <2>2. refreshTask' \notin Logins
    BY <1>4 DEF Start, NoTask, Logins
  <2>3. starter'[started + 1] = c
    BY <1>4 DEF Start, Logins
  <2>4. QED
    BY <1>4, <2>1, <2>2, <2>3 DEF Start, Goto
<1>5. ASSUME NEW c \in Callers, AssignTask(c)
      PROVE  OwnerInv'
  BY <1>5 DEF AssignTask, Goto, shared, task, locals
<1>6. ASSUME NEW c \in Callers, GateCancelled(c)
      PROVE  OwnerInv'
  BY <1>6 DEF GateCancelled, End, Goto, shared, task
<1>7. ASSUME NEW c \in Callers, FindOtherTask(c)
      PROVE  OwnerInv'
  BY <1>7 DEF FindOtherTask, OwnTask, LeaveClear, End, Goto, shared, task
<1>8. ASSUME NEW c \in Callers, SetNull(c)
      PROVE  OwnerInv'
  <2>1. refreshTask' \notin Logins
    BY <1>8 DEF SetNull, NoTask, Logins
  <2>2. \A d \in Callers :
            /\ cancelled'[d] => cancelled[d]
            /\ pc'[d] = "starting" => pc[d] = "starting" /\ mine'[d] = mine[d]
    BY <1>8 DEF SetNull, LeaveClear, End, Goto
  <2>3. starter' = starter
    BY <1>8 DEF SetNull, task
  <2>4. QED
    BY <2>1, <2>2, <2>3
<1>9. ASSUME NEW c \in Callers, ReadExpiry(c)
      PROVE  OwnerInv'
  BY <1>9 DEF ReadExpiry, End, Goto, shared, task
<1>10. ASSUME NEW t \in Logins, RefreshStep(t)
       PROVE  OwnerInv'
  BY <1>10 DEF RefreshStep, StoreToken, LoginFails, LoginCanceled, StoreExpiry,
               ExpiryFails, locals
<1>11. CASE UNCHANGED vars
  BY <1>11 DEF vars
<1>12. QED
  BY <1>1, <1>2, <1>3, <1>4, <1>5, <1>6, <1>7, <1>8, <1>9, <1>10, <1>11
  DEF Next, CallerStep, Rest

\* A task outlives the call that started it only if that call was cancelled.
THEOREM StarterClears == Spec => []TaskHasOwner
<1>1. Init => OwnerInv
  BY ProviderAssumption
  DEF Init, OwnerInv, TaskHasOwner, NoTask, Logins
<1>2. OwnerInv => TaskHasOwner
  BY DEF OwnerInv
<1>3. QED
  BY <1>1, <1>2, NextOwnerInv, TypeCorrect, Invariant, PTL DEF Spec

-----------------------------------------------------------------------------
(***************************************************************************)
(* Refinement: the provider implements TokenService.                        *)
(***************************************************************************)

\* Starting a refresh is where the service begins a login: no other refresh is
\* running and the token has expired.
LEMMA StartRefines ==
    ASSUME TypeOK, IInv, NEW c \in Callers, Start(c)
    PROVE  Service!Begin
<1> USE DEF TypeOK, Start
<1>1. \A d \in Callers : pc[d] # "starting"
  BY DEF IInv, GateInv
<1>2. ~(\E t \in Logins : Running(t))
  BY <1>1 DEF IInv, TaskInv, Logins, NoTask
<1>3. Running(started)' /\ started' \in Logins
  BY ProviderAssumption DEF Running, Logins
<1>4. (\E t \in Logins : Running(t))'
  BY <1>3
<1>5. ~Service!Fresh
  BY DEF Service!Fresh, StillStale, NeedsRefresh, NoToken
<1>6. QED
  BY <1>2, <1>4, <1>5 DEF Service!Begin, shared

LEMMA RefreshRefines ==
    ASSUME TypeOK, IInv, NEW t \in Logins, RefreshStep(t)
    PROVE  Service!Issue \/ Service!Grant \/ Service!GiveUp
<1> USE DEF TypeOK, SetStatus
<1>1. Running(t) /\ \A u \in Logins : Running(u) => u = t
  BY DEF IInv, TaskInv, RefreshStep, StoreToken, LoginFails, LoginCanceled,
         StoreExpiry, ExpiryFails, Running
<1>2. (\E u \in Logins : Running(u))
  BY <1>1
<1>3. CASE StoreToken(t)
  <2>1. Running(t)'
    BY <1>3 DEF StoreToken, Running
  <2>2. (\E u \in Logins : Running(u))'
    BY <2>1
  <2>3. token' \in token + 1 .. MaxLogins
    BY <1>3, ProviderAssumption DEF StoreToken, IInv, TaskInv, Logins
  <2>4. QED
    BY <1>2, <1>3, <2>2, <2>3 DEF StoreToken, Service!Issue
<1>4. ASSUME StoreExpiry(t) \/ LoginFails(t) \/ LoginCanceled(t)
             \/ ExpiryFails(t)
      PROVE  ~(\E u \in Logins : Running(u))'
  BY <1>1, <1>4 DEF StoreExpiry, LoginFails, LoginCanceled, ExpiryFails, Running
<1>5. CASE StoreExpiry(t)
  <2>1. token # 0
    BY <1>5 DEF StoreExpiry, IInv, TaskInv, Logins
  <2>2. QED
    BY <1>2, <1>4, <1>5, <2>1 DEF StoreExpiry, Service!Grant
<1>6. CASE LoginFails(t) \/ LoginCanceled(t) \/ ExpiryFails(t)
  BY <1>2, <1>4, <1>6
  DEF LoginFails, LoginCanceled, ExpiryFails, shared, Service!GiveUp
<1>7. QED
  BY <1>3, <1>5, <1>6 DEF RefreshStep

\* Whatever its callers do, the provider behaves as the service promises.
THEOREM ImplementsService == Spec => ServiceSpec
<1>1. Init => Service!Init
  BY DEF Init, Service!Init, MinValue, NoToken, Logins, Running
<1>2. TypeOK /\ IInv /\ [Next]_vars => [Service!Next]_Service!vars
  <2> SUFFICES ASSUME TypeOK, IInv, [Next]_vars
               PROVE  Service!Next \/ UNCHANGED Service!vars
    OBVIOUS
  <2>1. CASE Tick
    BY <2>1 DEF Tick, shared, task, Running, Service!Tick, Service!Next
  <2>2. ASSUME NEW c \in Callers, Start(c)
        PROVE  Service!Next
    BY <2>2, StartRefines DEF Service!Next
  <2>3. ASSUME NEW c \in Callers,
               Call(c) \/ Cancel(c) \/ TakeGate(c) \/ CallerStep(c), ~Start(c)
        PROVE  UNCHANGED Service!vars
    BY <2>3 DEF Call, Cancel, TakeGate, CallerStep, Enter, GateCancelled,
                RecheckFresh, Join, AssignTask, ReleaseGate, Awaited,
                FindOwnTask, FindOtherTask, SetNull, ReadToken, ReadExpiry,
                shared, task, Running, Service!vars
  <2>4. ASSUME NEW t \in Logins, RefreshStep(t)
        PROVE  Service!Next
    BY <2>4, RefreshRefines DEF Service!Next
  <2>5. CASE UNCHANGED vars
    BY <2>5 DEF vars, Running, Service!vars
  <2>6. QED
    BY <2>1, <2>2, <2>3, <2>4, <2>5 DEF Next, Rest
<1>3. QED
  BY <1>1, <1>2, TypeCorrect, Invariant, PTL DEF Spec, ServiceSpec, Service!Spec
=============================================================================
