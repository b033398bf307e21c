-------------------------- MODULE TokenCacheProofs --------------------------
(***************************************************************************)
(* Proofs about TokenCache, for every set of calls and scopes, every        *)
(* lifetime, skew, lag and bound.                                           *)
(***************************************************************************)
EXTENDS TokenCache, TLAPS

LEMMA InitTypeOK == Init => TypeOK
  BY CacheAssumption
  DEF Init, TypeOK, NoToken, NoTask, MinValue, Logins, PCs, Answers

\* The way out of GetTokenAsync.
LEMMA EndTypes ==
    ASSUME TypeOK, NEW c \in Calls, NEW k \in Answers, NEW t \in 0..MaxLogins,
           End(c, k, t)
    PROVE  /\ gate' \in [Scopes -> Calls \cup {None}]
           /\ pc' \in [Calls -> PCs]
           /\ tok' \in [Calls -> 0..MaxLogins]
           /\ exp' \in [Calls -> Int]
           /\ ttl' \in [Calls -> Nat]
           /\ lag' \in [Calls -> 0..MaxLag]
           /\ cancelled' \in [Calls -> BOOLEAN]
           /\ answer' \in [Calls -> [kind : Answers, tok : 0..MaxLogins]]
  BY CacheAssumption DEF TypeOK, End, Goto, Released, PCs, NoToken

\* The provider's answer.
LEMMA GivenTypes ==
    ASSUME TypeOK, NEW c \in Calls, NEW t \in 0..MaxLogins, NEW e \in Int,
           Given(c, t, e)
    PROVE  /\ tok' \in [Calls -> 0..MaxLogins]
           /\ exp' \in [Calls -> Int]
           /\ ttl' \in [Calls -> Nat]
           /\ lag' \in [Calls -> 0..MaxLag]
  BY CacheAssumption DEF TypeOK, Given

LEMMA ClockTypes == ASSUME TypeOK, Tick PROVE TypeOK'
<1>1. now' \in 0..MaxTime
  BY CacheAssumption DEF TypeOK, Tick
<1>2. lag' \in [Calls -> 0..MaxLag]
  BY CacheAssumption DEF TypeOK, Tick
<1>3. QED
  BY <1>1, <1>2 DEF TypeOK, Tick, entry, provider

-----------------------------------------------------------------------------
(***************************************************************************)
(* The type invariant, one call at a time.                                  *)
(***************************************************************************)
LEMMA WaitTypes ==
    ASSUME TypeOK, NEW c \in Calls,
           Call(c) \/ Cancel(c) \/ TakeGate(c) \/ Found(c) \/ Missed(c)
           \/ GateCancelled(c)
    PROVE  TypeOK'
<1> USE CacheAssumption DEF TypeOK, entry, provider, locals
<1>1. CASE Call(c)
  BY <1>1 DEF Call, Goto, PCs, Answers, NoToken
<1>2. CASE Cancel(c)
  BY <1>2 DEF Cancel
<1>3. CASE TakeGate(c)
  BY <1>3 DEF TakeGate, Goto, PCs
<1>4. CASE Found(c)
  <2>1. End(c, "token", cached) /\ "token" \in Answers
    BY <1>4 DEF Found, Answers
  <2>2. QED
    BY <1>4, <2>1, EndTypes DEF Found
<1>5. CASE Missed(c)
  BY <1>5 DEF Missed, Goto, PCs
<1>6. CASE GateCancelled(c)
  <2>1. End(c, "canceled", NoToken) /\ "canceled" \in Answers
        /\ NoToken \in 0..MaxLogins
    BY <1>6 DEF GateCancelled, Answers, NoToken
  <2>2. QED
    BY <1>6, <2>1, EndTypes DEF GateCancelled
<1>7. QED
  BY <1>1, <1>2, <1>3, <1>4, <1>5, <1>6

LEMMA ProviderTypes ==
    ASSUME TypeOK, NEW c \in Calls,
           ProviderFresh(c) \/ ProviderCancelled(c) \/ ProviderJoin(c)
           \/ ProviderLogin(c)
    PROVE  TypeOK'
<1> USE CacheAssumption DEF TypeOK, entry, provider
<1>1. CASE ProviderFresh(c)
  <2>1. Given(c, held[ScopeOf[c]], expires[ScopeOf[c]])
        /\ held[ScopeOf[c]] \in 0..MaxLogins /\ expires[ScopeOf[c]] \in Int
    BY <1>1 DEF ProviderFresh
  <2>2. QED
    BY <1>1, <2>1, GivenTypes DEF ProviderFresh, Goto, PCs
<1>2. CASE ProviderCancelled(c)
  <2>1. End(c, "canceled", NoToken) /\ "canceled" \in Answers
        /\ NoToken \in 0..MaxLogins
    BY <1>2 DEF ProviderCancelled, Answers, NoToken
  <2>2. QED
    BY <1>2, <2>1, EndTypes DEF ProviderCancelled
<1>3. CASE ProviderJoin(c)
  <2>0. joined' \subseteq Logins
    <3>1. leftover[ScopeOf[c]] \in NoTask..MaxLogins /\ MaxLogins \in Nat
      OBVIOUS
    <3>2. leftover[ScopeOf[c]] \notin {NoTask, FailedTask}
              => leftover[ScopeOf[c]] \in Logins
      BY ONLY <3>1 DEF NoTask, FailedTask, Logins
    <3>3. \/ joined' = joined
          \/ /\ joined' = joined \cup {leftover[ScopeOf[c]]}
             /\ leftover[ScopeOf[c]] \notin {NoTask, FailedTask}
      BY <1>3 DEF ProviderJoin
    <3>4. QED
      BY <3>2, <3>3
  <2>1. leftover' \in [Scopes -> NoTask..MaxLogins]
    BY <1>3 DEF ProviderJoin, NoTask
  <2>2. CASE leftover[ScopeOf[c]] = FailedTask
    <3>1. End(c, "failed", NoToken) /\ "failed" \in Answers
          /\ NoToken \in 0..MaxLogins
      BY <1>3, <2>2 DEF ProviderJoin, Answers, NoToken
    <3>2. QED
      BY <1>3, <2>0, <2>1, <3>1, EndTypes DEF ProviderJoin
  <2>3. CASE leftover[ScopeOf[c]] # FailedTask
    <3>1. Given(c, leftover[ScopeOf[c]], expires[ScopeOf[c]])
          /\ leftover[ScopeOf[c]] \in 0..MaxLogins /\ expires[ScopeOf[c]] \in Int
      BY <1>3, <2>3 DEF ProviderJoin, NoTask
    <3>2. pc' \in [Calls -> PCs] /\ UNCHANGED <<gate, cancelled, answer>>
      BY <1>3, <2>3 DEF ProviderJoin, Goto, PCs
    <3>3. QED
      BY <1>3, <2>0, <2>1, <3>1, <3>2, GivenTypes DEF ProviderJoin
  <2>4. QED
    BY <2>2, <2>3
<1>4. CASE ProviderLogin(c)
  BY <1>4 DEF ProviderLogin, Goto, PCs
<1>5. QED
  BY <1>1, <1>2, <1>3, <1>4

LEMMA LoginTypes ==
    ASSUME TypeOK, NEW c \in Calls,
           LoginStores(c) \/ LoginExpires(c) \/ LoginFails(c)
    PROVE  TypeOK'
<1> USE CacheAssumption DEF TypeOK, entry, provider, locals
<1>0. {"canceled", "failed"} \subseteq Answers /\ NoToken \in 0..MaxLogins
  BY DEF Answers, NoToken
<1>1. CASE LoginStores(c)
  BY <1>1 DEF LoginStores, Goto, PCs
<1>2. CASE LoginExpires(c)
  <2>1. /\ deadOn' \in [Logins -> Int]
        /\ expires' \in [Scopes -> Int]
        /\ UNCHANGED <<now, entry, held, started, joined>>
    <3>1. PICK life \in Lifetimes :
            /\ deadOn' = [deadOn EXCEPT ![tok[c]] = now + life]
            /\ expires' = [expires EXCEPT ![ScopeOf[c]] = Skewed(now + life)]
      BY <1>2 DEF LoginExpires
    <3>2. now + life \in Int /\ Skewed(now + life) \in Int
      BY DEF Skewed
    <3>3. QED
      BY <1>2, <3>1, <3>2 DEF LoginExpires
  <2>2. CASE Given(c, tok[c], expires'[ScopeOf[c]]) /\ Goto(c, "compare")
             /\ UNCHANGED <<gate, leftover, cancelled, answer>>
    <3>1. tok[c] \in 0..MaxLogins /\ expires'[ScopeOf[c]] \in Int
      BY <2>1
    <3>2. /\ tok' \in [Calls -> 0..MaxLogins]
          /\ exp' \in [Calls -> Int]
          /\ ttl' \in [Calls -> Nat]
          /\ lag' \in [Calls -> 0..MaxLag]
      BY <2>2, <3>1, GivenTypes
    <3>3. QED
      BY <2>1, <2>2, <3>2 DEF Goto, PCs
  <2>3. CASE leftover' = [leftover EXCEPT ![ScopeOf[c]] = tok[c]]
             /\ End(c, "canceled", NoToken)
    <3>1. leftover' \in [Scopes -> NoTask..MaxLogins]
      BY <2>3 DEF NoTask
    <3>2. QED
      BY <1>0, <2>1, <2>3, <3>1, EndTypes
  <2>4. QED
    BY <1>2, <2>2, <2>3 DEF LoginExpires
<1>3. CASE LoginFails(c)
  <2>1. leftover' \in [Scopes -> NoTask..MaxLogins]
    BY <1>3 DEF LoginFails, NoTask, FailedTask
  <2>2. End(c, "failed", NoToken) \/ End(c, "canceled", NoToken)
    BY <1>3 DEF LoginFails
  <2>3. QED
    BY <1>0, <1>3, <2>1, <2>2, EndTypes DEF LoginFails
<1>4. QED
  BY <1>1, <1>2, <1>3

LEMMA CommitTypes ==
    ASSUME TypeOK, NEW c \in Calls,
           Compare(c) \/ Subtract(c) \/ SubtractFails(c) \/ Commit(c)
    PROVE  TypeOK'
<1> USE CacheAssumption DEF TypeOK, entry, provider
<1>1. CASE Compare(c)
  BY <1>1, SMTT(30) DEF Compare, Goto, PCs
<1>2. CASE Subtract(c)
  BY <1>2 DEF Subtract, Remaining, Goto, PCs
<1>3. CASE SubtractFails(c)
  <2>1. End(c, "outOfRange", NoToken) /\ "outOfRange" \in Answers
        /\ NoToken \in 0..MaxLogins
    BY <1>3 DEF SubtractFails, Answers, NoToken
  <2>2. QED
    BY <1>3, <2>1, EndTypes DEF SubtractFails
<1>4. CASE Commit(c)
  <2>1. End(c, "token", tok[c]) /\ "token" \in Answers
        /\ tok[c] \in 0..MaxLogins
    BY <1>4 DEF Commit, Answers
  <2>2. cached' \in 0..MaxLogins /\ until' \in Int
    BY <1>4 DEF Commit
  <2>3. QED
    BY <1>4, <2>1, <2>2, EndTypes DEF Commit
<1>5. QED
  BY <1>1, <1>2, <1>3, <1>4

\* The variables keep their types, in every configuration.
THEOREM TypeCorrect == Spec => []TypeOK
<1>1. TypeOK /\ [Next]_vars => TypeOK'
  <2>1. TypeOK /\ UNCHANGED vars => TypeOK'
    BY DEF TypeOK, vars
  <2>2. QED
    BY <2>1, ClockTypes, WaitTypes, ProviderTypes, LoginTypes, CommitTypes
    DEF Next, CallStep, Rest
<1>2. QED
  BY InitTypeOK, <1>1, PTL DEF Spec

-----------------------------------------------------------------------------
(***************************************************************************)
(* The gates.                                                               *)
(***************************************************************************)

\* A call that ends disturbs no other call, and releases no other call's gate.
LEMMA EndFrame ==
    ASSUME TypeOK, NEW c \in Calls, NEW k, NEW t, End(c, k, t)
    PROVE  /\ pc'[c] = "idle"
           /\ \A d \in Calls : d # c =>
                /\ pc'[d] = pc[d] /\ tok'[d] = tok[d] /\ exp'[d] = exp[d]
                /\ ttl'[d] = ttl[d] /\ lag'[d] = lag[d]
                /\ cancelled'[d] = cancelled[d]
                /\ \A s \in Scopes : gate[s] = d => gate'[s] = d
           /\ cancelled'[c] = FALSE
  BY DEF TypeOK, End, Goto, Released

LEMMA EndGate ==
    ASSUME TypeOK, GateInv, NEW c \in Calls, NEW k, NEW t, End(c, k, t)
    PROVE  GateInv'
  BY EndFrame, CacheAssumption, ZenonT(40) DEF GateInv

\* The calls that end in a step.
LEMMA Enders ==
    ASSUME TypeOK, NEW c \in Calls, CallStep(c)
    PROVE  \/ \E k, t : End(c, k, t)
           \/ /\ gate' = gate
              /\ \A d \in Calls : d # c => pc'[d] = pc[d]
              /\ \/ pc[c] = "lookup" /\ pc'[c] = "waitGate"
                 \/ pc[c] \in PCs \ {"idle", "lookup", "waitGate"}
<1> USE DEF TypeOK, Goto, PCs
<1>1. CASE Found(c) \/ GateCancelled(c) \/ ProviderCancelled(c)
           \/ SubtractFails(c) \/ Commit(c)
  BY <1>1 DEF Found, GateCancelled, ProviderCancelled, SubtractFails, Commit
<1>2. CASE LoginFails(c)
  BY <1>2 DEF LoginFails
<1>3. CASE Missed(c)
  BY <1>3 DEF Missed
<1>4. CASE ProviderFresh(c) \/ ProviderLogin(c) \/ LoginStores(c)
           \/ Compare(c) \/ Subtract(c)
  BY <1>4 DEF ProviderFresh, ProviderLogin, LoginStores, Compare, Subtract
<1>5. CASE ProviderJoin(c)
  BY <1>5 DEF ProviderJoin
<1>6. CASE LoginExpires(c)
  BY <1>6 DEF LoginExpires
<1>7. QED
  BY <1>1, <1>2, <1>3, <1>4, <1>5, <1>6 DEF CallStep

LEMMA NextGateInv == TypeOK /\ GateInv /\ [Next]_vars => GateInv'
<1> SUFFICES ASSUME TypeOK, GateInv, [Next]_vars
             PROVE  GateInv'
  OBVIOUS
<1>1. CASE Tick \/ UNCHANGED vars
  BY <1>1 DEF Tick, vars, GateInv
<1>2. ASSUME NEW c \in Calls, Call(c) \/ Cancel(c)
      PROVE  GateInv'
  BY <1>2 DEF Call, Cancel, Goto, GateInv, TypeOK, PCs
<1>3. ASSUME NEW c \in Calls, TakeGate(c)
      PROVE  GateInv'
  BY <1>3, CacheAssumption, ZenonT(40) DEF TakeGate, Goto, GateFree, GateInv, TypeOK, PCs
<1>4. ASSUME NEW c \in Calls, CallStep(c)
      PROVE  GateInv'
  <2>1. CASE \E k, t : End(c, k, t)
    BY <2>1, EndGate
  <2>2. CASE /\ gate' = gate
             /\ \A d \in Calls : d # c => pc'[d] = pc[d]
             /\ \/ pc[c] = "lookup" /\ pc'[c] = "waitGate"
                \/ pc[c] \in PCs \ {"idle", "lookup", "waitGate"}
    BY <2>2 DEF GateInv, PCs
  <2>3. QED
    BY <1>4, <2>1, <2>2, Enders
<1>5. QED
  BY <1>1, <1>2, <1>3, <1>4 DEF Next, Rest

\* At most one call of a scope is logging in or on its way to the cache.
LEMMA OneInside ==
    ASSUME GateInv, NEW c \in Calls, NEW d \in Calls,
           pc[c] \in PCs \ {"idle", "lookup", "waitGate"},
           pc[d] \in PCs \ {"idle", "lookup", "waitGate"},
           ScopeOf[c] = ScopeOf[d]
    PROVE  c = d
  BY DEF GateInv

-----------------------------------------------------------------------------
(***************************************************************************)
(* The providers.                                                           *)
(***************************************************************************)

\* A step that leaves the providers alone and lets calls only leave.
LEMMA ProviderFrame ==
    ASSUME TypeOK, RestInv, LoginInv, UNCHANGED provider, now' >= now,
           now' \in Nat,
           \A d \in Calls : \/ pc'[d] = pc[d] /\ tok'[d] = tok[d]
                            \/ pc'[d] \notin Prompt \cup {"login", "stored"}
                            \/ /\ pc[d] \in Prompt /\ pc'[d] \in Prompt
                               /\ tok'[d] = tok[d]
    PROVE  RestInv' /\ LoginInv'
<1> USE CacheAssumption DEF TypeOK, provider
<1>1. RestInv'
  BY DEF RestInv
<1>2. LoginInv'
  <2> SUFFICES ASSUME NEW d \in Calls
               PROVE  (/\ InLogin(d) =>
                          /\ tok[d] \in 1..started
                          /\ now >= expires[ScopeOf[d]]
                          /\ leftover[ScopeOf[d]] = NoTask
                       /\ pc[d] = "login" => held[ScopeOf[d]] < tok[d]
                       /\ pc[d] = "stored" => held[ScopeOf[d]] = tok[d]
                       /\ InPrompt(d) => /\ tok[d] \in Logins
                                         /\ tok[d] = held[ScopeOf[d]])'
    BY DEF LoginInv
  <2>1. ScopeOf[d] \in Scopes
    OBVIOUS
  <2>2. QED
    BY <2>1 DEF LoginInv, InLogin, InPrompt, Prompt
<1>3. QED
  BY <1>1, <1>2

LEMMA EndProvider ==
    ASSUME TypeOK, RestInv, LoginInv, NEW c \in Calls, NEW k, NEW t,
           End(c, k, t), UNCHANGED <<now, provider>>
    PROVE  RestInv' /\ LoginInv'
<1>1. \A d \in Calls : \/ pc'[d] = pc[d] /\ tok'[d] = tok[d]
                       \/ pc'[d] \notin Prompt \cup {"login", "stored"}
  BY EndFrame DEF Prompt
<1>2. now' >= now /\ now' \in Nat
  BY CacheAssumption DEF TypeOK
<1>3. QED
  BY <1>1, <1>2, ProviderFrame

\* How ProviderFresh and ProviderJoin answer: with the token the provider holds.
LEMMA GivenProvider ==
    ASSUME TypeOK, GateInv, RestInv, LoginInv, NEW c \in Calls,
           pc[c] \in {"provider", "stored"},
           Given(c, held[ScopeOf[c]], expires'[ScopeOf[c]]),
           Goto(c, "compare"), held[ScopeOf[c]] \in Logins,
           UNCHANGED <<now, held, started>>,
           \A s \in Scopes : s # ScopeOf[c] =>
               expires'[s] = expires[s] /\ leftover'[s] = leftover[s],
           \A s \in Scopes : leftover'[s] \in {leftover[s], NoTask}
    PROVE  RestInv' /\ LoginInv'
<1> USE CacheAssumption DEF TypeOK
<1>1. ScopeOf[c] \in Scopes /\ held[ScopeOf[c]] # NoToken
  BY DEF NoToken, Logins
<1>2. RestInv'
  <2> SUFFICES ASSUME NEW s \in Scopes
               PROVE  (/\ held[s] <= started
                       /\ held[s] = NoToken => now >= expires[s]
                       /\ leftover[s] \in Logins => held[s] = leftover[s])'
    BY DEF RestInv
  <2>1. leftover'[s] \in Logins => held'[s] = leftover'[s]
    <3>1. leftover'[s] = leftover[s] \/ leftover'[s] = NoTask
      OBVIOUS
    <3>2. NoTask \notin Logins
      BY DEF NoTask, Logins
    <3>3. leftover[s] \in Logins => held[s] = leftover[s]
      BY DEF RestInv
    <3>4. QED
      BY <3>1, <3>2, <3>3
  <2>2. CASE s = ScopeOf[c]
    BY <1>1, <2>1, <2>2 DEF RestInv
  <2>3. CASE s # ScopeOf[c]
    BY <2>1, <2>3 DEF RestInv
  <2>4. QED
    BY <2>2, <2>3
<1>3. \A d \in Calls : d # c =>
         pc'[d] = pc[d] /\ tok'[d] = tok[d]
  BY DEF Goto, Given
<1>4. pc'[c] = "compare" /\ tok'[c] = held[ScopeOf[c]]
  BY DEF Goto, Given
<1>5. \A d \in Calls : d # c /\ InLogin(d) => ScopeOf[d] # ScopeOf[c]
  BY OneInside DEF InLogin, PCs
<1>6. LoginInv'
  <2>1. ASSUME NEW d \in Calls, d # c, InLogin(d)
        PROVE  /\ tok'[d] \in 1..started'
               /\ now' >= expires'[ScopeOf[d]]
               /\ leftover'[ScopeOf[d]] = NoTask
    BY <1>3, <1>5, <2>1 DEF LoginInv
  <2>2. QED
    BY <1>3, <1>4, <2>1 DEF LoginInv, InLogin, InPrompt, Prompt
<1>7. QED
  BY <1>2, <1>6

LEMMA AnswerProvider ==
    ASSUME TypeOK, GateInv, RestInv, LoginInv, NEW c \in Calls,
           ProviderFresh(c) \/ ProviderJoin(c)
    PROVE  RestInv' /\ LoginInv'
<1> USE CacheAssumption DEF TypeOK
<1>0. ScopeOf[c] \in Scopes
  OBVIOUS
<1>1. CASE ProviderFresh(c)
  <2>1. held[ScopeOf[c]] \in Logins
    BY <1>0, <1>1 DEF ProviderFresh, NeedsRefresh, NoToken, Logins
  <2>2. Given(c, held[ScopeOf[c]], expires'[ScopeOf[c]])
        /\ UNCHANGED <<now, held, started, expires, leftover>>
        /\ pc[c] = "provider" /\ Goto(c, "compare")
    BY <1>1 DEF ProviderFresh, provider
  <2>3. QED
    BY <2>1, <2>2, GivenProvider
<1>2. CASE ProviderJoin(c)
  <2>1. /\ UNCHANGED <<now, held, expires, started>>
        /\ leftover' = [leftover EXCEPT ![ScopeOf[c]] = NoTask]
        /\ pc[c] = "provider" /\ leftover[ScopeOf[c]] # NoTask
    BY <1>2 DEF ProviderJoin
  <2>2. /\ \A s \in Scopes : s # ScopeOf[c] => leftover'[s] = leftover[s]
        /\ \A s \in Scopes : leftover'[s] \in {leftover[s], NoTask}
    BY <1>0, <2>1
  <2>3. CASE leftover[ScopeOf[c]] = FailedTask
    <3>1. End(c, "failed", NoToken)
      BY <1>2, <2>3 DEF ProviderJoin
    <3>2. \A d \in Calls : \/ pc'[d] = pc[d] /\ tok'[d] = tok[d]
                           \/ pc'[d] = "idle"
      BY <3>1, EndFrame
    <3>3. RestInv'
      BY <2>1, <2>2 DEF RestInv, NoTask, Logins
    <3>4. LoginInv'
      BY <2>1, <2>2, <3>2 DEF LoginInv, InLogin, InPrompt, Prompt
    <3>5. QED
      BY <3>3, <3>4
  <2>4. CASE leftover[ScopeOf[c]] # FailedTask
    <3>0. leftover[ScopeOf[c]] \in NoTask..MaxLogins /\ MaxLogins \in Nat
      BY <1>0
    <3>1. leftover[ScopeOf[c]] \in Logins
      BY ONLY <2>1, <2>4, <3>0 DEF NoTask, FailedTask, Logins
    <3>2. held[ScopeOf[c]] = leftover[ScopeOf[c]]
      BY <1>0, <3>1 DEF RestInv
    <3>3. Given(c, held[ScopeOf[c]], expires'[ScopeOf[c]])
          /\ Goto(c, "compare")
      BY <1>2, <2>1, <2>4, <3>2 DEF ProviderJoin
    <3>4. QED
      BY <2>1, <2>2, <3>1, <3>2, <3>3, GivenProvider
  <2>5. QED
    BY <2>3, <2>4
<1>3. QED
  BY <1>1, <1>2

LEMMA LoginProvider ==
    ASSUME TypeOK, GateInv, RestInv, LoginInv, NEW c \in Calls,
           ProviderLogin(c) \/ LoginStores(c)
    PROVE  RestInv' /\ LoginInv'
<1> USE CacheAssumption DEF TypeOK
<1>0. /\ ScopeOf[c] \in Scopes
      /\ \A d \in Calls : d # c /\ (InLogin(d) \/ InPrompt(d)) =>
             ScopeOf[d] # ScopeOf[c]
  BY OneInside DEF InLogin, InPrompt, Prompt, PCs, ProviderLogin, LoginStores
<1>1. CASE ProviderLogin(c)
  <2>1. RestInv'
    BY <1>1 DEF ProviderLogin, RestInv, NoTask, Logins
  <2>2. \A d \in Calls : d # c => pc'[d] = pc[d] /\ tok'[d] = tok[d]
    BY <1>1 DEF ProviderLogin, Goto
  <2>3. /\ pc'[c] = "login" /\ tok'[c] = started' /\ started' = started + 1
        /\ held[ScopeOf[c]] < started' /\ leftover[ScopeOf[c]] = NoTask
        /\ now >= expires[ScopeOf[c]]
    BY <1>0, <1>1 DEF ProviderLogin, Goto, RestInv, NeedsRefresh
  <2>4. UNCHANGED <<now, held, expires, leftover>>
    BY <1>1 DEF ProviderLogin
  <2>5. LoginInv'
    <3>1. ASSUME NEW d \in Calls, d # c
          PROVE  /\ tok[d] \in 1..started => tok'[d] \in 1..started'
                 /\ InLogin(d)' = InLogin(d) /\ InPrompt(d)' = InPrompt(d)
                 /\ pc'[d] = pc[d] /\ tok'[d] = tok[d]
      BY <2>2, <2>3, <3>1 DEF InLogin, InPrompt
    <3>2. InLogin(c)' /\ ~InPrompt(c)' /\ tok'[c] \in 1..started'
      BY <2>3 DEF InLogin, InPrompt, Prompt
    <3>3. QED
      BY <2>3, <2>4, <3>1, <3>2 DEF LoginInv
  <2>6. QED
    BY <2>1, <2>5
<1>2. CASE LoginStores(c)
  <2>1. /\ pc[c] = "login" /\ tok[c] \in 1..started
        /\ held' = [held EXCEPT ![ScopeOf[c]] = tok[c]]
        /\ leftover[ScopeOf[c]] = NoTask
        /\ pc' = [pc EXCEPT ![c] = "stored"]
        /\ UNCHANGED <<now, expires, leftover, started, tok>>
    BY <1>2 DEF LoginStores, LoginInv, InLogin, Goto, locals
  <2>2. RestInv'
    <3> SUFFICES ASSUME NEW s \in Scopes
                 PROVE  (/\ held[s] <= started
                         /\ held[s] = NoToken => now >= expires[s]
                         /\ leftover[s] \in Logins => held[s] = leftover[s])'
      BY DEF RestInv
    <3>1. CASE s = ScopeOf[c]
      BY <2>1, <3>1 DEF NoTask, NoToken, Logins
    <3>2. CASE s # ScopeOf[c]
      BY <2>1, <3>2 DEF RestInv
    <3>3. QED
      BY <3>1, <3>2
  <2>3. \A d \in Calls : d # c /\ (InLogin(d) \/ InPrompt(d)) =>
            held'[ScopeOf[d]] = held[ScopeOf[d]]
    BY <1>0, <2>1
  <2>4. LoginInv'
    <3>1. \A d \in Calls : d # c => pc'[d] = pc[d]
      BY <2>1
    <3>2. pc'[c] = "stored" /\ held'[ScopeOf[c]] = tok[c]
      BY <1>0, <2>1
    <3>3. QED
      BY <2>1, <2>3, <3>1, <3>2 DEF LoginInv, InLogin, InPrompt, Prompt
  <2>5. QED
    BY <2>2, <2>4
<1>3. QED
  BY <1>1, <1>2

\* A login runs alone in its scope.
LEMMA LoginAlone ==
    ASSUME TypeOK, GateInv, LoginInv, NEW c \in Calls, InLogin(c)
    PROVE  /\ ScopeOf[c] \in Scopes
           /\ tok[c] \in 1..started /\ tok[c] \in Logins
           /\ \A d \in Calls : d # c /\ InLogin(d) => ScopeOf[d] # ScopeOf[c]
<1>1. ScopeOf[c] \in Scopes
  BY CacheAssumption
<1>2. tok[c] \in 1..started /\ tok[c] \in Logins
  BY CacheAssumption DEF LoginInv, Logins, TypeOK
<1>3. \A d \in Calls : d # c /\ InLogin(d) => ScopeOf[d] # ScopeOf[c]
  BY OneInside DEF InLogin, PCs
<1>4. QED
  BY <1>1, <1>2, <1>3

\* A login that ends without an answer may leave its finished task behind.
LEMMA LoginEnds ==
    ASSUME TypeOK, GateInv, RestInv, LoginInv, NEW c \in Calls, InLogin(c),
           NEW k, NEW t, End(c, k, t), UNCHANGED <<now, held, started>>,
           \A s \in Scopes : s # ScopeOf[c] =>
               expires'[s] = expires[s] /\ leftover'[s] = leftover[s],
           \/ held[ScopeOf[c]] = tok[c]
           \/ expires'[ScopeOf[c]] = expires[ScopeOf[c]],
           leftover'[ScopeOf[c]] \in Logins => held[ScopeOf[c]] = tok[c]
               /\ leftover'[ScopeOf[c]] = tok[c]
    PROVE  RestInv' /\ LoginInv'
<1>1. RestInv'
  <2> SUFFICES ASSUME NEW s \in Scopes
               PROVE  (/\ held[s] <= started
                       /\ held[s] = NoToken => now >= expires[s]
                       /\ leftover[s] \in Logins => held[s] = leftover[s])'
    BY DEF RestInv
  <2>1. CASE s = ScopeOf[c]
    BY LoginAlone, <2>1 DEF RestInv, NoToken, Logins
  <2>2. CASE s # ScopeOf[c]
    BY <2>2 DEF RestInv
  <2>3. QED
    BY <2>1, <2>2
<1>2. \A d \in Calls : \/ d # c /\ pc'[d] = pc[d] /\ tok'[d] = tok[d]
                       \/ pc'[d] = "idle"
  BY EndFrame
<1>3. ASSUME NEW d \in Calls, d # c, InLogin(d)
      PROVE  /\ tok'[d] \in 1..started'
             /\ now' >= expires'[ScopeOf[d]]
             /\ leftover'[ScopeOf[d]] = NoTask
  <2>1. ScopeOf[d] \in Scopes /\ ScopeOf[d] # ScopeOf[c]
    BY <1>3, LoginAlone
  <2>2. tok'[d] = tok[d]
    BY <1>3, EndFrame
  <2>3. QED
    BY <1>3, <2>1, <2>2 DEF LoginInv
<1>4. LoginInv'
  BY <1>2, <1>3 DEF LoginInv, InLogin, InPrompt, Prompt
<1>5. QED
  BY <1>1, <1>4

\* A login ends: with an expiry, or not.
LEMMA ExpiryProvider ==
    ASSUME TypeOK, GateInv, RestInv, LoginInv, NEW c \in Calls,
           LoginExpires(c) \/ LoginFails(c)
    PROVE  RestInv' /\ LoginInv'
<1> USE CacheAssumption DEF TypeOK
<1>0. InLogin(c) /\ ScopeOf[c] \in Scopes
  BY DEF InLogin, LoginExpires, LoginFails
<1>1. tok[c] \in Logins
  BY <1>0, LoginAlone
<1>2. CASE LoginExpires(c)
  <2>1. PICK life \in Lifetimes :
            expires' = [expires EXCEPT ![ScopeOf[c]] = Skewed(now + life)]
    BY <1>2 DEF LoginExpires
  <2>2. /\ UNCHANGED <<now, held, started>> /\ pc[c] = "stored"
        /\ held[ScopeOf[c]] = tok[c]
        /\ \A s \in Scopes : s # ScopeOf[c] => expires'[s] = expires[s]
    BY <1>2, <2>1 DEF LoginExpires, LoginInv
  <2>3. CASE Given(c, tok[c], expires'[ScopeOf[c]]) /\ Goto(c, "compare")
             /\ leftover' = leftover
    BY <1>1, <2>2, <2>3, GivenProvider
  <2>4. CASE leftover' = [leftover EXCEPT ![ScopeOf[c]] = tok[c]]
             /\ End(c, "canceled", NoToken)
    <3>1. leftover'[ScopeOf[c]] = tok[c]
      BY <1>0, <2>4
    <3>2. \A s \in Scopes : s # ScopeOf[c] => leftover'[s] = leftover[s]
      BY <2>4
    <3>3. QED
      BY <1>0, <2>2, <2>4, <3>1, <3>2, LoginEnds
  <2>5. QED
    BY <1>2, <2>3, <2>4 DEF LoginExpires
<1>3. CASE LoginFails(c)
  <2>1. /\ UNCHANGED <<now, held, expires, started>>
        /\ leftover[ScopeOf[c]] = NoTask
    BY <1>3 DEF LoginFails, LoginInv, InLogin
  <2>2. CASE End(c, "failed", NoToken) /\ UNCHANGED leftover
    <3>1. leftover'[ScopeOf[c]] \notin Logins
      BY <2>1, <2>2 DEF NoTask, Logins
    <3>2. QED
      BY <1>0, <2>1, <2>2, <3>1, LoginEnds
  <2>3. CASE leftover' = [leftover EXCEPT ![ScopeOf[c]] = FailedTask]
             /\ End(c, "canceled", NoToken)
    <3>1. leftover'[ScopeOf[c]] \notin Logins
      BY <1>0, <2>3 DEF FailedTask, Logins
    <3>2. \A s \in Scopes : s # ScopeOf[c] => leftover'[s] = leftover[s]
      BY <2>3
    <3>3. QED
      BY <1>0, <2>1, <2>3, <3>1, <3>2, LoginEnds
  <2>4. QED
    BY <1>3, <2>2, <2>3 DEF LoginFails
<1>4. QED
  BY <1>2, <1>3

LEMMA NextProviderInv == TypeOK /\ ProviderInv /\ [Next]_vars => ProviderInv'
<1> SUFFICES ASSUME TypeOK, GateInv, RestInv, LoginInv, [Next]_vars
             PROVE  RestInv' /\ LoginInv'
  BY NextGateInv DEF ProviderInv
<1> USE CacheAssumption DEF TypeOK
<1>1. CASE Tick
  BY <1>1, ProviderFrame DEF Tick
<1>2. ASSUME NEW c \in Calls, Call(c) \/ Cancel(c) \/ TakeGate(c) \/ Missed(c)
      PROVE  RestInv' /\ LoginInv'
  BY <1>2, ProviderFrame
  DEF Call, Cancel, TakeGate, Missed, Goto, Prompt, locals
<1>3. ASSUME NEW c \in Calls,
             Found(c) \/ GateCancelled(c) \/ ProviderCancelled(c)
             \/ SubtractFails(c) \/ Commit(c)
      PROVE  RestInv' /\ LoginInv'
  BY <1>3, EndProvider
  DEF Found, GateCancelled, ProviderCancelled, SubtractFails, Commit
<1>4. ASSUME NEW c \in Calls, Compare(c) \/ Subtract(c)
      PROVE  RestInv' /\ LoginInv'
  BY <1>4, ProviderFrame DEF Compare, Subtract, Goto, Prompt
<1>5. CASE UNCHANGED vars
  BY <1>5, ProviderFrame DEF vars, provider
<1>6. QED
  BY <1>1, <1>2, <1>3, <1>4, <1>5, AnswerProvider, LoginProvider, ExpiryProvider
  DEF Next, CallStep, Rest

THEOREM ProviderCorrect == Spec => []ProviderInv
<1>1. Init => ProviderInv
  BY CacheAssumption
  DEF Init, ProviderInv, GateInv, RestInv, LoginInv, InLogin, InPrompt, Prompt,
      PCs, NoToken, NoTask, MinValue, Logins
<1>2. QED
  BY <1>1, NextProviderInv, TypeCorrect, PTL DEF Spec

\* However many calls of a scope miss the cache, one of them logs in.
THEOREM OneLogin == Spec => []OneLoginPerScope
<1>1. GateInv => OneLoginPerScope
  BY OneInside DEF OneLoginPerScope, PCs
<1>2. QED
  BY <1>1, ProviderCorrect, PTL DEF ProviderInv

\* An answer that did not come from the cache is the scope's newest token.
THEOREM NewestAnswer == Spec => []NewestOfScope
<1>1. LoginInv => NewestOfScope
  BY DEF LoginInv, NewestOfScope, InPrompt
<1>2. QED
  BY <1>1, ProviderCorrect, PTL DEF ProviderInv

-----------------------------------------------------------------------------
(***************************************************************************)
(* How long the cache serves a token, whatever the options.                 *)
(***************************************************************************)

\* Tokens of logins in flight stay apart from all others.
LEMMA NextFreshInv ==
    TypeOK /\ ProviderInv /\ ProviderInv' /\ FreshInv /\ [Next]_vars => FreshInv'
<1> SUFFICES ASSUME TypeOK, GateInv, RestInv, LoginInv, LoginInv', FreshInv,
                    [Next]_vars
             PROVE  FreshInv'
  BY DEF ProviderInv
<1>1. ASSUME UNCHANGED <<held, started>>,
             cached' = cached \/ \E c \in Calls : InPrompt(c) /\ cached' = tok[c],
             \A d \in Calls : InLogin(d)' => InLogin(d) /\ tok'[d] = tok[d]
      PROVE  FreshInv'
  <2>1. cached' <= started'
    BY <1>1, CacheAssumption DEF FreshInv, LoginInv, RestInv, TypeOK
  <2>2. ASSUME NEW c \in Calls, NEW d \in Calls, InLogin(c), InPrompt(d)
        PROVE  tok[c] # tok[d]
    <3>1. tok[d] = held[ScopeOf[d]] /\ ScopeOf[d] \in Scopes
      BY <2>2, CacheAssumption DEF LoginInv
    <3>2. c # d
      BY <2>2 DEF InLogin, InPrompt, Prompt
    <3>3. ScopeOf[d] # ScopeOf[c]
      BY <2>2, <3>2, OneInside DEF InLogin, InPrompt, Prompt, PCs
    <3>4. QED
      BY <2>2, <3>1, <3>3 DEF FreshInv
  <2>3. QED
    BY <1>1, <2>1, <2>2 DEF FreshInv
<1>2. CASE Tick \/ UNCHANGED vars
  BY <1>1, <1>2 DEF Tick, vars, entry, provider, InLogin
<1>3. ASSUME NEW c \in Calls, NEW k, NEW t, End(c, k, t)
      PROVE  \A d \in Calls : InLogin(d)' => InLogin(d) /\ tok'[d] = tok[d]
  BY <1>3, EndFrame DEF InLogin
<1>4. ASSUME NEW c \in Calls, Found(c) \/ GateCancelled(c)
             \/ ProviderCancelled(c) \/ SubtractFails(c) \/ LoginFails(c)
      PROVE  FreshInv'
  <2>1. UNCHANGED <<held, started, cached>>
    BY <1>4 DEF Found, GateCancelled, ProviderCancelled, SubtractFails,
                LoginFails, entry, provider
  <2>2. \E k, t : End(c, k, t)
    BY <1>4 DEF Found, GateCancelled, ProviderCancelled, SubtractFails,
                LoginFails
  <2>3. \A d \in Calls : InLogin(d)' => InLogin(d) /\ tok'[d] = tok[d]
    BY <1>3, <2>2
  <2>4. QED
    BY <1>1, <2>1, <2>3
<1>5. ASSUME NEW c \in Calls, Commit(c)
      PROVE  FreshInv'
  <2>1. InPrompt(c) /\ cached' = tok[c] /\ UNCHANGED <<held, started>>
    BY <1>5 DEF Commit, InPrompt, Prompt, provider
  <2>2. \A d \in Calls : InLogin(d)' => InLogin(d) /\ tok'[d] = tok[d]
    BY <1>3, <1>5 DEF Commit
  <2>3. QED
    BY <1>1, <2>1, <2>2
<1>6. ASSUME NEW c \in Calls, Call(c) \/ Cancel(c) \/ TakeGate(c) \/ Missed(c)
             \/ ProviderFresh(c) \/ Compare(c) \/ Subtract(c)
      PROVE  FreshInv'
  <2>1. UNCHANGED <<held, started, cached>>
    BY <1>6 DEF Call, Cancel, TakeGate, Missed, ProviderFresh, Compare,
                Subtract, entry, provider
  <2>2. \A d \in Calls : InLogin(d)' => InLogin(d) /\ tok'[d] = tok[d]
    BY <1>6 DEF Call, Cancel, TakeGate, Missed, ProviderFresh, Given, Compare,
                Subtract, Goto, InLogin, locals, TypeOK
  <2>3. QED
    BY <1>1, <2>1, <2>2
<1>7. ASSUME NEW c \in Calls, ProviderJoin(c) \/ LoginExpires(c)
      PROVE  FreshInv'
  <2>1. UNCHANGED <<held, started, cached>>
    BY <1>7 DEF ProviderJoin, LoginExpires, entry
  <2>2. \/ \E k, t : End(c, k, t)
        \/ /\ \E t, e : Given(c, t, e)
           /\ Goto(c, "compare")
    BY <1>7 DEF ProviderJoin, LoginExpires
  <2>3. CASE \E k, t : End(c, k, t)
    <3>1. \A d \in Calls : InLogin(d)' => InLogin(d) /\ tok'[d] = tok[d]
      BY <1>3, <2>3
    <3>2. QED
      BY <1>1, <2>1, <3>1
  <2>4. CASE (\E t, e : Given(c, t, e)) /\ Goto(c, "compare")
    <3>1. \A d \in Calls : InLogin(d)' => InLogin(d) /\ tok'[d] = tok[d]
      BY <2>4 DEF Given, Goto, InLogin, TypeOK
    <3>2. QED
      BY <1>1, <2>1, <3>1
  <2>5. QED
    BY <2>2, <2>3, <2>4
<1>8. ASSUME NEW c \in Calls, ProviderLogin(c)
      PROVE  FreshInv'
  <2>1. /\ UNCHANGED <<held, cached>> /\ started' = started + 1
        /\ \A d \in Calls : d # c => tok'[d] = tok[d] /\ InLogin(d)' = InLogin(d)
        /\ tok'[c] = started + 1 /\ InLogin(c)'
    BY <1>8 DEF ProviderLogin, Goto, InLogin, TypeOK, entry
  <2>2. \A d \in Calls : InLogin(d) => tok[d] \in 1..started
    BY DEF LoginInv
  <2>3. \A s \in Scopes : held[s] <= started /\ held[s] \in Nat
    BY CacheAssumption DEF RestInv, TypeOK
  <2>4. cached <= started /\ cached \in Nat /\ started \in Nat
    BY CacheAssumption DEF FreshInv, TypeOK
  <2>5. QED
    BY <2>1, <2>2, <2>3, <2>4, CacheAssumption DEF FreshInv
<1>9. ASSUME NEW c \in Calls, LoginStores(c)
      PROVE  FreshInv'
  <2>1. /\ UNCHANGED <<cached, started, tok>> /\ InLogin(c)
        /\ held' = [held EXCEPT ![ScopeOf[c]] = tok[c]]
        /\ \A d \in Calls : InLogin(d)' = InLogin(d)
    BY <1>9 DEF LoginStores, Goto, InLogin, TypeOK, entry, locals
  <2>2. \A d \in Calls, s \in Scopes :
            InLogin(d) /\ s # ScopeOf[d] => held'[s] # tok[d]
    <3> SUFFICES ASSUME NEW d \in Calls, NEW s \in Scopes, InLogin(d),
                        s # ScopeOf[d]
                 PROVE  held'[s] # tok[d]
      OBVIOUS
    <3>1. CASE s = ScopeOf[c]
      BY <2>1, <3>1 DEF FreshInv, TypeOK
    <3>2. CASE s # ScopeOf[c]
      BY <2>1, <3>2 DEF FreshInv, TypeOK
    <3>3. QED
      BY <3>1, <3>2
  <2>3. QED
    BY <2>1, <2>2 DEF FreshInv
<1>10. QED
  BY <1>2, <1>4, <1>5, <1>6, <1>7, <1>8, <1>9 DEF Next, CallStep, Rest

\* A fresh provider has a token, no call of its scope is logging in, and no login
\* in flight is about to change when its token dies.
LEMMA NextHeldInv ==
    TypeOK /\ ProviderInv /\ FreshInv /\ HeldInv /\ [Next]_vars => HeldInv'
<1> SUFFICES ASSUME TypeOK, GateInv, RestInv, LoginInv, FreshInv, HeldInv,
                    [Next]_vars, NEW s \in Scopes,
                    now' < expires'[s]
             PROVE  expires'[s] = deadOn'[held'[s]] - Skew
  BY DEF ProviderInv, HeldInv
<1> USE CacheAssumption
<1>1. CASE now' \in Int /\ now' >= now /\ UNCHANGED <<held, expires, deadOn>>
  BY <1>1 DEF HeldInv, TypeOK
<1>2. CASE Tick \/ UNCHANGED vars
  BY <1>1, <1>2 DEF Tick, vars, provider, TypeOK
<1>3. ASSUME NEW c \in Calls, Call(c) \/ Cancel(c) \/ TakeGate(c) \/ Found(c)
             \/ Missed(c) \/ GateCancelled(c) \/ ProviderFresh(c)
             \/ ProviderCancelled(c) \/ ProviderLogin(c) \/ ProviderJoin(c)
             \/ LoginFails(c) \/ Compare(c) \/ Subtract(c) \/ SubtractFails(c)
             \/ Commit(c)
      PROVE  expires'[s] = deadOn'[held'[s]] - Skew
  <2>1. UNCHANGED <<now, held, expires, deadOn>>
    BY <1>3 DEF Call, Cancel, TakeGate, Found, Missed, GateCancelled,
                ProviderFresh, ProviderCancelled, ProviderLogin, ProviderJoin,
                LoginFails, Compare, Subtract, SubtractFails, Commit, provider
  <2>2. QED
    BY <1>1, <2>1 DEF TypeOK
<1>4. ASSUME NEW c \in Calls, LoginStores(c)
      PROVE  expires'[s] = deadOn'[held'[s]] - Skew
  <2>1. /\ UNCHANGED <<now, expires, deadOn>> /\ InLogin(c)
        /\ held' = [held EXCEPT ![ScopeOf[c]] = tok[c]]
    BY <1>4 DEF LoginStores, InLogin
  <2>2. s # ScopeOf[c]
    BY <2>1 DEF LoginInv, TypeOK
  <2>3. held'[s] = held[s]
    BY <2>1, <2>2 DEF TypeOK
  <2>4. QED
    BY <2>1, <2>3 DEF HeldInv
<1>5. ASSUME NEW c \in Calls, LoginExpires(c)
      PROVE  expires'[s] = deadOn'[held'[s]] - Skew
  <2>1. PICK life \in Lifetimes :
            /\ deadOn' = [deadOn EXCEPT ![tok[c]] = now + life]
            /\ expires' = [expires EXCEPT ![ScopeOf[c]] = Skewed(now + life)]
    BY <1>5 DEF LoginExpires
  <2>2. /\ UNCHANGED <<now, held>> /\ InLogin(c)
        /\ held[ScopeOf[c]] = tok[c] /\ tok[c] \in Logins
    BY <1>5, LoginAlone DEF LoginExpires, LoginInv, InLogin
  <2>3. CASE s = ScopeOf[c]
    BY <2>1, <2>2, <2>3 DEF TypeOK, Skewed
  <2>4. CASE s # ScopeOf[c]
    <3>1. held[s] # tok[c]
      BY <2>2, <2>4 DEF FreshInv
    <3>2. expires'[s] = expires[s] /\ deadOn'[held[s]] = deadOn[held[s]]
      <4>1. held[s] \in Logins \/ deadOn'[held[s]] = deadOn[held[s]]
        BY <2>1, <2>2 DEF TypeOK
      <4>2. QED
        BY <2>1, <2>4, <3>1, <4>1 DEF TypeOK
    <3>3. QED
      BY <2>2, <3>2 DEF HeldInv
  <2>5. QED
    BY <2>3, <2>4
<1>6. QED
  BY <1>2, <1>3, <1>4, <1>5 DEF Next, CallStep, Rest

\* What PromptInv says of one call.
Trusted(d) ==
    /\ exp[d] = deadOn[tok[d]] - Skew
    /\ \A g \in Margins :
        /\ now - lag[d] + g <= deadOn[tok[d]]
        /\ pc[d] = "commit" => now + ttl[d] - lag[d] + g <= deadOn[tok[d]] + DefaultTtl

\* A step in which the calls on their way to the commit keep their way.
LEMMA PromptFrame ==
    ASSUME TypeOK, PromptInv, now' = now, joined \subseteq joined',
           \A t \in Logins : deadOn'[t] = deadOn[t]
               \/ \A d \in Calls : InPrompt(d) => tok[d] # t,
           LoginInv,
           \A d \in Calls : InPrompt(d)' =>
               /\ pc'[d] = pc[d] /\ tok'[d] = tok[d] /\ exp'[d] = exp[d]
               /\ ttl'[d] = ttl[d] /\ lag'[d] = lag[d]
    PROVE  PromptInv'
<1> SUFFICES ASSUME NEW d \in Calls, InPrompt(d)', tok'[d] \notin joined'
             PROVE  Trusted(d)'
  BY DEF PromptInv, Trusted
<1>1. /\ pc'[d] = pc[d] /\ tok'[d] = tok[d] /\ exp'[d] = exp[d]
      /\ ttl'[d] = ttl[d] /\ lag'[d] = lag[d]
  OBVIOUS
<1>2. InPrompt(d)
  BY <1>1 DEF InPrompt
<1>3. tok[d] \in Logins
  BY <1>2 DEF LoginInv
<1>4. deadOn'[tok[d]] = deadOn[tok[d]]
  BY <1>2, <1>3
<1>5. Trusted(d)
  BY <1>1, <1>2 DEF PromptInv, Trusted
<1>6. QED
  BY <1>1, <1>4, <1>5 DEF Trusted, Margins

\* An answer from the provider is trusted when it comes, or its token has been
\* joined.
LEMMA PromptGiven ==
    ASSUME TypeOK, PromptInv, LoginInv, NEW c \in Calls, NEW t \in Logins, NEW e,
           Given(c, t, e), Goto(c, "compare"), now' = now, joined \subseteq joined',
           \A u \in Logins : deadOn'[u] = deadOn[u]
               \/ \A d \in Calls : InPrompt(d) => tok[d] # u,
           \/ t \in joined'
           \/ /\ e = deadOn'[t] - Skew
              /\ \A g \in Margins : now + g <= deadOn'[t]
    PROVE  PromptInv'
<1>1. /\ pc'[c] = "compare" /\ tok'[c] = t /\ exp'[c] = e /\ lag'[c] = 0
  BY DEF Goto, Given, TypeOK
<1>2. ASSUME NEW d \in Calls, d # c, InPrompt(d)', tok'[d] \notin joined'
      PROVE  Trusted(d)'
  <2>1. /\ pc'[d] = pc[d] /\ tok'[d] = tok[d] /\ exp'[d] = exp[d]
        /\ ttl'[d] = ttl[d] /\ lag'[d] = lag[d]
    BY <1>2 DEF Goto, Given, TypeOK
  <2>2. InPrompt(d)
    BY <1>2, <2>1 DEF InPrompt
  <2>3. tok[d] \in Logins /\ deadOn'[tok[d]] = deadOn[tok[d]]
    BY <2>2 DEF LoginInv
  <2>4. Trusted(d)
    BY <1>2, <2>1, <2>2 DEF PromptInv, Trusted
  <2>5. QED
    BY <2>1, <2>3, <2>4 DEF Trusted, Margins
<1>3. tok'[c] \notin joined' => Trusted(c)'
  <2>1. SUFFICES ASSUME tok'[c] \notin joined' PROVE Trusted(c)'
    OBVIOUS
  <2>2. /\ exp'[c] = deadOn'[tok'[c]] - Skew
        /\ \A g \in Margins : now + g <= deadOn'[tok'[c]]
    BY <1>1, <2>1
  <2>3. \A g \in Margins : now' - lag'[c] + g = now + g
    <3>1. now \in Int /\ Margins \subseteq Int
      BY CacheAssumption DEF TypeOK, Margins
    <3>2. QED
      BY <1>1, <3>1
  <2>4. QED
    BY <1>1, <2>2, <2>3 DEF Trusted, Margins
<1>4. QED
  BY <1>2, <1>3 DEF PromptInv, Trusted

\* A token on its way to the cache was trusted when the provider gave it.
LEMMA NextPromptInv ==
    TypeOK /\ ProviderInv /\ FreshInv /\ HeldInv /\ PromptInv /\ [Next]_vars
        => PromptInv'
<1> SUFFICES ASSUME TypeOK, GateInv, RestInv, LoginInv, FreshInv, HeldInv,
                    PromptInv, [Next]_vars
             PROVE  PromptInv'
  BY DEF ProviderInv
<1>0. Margins \subseteq Int /\ \A g \in Margins : g <= Skew
  BY CacheAssumption DEF Margins
<1>1. CASE Tick
  <2>1. ASSUME NEW d \in Calls, InPrompt(d)
        PROVE  lag'[d] = lag[d] + 1 /\ lag[d] \in 0..MaxLag
    BY <1>1, <2>1 DEF Tick, InPrompt, TypeOK
  <2>2. UNCHANGED <<pc, tok, exp, ttl, deadOn, joined>> /\ now' = now + 1
    BY <1>1 DEF Tick, provider
  <2>3. ASSUME NEW d \in Calls, InPrompt(d), NEW g \in Margins
        PROVE  /\ now' - lag'[d] + g = now - lag[d] + g
               /\ now' + ttl[d] - lag'[d] + g = now + ttl[d] - lag[d] + g
    <3>1. /\ now \in Int /\ ttl[d] \in Int /\ lag[d] \in Int /\ g \in Int
          /\ lag'[d] = lag[d] + 1 /\ now' = now + 1
      BY <1>0, <2>1, <2>2, <2>3, CacheAssumption DEF TypeOK
    <3>2. QED
      BY <3>1
  <2>4. QED
    BY <2>2, <2>3 DEF PromptInv, InPrompt, Prompt, Margins
<1>2. CASE UNCHANGED vars
  BY <1>2, PromptFrame DEF vars, InPrompt
<1>3. ASSUME NEW c \in Calls, NEW k, NEW t, End(c, k, t), now' = now,
             \A u \in Logins : deadOn'[u] = deadOn[u]
                 \/ \A d \in Calls : InPrompt(d) => tok[d] # u,
             joined' = joined
      PROVE  PromptInv'
  <2>1. \A d \in Calls : InPrompt(d)' =>
            /\ pc'[d] = pc[d] /\ tok'[d] = tok[d] /\ exp'[d] = exp[d]
            /\ ttl'[d] = ttl[d] /\ lag'[d] = lag[d]
    BY <1>3, EndFrame DEF InPrompt, Prompt
  <2>2. QED
    BY <1>3, <2>1, PromptFrame
<1>4. ASSUME NEW c \in Calls, Found(c) \/ GateCancelled(c)
             \/ ProviderCancelled(c) \/ SubtractFails(c) \/ LoginFails(c)
             \/ Commit(c)
      PROVE  PromptInv'
  <2>1. now' = now /\ deadOn' = deadOn /\ joined' = joined /\ \E k, t : End(c, k, t)
    BY <1>4 DEF Found, GateCancelled, ProviderCancelled, SubtractFails,
                LoginFails, Commit, provider
  <2>2. QED
    BY <1>3, <2>1
<1>5. ASSUME NEW c \in Calls, Call(c) \/ Cancel(c) \/ TakeGate(c) \/ Missed(c)
             \/ LoginStores(c)
      PROVE  PromptInv'
  BY <1>5, PromptFrame DEF Call, Cancel, TakeGate, Missed, LoginStores, Goto,
      InPrompt, Prompt, TypeOK, provider, locals
<1>6. ASSUME NEW c \in Calls, ProviderLogin(c)
      PROVE  PromptInv'
  BY <1>6, PromptFrame DEF ProviderLogin, Goto, InPrompt, Prompt, TypeOK
<1>7. ASSUME NEW c \in Calls, ProviderFresh(c)
      PROVE  PromptInv'
  <2>1. /\ Given(c, held[ScopeOf[c]], expires[ScopeOf[c]])
        /\ Goto(c, "compare") /\ now' = now /\ deadOn' = deadOn /\ joined' = joined
        /\ held[ScopeOf[c]] \in Logins /\ ScopeOf[c] \in Scopes
        /\ now < expires[ScopeOf[c]]
    BY <1>7, CacheAssumption
    DEF ProviderFresh, NeedsRefresh, TypeOK, NoToken, Logins, provider
  <2>2. expires[ScopeOf[c]] = deadOn[held[ScopeOf[c]]] - Skew
    BY <2>1 DEF HeldInv
  <2>3. ASSUME NEW g \in Margins
        PROVE  now + g <= deadOn[held[ScopeOf[c]]]
    <3>1. /\ now \in Int /\ Skew \in Int /\ deadOn[held[ScopeOf[c]]] \in Int
          /\ g \in Int /\ g <= Skew
      BY <1>0, <2>1, CacheAssumption DEF TypeOK
    <3>2. QED
      BY <2>1, <2>2, <3>1
  <2>4. QED
    BY <2>1, <2>2, <2>3, PromptGiven
<1>8. ASSUME NEW c \in Calls, ProviderJoin(c)
      PROVE  PromptInv'
  <2>1. now' = now /\ deadOn' = deadOn
    BY <1>8 DEF ProviderJoin
  <2>2. CASE joined' = joined /\ End(c, "failed", NoToken)
    BY <1>3, <2>1, <2>2
  <2>3. CASE /\ leftover[ScopeOf[c]] \notin {NoTask, FailedTask}
             /\ joined' = joined \cup {leftover[ScopeOf[c]]}
             /\ Given(c, leftover[ScopeOf[c]], expires[ScopeOf[c]])
             /\ Goto(c, "compare")
    <3>0. leftover[ScopeOf[c]] \in NoTask..MaxLogins /\ MaxLogins \in Nat
      BY CacheAssumption DEF TypeOK
    <3>1. leftover[ScopeOf[c]] \in Logins
      BY ONLY <2>3, <3>0 DEF NoTask, FailedTask, Logins
    <3>2. QED
      BY <2>1, <2>3, <3>1, PromptGiven
  <2>4. QED
    BY <1>8, <2>2, <2>3 DEF ProviderJoin
<1>9. ASSUME NEW c \in Calls, LoginExpires(c)
      PROVE  PromptInv'
  <2>1. PICK life \in Lifetimes :
            /\ deadOn' = [deadOn EXCEPT ![tok[c]] = now + life]
            /\ expires' = [expires EXCEPT ![ScopeOf[c]] = Skewed(now + life)]
    BY <1>9 DEF LoginExpires
  <2>2. /\ now' = now /\ joined' = joined
        /\ tok[c] \in Logins /\ ScopeOf[c] \in Scopes /\ InLogin(c)
    BY <1>9, LoginAlone DEF LoginExpires, InLogin
  <2>3. ASSUME NEW u \in Logins
        PROVE  deadOn'[u] = deadOn[u]
                 \/ \A d \in Calls : InPrompt(d) => tok[d] # u
    <3>1. CASE u # tok[c]
      BY <2>1, <3>1 DEF TypeOK
    <3>2. ASSUME NEW d \in Calls, InPrompt(d)
          PROVE  tok[d] # tok[c]
      <4>1. tok[d] = held[ScopeOf[d]] /\ ScopeOf[d] \in Scopes
        BY <3>2, CacheAssumption DEF LoginInv
      <4>2. c # d
        BY <2>2, <3>2 DEF InLogin, InPrompt, Prompt
      <4>3. ScopeOf[d] # ScopeOf[c]
        BY <2>2, <3>2, <4>2, OneInside DEF InLogin, InPrompt, Prompt, PCs
      <4>4. QED
        BY <2>2, <4>1, <4>3 DEF FreshInv
    <3>3. QED
      BY <3>1, <3>2
  <2>4. CASE Given(c, tok[c], expires'[ScopeOf[c]]) /\ Goto(c, "compare")
    <3>1. deadOn'[tok[c]] = now + life
      BY <2>1, <2>2 DEF TypeOK
    <3>2. expires'[ScopeOf[c]] = deadOn'[tok[c]] - Skew
      BY <2>1, <2>2, <3>1 DEF TypeOK, Skewed
    <3>3. ASSUME NEW g \in Margins
          PROVE  now + g <= deadOn'[tok[c]]
      <4>1. now \in Int /\ g \in Int /\ life \in Int /\ g <= life
        BY <1>0, CacheAssumption DEF TypeOK, Margins
      <4>2. QED
        BY <3>1, <4>1
    <3>4. QED
      BY <2>2, <2>3, <2>4, <3>2, <3>3, PromptGiven
  <2>5. CASE End(c, "canceled", NoToken)
    BY <1>3, <2>2, <2>3, <2>5
  <2>6. QED
    BY <1>9, <2>4, <2>5 DEF LoginExpires
<1>10. ASSUME NEW c \in Calls, Compare(c) \/ Subtract(c)
       PROVE  PromptInv'
  <2>1. /\ UNCHANGED <<now, deadOn, joined, tok, exp, lag>> /\ InPrompt(c)
        /\ \A d \in Calls : d # c => pc'[d] = pc[d] /\ ttl'[d] = ttl[d]
    BY <1>10 DEF Compare, Subtract, Goto, provider, InPrompt, Prompt, TypeOK
  <2>2. ASSUME tok[c] \notin joined, NEW g \in Margins, pc'[c] = "commit"
        PROVE  now + ttl'[c] - lag[c] + g <= deadOn[tok[c]] + DefaultTtl
    <3>1. /\ exp[c] = deadOn[tok[c]] - Skew
          /\ now - lag[c] + g <= deadOn[tok[c]]
          /\ tok[c] \in Logins
      BY <2>1, <2>2 DEF PromptInv, LoginInv
    <3>2. ttl'[c] = DefaultTtl \/ ttl'[c] = exp[c] - now
      BY <1>10, <2>2 DEF Compare, Subtract, Remaining, Goto, TypeOK
    <3>3. /\ now \in Int /\ lag[c] \in Nat /\ deadOn[tok[c]] \in Int
          /\ exp[c] \in Int /\ g \in Int /\ g <= Skew /\ Skew \in Nat
          /\ DefaultTtl \in Nat
      BY <1>0, <3>1, CacheAssumption DEF TypeOK
    <3>4. QED
      BY <3>1, <3>2, <3>3
  <2>3. QED
    BY <2>1, <2>2 DEF PromptInv, InPrompt, Margins
<1>11. QED
  BY <1>1, <1>2, <1>4, <1>5, <1>6, <1>7, <1>8, <1>9, <1>10 DEF Next, CallStep, Rest

\* The entry's end is that of the call that wrote it: no login changes when a
\* cached token dies.
LEMMA NextCacheInv ==
    TypeOK /\ ProviderInv /\ FreshInv /\ PromptInv /\ CacheInv /\ [Next]_vars
        => CacheInv'
<1> SUFFICES ASSUME TypeOK, LoginInv, GateInv, FreshInv, PromptInv, CacheInv,
                    [Next]_vars
             PROVE  CacheInv'
  BY DEF ProviderInv
<1>1. ASSUME NEW c \in Calls, Commit(c)
      PROVE  CacheInv'
  <2>1. /\ cached' = tok[c] /\ until' = now + ttl[c] /\ deadOn' = deadOn
        /\ joined' = joined /\ tok[c] \in Logins
        /\ tok[c] \notin joined =>
             \A g \in Margins :
                 now + ttl[c] - lag[c] + g <= deadOn[tok[c]] + DefaultTtl
    BY <1>1 DEF Commit, PromptInv, LoginInv, InPrompt, Prompt, provider
  <2>2. ASSUME tok[c] \notin joined, NEW g \in Margins
        PROVE  now + ttl[c] + g <= deadOn[tok[c]] + DefaultTtl + MaxLag
    <3>1. /\ now \in Int /\ ttl[c] \in Int /\ lag[c] \in 0..MaxLag /\ g \in Int
          /\ deadOn[tok[c]] \in Int /\ MaxLag \in Int /\ DefaultTtl \in Int
      BY <2>1, CacheAssumption DEF TypeOK, Margins
    <3>2. now + ttl[c] - lag[c] + g <= deadOn[tok[c]] + DefaultTtl
      BY <2>1, <2>2
    <3>3. QED
      BY <3>1, <3>2
  <2>3. QED
    BY <2>1, <2>2 DEF CacheInv, Margins
<1>2. ASSUME NEW c \in Calls, LoginExpires(c)
      PROVE  CacheInv'
  <2>1. /\ UNCHANGED <<cached, until, joined>>
        /\ \E x : deadOn' = [deadOn EXCEPT ![tok[c]] = x]
    BY <1>2 DEF LoginExpires, entry
  <2>2. cached # tok[c]
    BY <1>2 DEF LoginExpires, FreshInv, InLogin
  <2>3. cached # NoToken => cached \in Logins
    BY CacheAssumption DEF TypeOK, NoToken, Logins
  <2>4. cached # NoToken => deadOn'[cached] = deadOn[cached]
    BY <2>1, <2>2, <2>3 DEF TypeOK
  <2>5. QED
    BY <2>1, <2>4 DEF CacheInv, Margins
<1>3. CASE UNCHANGED <<cached, until, deadOn>> /\ joined \subseteq joined'
  BY <1>3 DEF CacheInv, Margins
<1>4. ASSUME NEW c \in Calls, ProviderJoin(c)
      PROVE  CacheInv'
  BY <1>3, <1>4 DEF ProviderJoin, entry
<1>5. QED
  BY <1>1, <1>2, <1>3, <1>4
  DEF Next, CallStep, Rest, Tick, Call, Cancel, TakeGate, Found, Missed,
      GateCancelled, ProviderFresh, ProviderCancelled, ProviderLogin,
      LoginStores, LoginFails, Compare, Subtract, SubtractFails, entry,
      provider, vars

\* For every skew, DefaultTtl, lag and set of lifetimes, and whoever is cancelled:
\* the cache serves a token that no call has taken from a cancelled one's task at
\* most DefaultTtl and the lag beyond the moment the provider stops trusting it
\* (PeopleService.cs:205-207).
THEOREM CacheIsTimely == Spec => []CachedTokenTimely
<1>1. Init => TimelyInv
  BY CacheAssumption
  DEF Init, TimelyInv, FreshInv, HeldInv, PromptInv, CacheInv, InLogin, InPrompt,
      Prompt, NoToken, MinValue
<1>2. TypeOK /\ ProviderInv /\ ProviderInv' /\ TimelyInv /\ [Next]_vars
          => TimelyInv'
  BY NextFreshInv, NextHeldInv, NextPromptInv, NextCacheInv
  DEF TimelyInv, ProviderInv
<1>3. TypeOK /\ TimelyInv => CachedTokenTimely
  <2> SUFFICES ASSUME TypeOK, CacheInv, Live, cached \notin joined, NEW g \in Margins
               PROVE  now + g < deadOn[cached] + DefaultTtl + MaxLag
    BY DEF TimelyInv, CachedTokenTimely
  <2>1. cached \in Logins
    BY CacheAssumption DEF Live, TypeOK, NoToken, Logins
  <2>2. /\ now \in Int /\ until \in Int /\ deadOn[cached] \in Int /\ g \in Int
        /\ DefaultTtl \in Int /\ MaxLag \in Int
    BY <2>1, CacheAssumption DEF TypeOK, Margins
  <2>3. now < until /\ until + g <= deadOn[cached] + DefaultTtl + MaxLag
    BY DEF Live, CacheInv
  <2>4. QED
    BY <2>2, <2>3
<1>4. QED
  BY <1>1, <1>2, <1>3, TypeCorrect, ProviderCorrect, PTL DEF Spec

-----------------------------------------------------------------------------
(***************************************************************************)
(* Refinement: every scope's provider is a TokenService.                    *)
(***************************************************************************)

\* A call that does not log in for scope s, before or after, shows s nothing.
LEMMA Unseen ==
    ASSUME TypeOK, NEW s \in Scopes, UNCHANGED <<now, held[s], expires[s]>>,
           \A d \in Calls : ScopeOf[d] = s => InLogin(d)' = InLogin(d)
    PROVE  UNCHANGED <<now, held[s], expires[s], LoggingIn(s)>>
  BY DEF LoggingIn, InLogin

\* A call of scope s ends a login that runs alone.
LEMMA Ended ==
    ASSUME TypeOK, GateInv, LoginInv, NEW c \in Calls, InLogin(c), ~InLogin(c)',
           \A d \in Calls : d # c => pc'[d] = pc[d]
    PROVE  LoggingIn(ScopeOf[c]) = TRUE /\ LoggingIn(ScopeOf[c])' = FALSE
<1>1. LoggingIn(ScopeOf[c]) = TRUE
  BY DEF LoggingIn, InLogin
<1>2. \A d \in Calls : ScopeOf[d] = ScopeOf[c] => ~InLogin(d)'
  BY LoginAlone DEF InLogin
<1>3. LoggingIn(ScopeOf[c])' = FALSE
  BY <1>2 DEF LoggingIn, InLogin
<1>4. QED
  BY <1>1, <1>3

\* Each step of a call is one of its own scope's service, or is invisible to it,
\* and invisible to every other scope.
LEMMA CallRefines ==
    ASSUME TypeOK, GateInv, RestInv, LoginInv, NEW c \in Calls, CallStep(c),
           NEW s \in Scopes
    PROVE  \/ Service(s)!Next
           \/ UNCHANGED <<now, held[s], expires[s], LoggingIn(s)>>
<1> USE CacheAssumption
<1>1. ASSUME NEW k, NEW t, End(c, k, t), ~InLogin(c),
             UNCHANGED <<now, held, expires>>
      PROVE  UNCHANGED <<now, held[s], expires[s], LoggingIn(s)>>
  <2>0. pc'[c] = "idle" /\ \A d \in Calls : d # c => pc'[d] = pc[d]
    BY <1>1, EndFrame
  <2>1. \A d \in Calls : InLogin(d)' = InLogin(d)
    BY <1>1, <2>0 DEF InLogin
  <2>2. QED
    BY <1>1, <2>1, Unseen
<1>2. CASE Found(c) \/ GateCancelled(c) \/ ProviderCancelled(c)
           \/ SubtractFails(c) \/ Commit(c)
  BY <1>1, <1>2 DEF Found, GateCancelled, ProviderCancelled, SubtractFails,
                    Commit, InLogin, provider
<1>3. CASE Missed(c) \/ ProviderFresh(c) \/ Compare(c) \/ Subtract(c)
  <2>1. UNCHANGED <<now, held, expires>>
    BY <1>3 DEF Missed, ProviderFresh, Compare, Subtract, provider
  <2>2. \A d \in Calls : InLogin(d)' = InLogin(d)
    BY <1>3 DEF Missed, ProviderFresh, Compare, Subtract, Goto, InLogin, TypeOK
  <2>3. QED
    BY <2>1, <2>2, Unseen
<1>4. CASE ProviderJoin(c)
  <2>1. UNCHANGED <<now, held, expires>> /\ ~InLogin(c)
    BY <1>4 DEF ProviderJoin, InLogin
  <2>2. CASE End(c, "failed", NoToken)
    BY <1>1, <2>1, <2>2
  <2>3. CASE Goto(c, "compare")
    <3>1. \A d \in Calls : InLogin(d)' = InLogin(d)
      BY <2>1, <2>3 DEF Goto, InLogin, TypeOK
    <3>2. QED
      BY <2>1, <3>1, Unseen
  <2>4. QED
    BY <1>4, <2>2, <2>3 DEF ProviderJoin
<1>5. CASE ScopeOf[c] # s /\ (ProviderLogin(c) \/ LoginStores(c)
                              \/ LoginExpires(c) \/ LoginFails(c))
  <2>1. UNCHANGED <<now, held[s], expires[s]>>
    BY <1>5 DEF ProviderLogin, LoginStores, LoginExpires, LoginFails, TypeOK
  <2>2. \A d \in Calls : d # c => pc'[d] = pc[d]
    BY <1>5, Enders, EndFrame, ZenonT(40)
  <2>3. \A d \in Calls : ScopeOf[d] = s => InLogin(d)' = InLogin(d)
    BY <1>5, <2>2 DEF InLogin
  <2>4. QED
    BY <2>1, <2>3, Unseen
<1>6. CASE ScopeOf[c] = s /\ ProviderLogin(c)
  <2>1. /\ UNCHANGED <<now, held, expires>>
        /\ held[s] = 0 \/ ~(now < expires[s])
    BY <1>6 DEF ProviderLogin, NeedsRefresh, NoToken, TypeOK
  <2>2. LoggingIn(s)' = TRUE
    BY <1>6 DEF ProviderLogin, LoggingIn, Goto, TypeOK
  <2>4. \A d \in Calls : ScopeOf[d] = s => ~InLogin(d)
    BY <1>6, OneInside DEF ProviderLogin, InLogin, PCs
  <2>5. LoggingIn(s) = FALSE
    BY <2>4 DEF LoggingIn, InLogin
  <2>3. QED
    BY <2>1, <2>2, <2>5 DEF Service!Next, Service!Begin, Service!Fresh
<1>7. CASE ScopeOf[c] = s /\ LoginStores(c)
  <2>1. /\ LoggingIn(s) /\ UNCHANGED <<now, expires>>
        /\ held'[s] = tok[c] /\ held[s] < tok[c] /\ tok[c] \in Logins
    BY <1>7, LoginAlone DEF LoginStores, LoggingIn, LoginInv, InLogin, TypeOK
  <2>2. LoggingIn(s)'
    BY <1>7 DEF LoginStores, LoggingIn, Goto, TypeOK
  <2>3. held'[s] \in held[s] + 1 .. MaxLogins
    BY <2>1 DEF TypeOK, Logins
  <2>4. QED
    BY <2>1, <2>2, <2>3 DEF Service!Next, Service!Issue
<1>8. CASE ScopeOf[c] = s /\ (LoginExpires(c) \/ LoginFails(c))
  <2>1. InLogin(c) /\ UNCHANGED <<now, held>>
    BY <1>8 DEF LoginExpires, LoginFails, InLogin
  <2>2. /\ pc'[c] = "idle" \/ pc'[c] = "compare"
        /\ \A d \in Calls : d # c => pc'[d] = pc[d]
    <3>1. (\E k, t : End(c, k, t)) \/ Goto(c, "compare")
      BY <1>8 DEF LoginExpires, LoginFails
    <3>2. CASE \E k, t : End(c, k, t)
      BY <3>2, EndFrame
    <3>3. CASE Goto(c, "compare")
      BY <3>3 DEF Goto, TypeOK
    <3>4. QED
      BY <3>1, <3>2, <3>3
  <2>3. LoggingIn(s) = TRUE /\ LoggingIn(s)' = FALSE
    BY <1>8, <2>1, <2>2, Ended DEF InLogin
  <2>4. CASE LoginFails(c)
    BY <2>1, <2>3, <2>4 DEF LoginFails, Service!Next, Service!GiveUp
  <2>5. CASE LoginExpires(c)
    <3>1. PICK life \in Lifetimes :
              expires' = [expires EXCEPT ![ScopeOf[c]] = Skewed(now + life)]
      BY <2>5 DEF LoginExpires
    <3>2. expires'[s] = now + life - Skew
      BY <1>8, <3>1 DEF TypeOK, Skewed
    <3>3. held[s] # 0
      BY <1>8, <2>1, <2>5, LoginAlone DEF LoginExpires, LoginInv, Logins
    <3>4. QED
      BY <2>1, <2>3, <3>2, <3>3 DEF Service!Next, Service!Grant
  <2>6. QED
    BY <1>8, <2>4, <2>5
<1>9. QED
  BY <1>2, <1>3, <1>4, <1>5, <1>6, <1>7, <1>8 DEF CallStep

\* Whatever the requests do, each scope's provider behaves as TokenProvider was
\* shown to behave.
THEOREM ImplementsServices == Spec => ScopesAreServices
<1>1. Init => \A s \in Scopes : Service(s)!Init
  BY DEF Init, Service!Init, LoggingIn, MinValue, NoToken
<1>2. TypeOK /\ ProviderInv /\ [Next]_vars =>
          [\A s \in Scopes :
              \/ Service(s)!Next
              \/ UNCHANGED <<now, held[s], expires[s], LoggingIn(s)>>]_vars
  <2> SUFFICES ASSUME TypeOK, GateInv, RestInv, LoginInv, Next,
                      NEW s \in Scopes
               PROVE  \/ Service(s)!Next
                      \/ UNCHANGED <<now, held[s], expires[s], LoggingIn(s)>>
    BY DEF ProviderInv
  <2>1. CASE Tick
    <3>1. UNCHANGED <<held[s], expires[s], LoggingIn(s)>>
      BY <2>1 DEF Tick, LoggingIn, provider
    <3>2. QED
      BY <2>1, <3>1 DEF Tick, Service!Next, Service!Tick
  <2>2. ASSUME NEW c \in Calls, Call(c) \/ Cancel(c) \/ TakeGate(c)
        PROVE  UNCHANGED <<now, held[s], expires[s], LoggingIn(s)>>
    <3>1. UNCHANGED <<now, held, expires>>
      BY <2>2 DEF Call, Cancel, TakeGate, provider
    <3>2. \A d \in Calls : InLogin(d)' = InLogin(d)
      BY <2>2 DEF Call, Cancel, TakeGate, Goto, InLogin, TypeOK
    <3>3. QED
      BY <3>1, <3>2, Unseen
  <2>3. CASE Rest
    BY <2>3 DEF Rest, vars, LoggingIn
  <2>4. QED
    BY <2>1, <2>2, <2>3, CallRefines DEF Next
<1>3. QED
  BY <1>1, <1>2, TypeCorrect, ProviderCorrect, PTL DEF Spec, ScopesAreServices
=============================================================================
