---------------------------- MODULE TokenService ----------------------------
(***************************************************************************)
(* What FolkTokenProviderRaw promises about the token it holds, whoever     *)
(* calls it: a login begins only when there is none in flight and no fresh  *)
(* token, it may issue one newer token, and it ends by granting an expiry   *)
(* or by giving up.  Token and expiry are separate fields, so a token is    *)
(* visible before its expiry is.                                           *)
(***************************************************************************)
EXTENDS Integers

CONSTANTS Lifetimes, Skew, MaxTime, MaxLogins

VARIABLES
    now,        \* the clock
    token,      \* the newest token issued, 0 if none
    expires,    \* when the token counts as expired
    loggingIn   \* a login is in flight

vars == <<now, token, expires, loggingIn>>

Init ==
    /\ now = 0
    /\ token = 0
    /\ expires = -Skew
    /\ loggingIn = FALSE

Fresh == token # 0 /\ now < expires

Tick ==
    /\ now < MaxTime
    /\ now' = now + 1
    /\ UNCHANGED <<token, expires, loggingIn>>

Begin ==
    /\ ~loggingIn
    /\ ~Fresh
    /\ loggingIn' = TRUE
    /\ UNCHANGED <<now, token, expires>>

Issue ==
    /\ loggingIn
    /\ token' \in token + 1 .. MaxLogins
    /\ UNCHANGED <<now, expires, loggingIn>>

Grant ==
    /\ loggingIn
    /\ token # 0
    /\ \E life \in Lifetimes : expires' = now + life - Skew
    /\ loggingIn' = FALSE
    /\ UNCHANGED <<now, token>>

GiveUp ==
    /\ loggingIn
    /\ loggingIn' = FALSE
    /\ UNCHANGED <<now, token, expires>>

Next == Tick \/ Begin \/ Issue \/ Grant \/ GiveUp

Spec == Init /\ [][Next]_vars
=============================================================================
