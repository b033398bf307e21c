---------------------------- MODULE MCTokenCache ----------------------------
(* Model values for TLC runs of TokenCache. *)
EXTENDS TokenCache, TLC

CONSTANTS a1, a2, b1, sa, sb

\* A request with two calls, one of them cancellable, and one with one call.
ThreeCalls == {a1, a2, b1}
TwoScopes  == {sa, sb}

ScopeOfCall == [c \in Calls |-> IF c = b1 THEN sb ELSE sa]

OnlyA1 == {a1}

ShortOrLong == {1, 3}
=============================================================================
