--------------------------- MODULE MCRateLimiter ---------------------------
(* Model values for TLC runs of RateLimiter. *)
EXTENDS RateLimiter, TLC

CONSTANTS t1, t2

TwoThreads == {t1, t2}
=============================================================================
