--------------------------- MODULE MCHttpLogStore ---------------------------
(* Model values and symmetry for TLC runs of HttpLogStore. *)
EXTENDS HttpLogStore, TLC

CONSTANTS p1, p2, r1, r2

OneProducer  == {p1}
OneClearer   == {r1}
=============================================================================
