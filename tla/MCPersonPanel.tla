--------------------------- MODULE MCPersonPanel ---------------------------
(* Model values for TLC runs of PersonPanel. *)
EXTENDS PersonPanel, TLC

CONSTANTS p1, p2

TwoPersons == {p1, p2}
=============================================================================
