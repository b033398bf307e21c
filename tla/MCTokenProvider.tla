--------------------------- MODULE MCTokenProvider ---------------------------
(* Model values and symmetry for TLC runs of TokenProvider. *)
EXTENDS TokenProvider, TLC

CONSTANTS c1, c2, c3

OneCaller    == {c1}
TwoCallers   == {c1, c2}
Nobody       == {}
OneLifetime  == {2}
ShortOrLong  == {1, 2}

=============================================================================
