---------------------------- MODULE MCSearchForm ----------------------------
(* Values for TLC runs of SearchForm. *)
EXTENDS SearchForm, TLC

\* 20-10-1908, 2008-10-12 (or 20-08-1012 in the other format), half a date and
\* nothing.
FewDates ==
    {<<2, 0, 1, 0, 1, 9, 0, 8>>, <<2, 0, 0, 8, 1, 0, 1, 2>>, <<0, 5, 0, 4>>, <<>>}

TwoLinks ==
    {[who |-> "ssn", text |-> <<>>],
     [who |-> "names", text |-> formatFromDigits(<<2, 0, 0, 8, 1, 0, 1, 2>>, "en")]}
=============================================================================
