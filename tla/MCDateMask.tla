----------------------------- MODULE MCDateMask -----------------------------
(* Values for TLC runs of DateMask. *)
EXTENDS DateMask, TLC

TwoDigits == {1, 2}

\* Part of a date, and one in the other order with a digit too many.
Clipboard == {<<Hyphen, 2>>, <<1, 2, Hyphen, 1, 1, Hyphen, 2, 2, 1, 1, 2>>}

\* Nothing, dates that were kept or rendered in the one format or the other, and
\* what the query of a link may hold: a digit too many.
TwoFormats ==
    {<<>>, <<2, 1, 1, 2, 1, 1, 2, 2, 1>>}
      \cup {formatFromDigits(<<2, 1, 1, 2, 1, 1, 2, 2>>, l) : l \in {"fo", "en"}}
=============================================================================
