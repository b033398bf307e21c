---------------------------- MODULE MCLogViewer ----------------------------
(* Model values for TLC runs of LogViewer. *)
EXTENDS LogViewer, TLC

CONSTANTS t1, c1, c2, l1, http, app

OneThread  == {t1}
TwoConns   == {c1, c2}
OneLoad    == {l1}
TwoKinds   == {http, app}

\* Every entry is of the kind that the page shows first.
AllAlike   == [e \in Entries |-> http]
=============================================================================
