---------------------------- MODULE MCRoleStore ----------------------------
(* Model values for TLC runs of RoleStore. *)
EXTENDS RoleStore, TLC

CONSTANTS t1, t2, u1, u2, r1

TwoThreads == {t1, t2}
TwoUsers   == {u1, u2}
OneRole    == {r1}
OneSeed    == {<<u1, r1>>}
=============================================================================
