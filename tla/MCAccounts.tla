---------------------------- MODULE MCAccounts -----------------------------
(* Instances of Accounts for TLC.                                          *)
EXTENDS Accounts, TLC

CONSTANTS u1, u2, e1, e2, n, p1, p2, t1, t2, c1, c2

MCRegistered == u1 :> e1 @@ u2 :> None

\* The user there is was stored by an older release.
MCFirstHash == u1 :> [word |-> p1, old |-> TRUE] @@ u2 :> [word |-> p2, old |-> FALSE]
=============================================================================
