-------------------------- MODULE MCRunDashboards ---------------------------
(* Instances of RunDashboards for TLC.                                     *)
EXTENDS RunDashboards, TLC
=============================================================================
