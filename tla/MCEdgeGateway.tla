--------------------------- MODULE MCEdgeGateway ---------------------------
(* Instances of EdgeGateway for TLC.                                       *)
EXTENDS EdgeGateway, TLC

CONSTANTS d1, u1, s1

Owners == d1 :> u1
Names  == d1 :> s1
=============================================================================
