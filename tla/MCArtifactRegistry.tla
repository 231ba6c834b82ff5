------------------------ MODULE MCArtifactRegistry -------------------------
(* Instances of ArtifactRegistry for TLC.                                  *)
EXTENDS ArtifactRegistry

CONSTANTS r1, r2, r3, a, b
=============================================================================
