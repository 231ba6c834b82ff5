-------------------------- MODULE MCModelRegistry --------------------------
(* Instances of ModelRegistry for TLC.                                     *)
EXTENDS ModelRegistry, TLC

CONSTANTS v1, v2, f1, f2, f3

\* Artifacts with names of their own; the one of v1 can be replaced by one of another name.
OwnNames   == v1 :> {f1, f3} @@ v2 :> {f2}
\* Names of their own under which the artifacts are also replaced.
FixedNames == v1 :> {f1} @@ v2 :> {f2}
\* log_model(file_name=...) or a path: the same name for every version.
SameNames  == v1 :> {f1} @@ v2 :> {f1}
=============================================================================
