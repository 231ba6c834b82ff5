-------------------------- MODULE MCExperimentRuns --------------------------
(* Instances of ExperimentRuns for TLC.                                    *)
EXTENDS ExperimentRuns

CONSTANTS up, down

\* Two batches over the same steps, logged in opposite orders.
Opposite == up :> <<1, 2>> @@ down :> <<2, 1>>

\* Runs of one status are tied.
ByStatus == {[by |-> "status", dir |-> "asc"]}
=============================================================================
