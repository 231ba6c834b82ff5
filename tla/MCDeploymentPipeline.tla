------------------------ MODULE MCDeploymentPipeline ------------------------
(* Instances of DeploymentPipeline for TLC.                                *)
EXTENDS DeploymentPipelineInvariant, TLC

CONSTANTS d1, d2, n1, n2

OwnNames == d1 :> n1 @@ d2 :> n2

\* Two names whose first 46 characters agree: dns_label cuts the id off both.
SharedName == d1 :> n1 @@ d2 :> n1
=============================================================================
