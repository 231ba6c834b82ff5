------------------------ MODULE DeploymentLifecycle ------------------------
(***************************************************************************)
(* What a user, and the edge gateway, may rely on about one deployment     *)
(* while a single worker runs: the status table of the eventing document   *)
(* as a state machine over the status and the workload in the cluster.     *)
(* ACTIVE is announced only over a complete workload and DELETED only over *)
(* an empty one, and objects are created and removed only in the states    *)
(* that say so.                                                            *)
(***************************************************************************)
EXTENDS Naturals

CONSTANTS
    Deployments,
    Extras          \* objects a deployment may have beside its workload and service

VARIABLES
    shown,      \* [Deployments -> ...] the status users are shown
    objects     \* [Deployments -> SUBSET ...] what exists in the cluster

lifecycleVars == <<shown, objects>>

Complete == {"workload", "service"}

Init ==
    /\ shown = [d \in Deployments |-> "NONE"]
    /\ objects = [d \in Deployments |-> {}]

Show(d, s) ==
    /\ shown' = [shown EXCEPT ![d] = s]
    /\ UNCHANGED objects

Request(d)  == shown[d] = "NONE" /\ Show(d, "PENDING")

\* DELETING when the user asked to undeploy before the rollout, or during it.
Rollout(d)  == shown[d] \in {"PENDING", "DELETING"} /\ Show(d, "DEPLOYING")

Announce(d) ==
    /\ shown[d] \in {"DEPLOYING", "DELETING"}
    /\ Complete \subseteq objects[d]
    /\ Show(d, "ACTIVE")

Exists(d) == shown[d] \notin {"NONE", "PURGED"}

Undeploy(d) == Exists(d) /\ Show(d, "DELETING")

Fail(d)     == Exists(d) /\ Show(d, "FAILED")

Retire(d)   == shown[d] = "DELETING" /\ objects[d] = {} /\ Show(d, "DELETED")

Purge(d)    == Exists(d) /\ Show(d, "PURGED")

Create(d, o) ==
    /\ shown[d] \in {"DEPLOYING", "DELETING", "PURGED"}
    /\ objects' = [objects EXCEPT ![d] = @ \union {o}]
    /\ UNCHANGED shown

Remove(d, o) ==
    /\ shown[d] \in {"DELETING", "PURGED"}
    /\ objects' = [objects EXCEPT ![d] = @ \ {o}]
    /\ UNCHANGED shown

Next == \E d \in Deployments :
    \/ Request(d) \/ Rollout(d) \/ Announce(d) \/ Undeploy(d) \/ Fail(d)
    \/ Retire(d) \/ Purge(d)
    \/ \E o \in Complete \union Extras : Create(d, o) \/ Remove(d, o)

Spec == Init /\ [][Next]_lifecycleVars
=============================================================================
