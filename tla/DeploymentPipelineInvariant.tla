-------------------- MODULE DeploymentPipelineInvariant --------------------
(***************************************************************************)
(* Why RoutableHasWorkload and UndeployedMeansGone hold of one worker whose *)
(* deployments have names of their own, and why its statuses follow the    *)
(* life cycle: the facts about every statement of process_task that        *)
(* together are preserved by each step.                                    *)
(***************************************************************************)
EXTENDS DeploymentPipeline

OneWorker == \A v, w \in Workers : v = w

OwnName == \A d, e \in Deployments : WorkloadName[d] = WorkloadName[e] => d = e

\* Tasks belong to rows, a purge withdraws them all, and a DELETE is inserted after the
\* DEPLOY of the same deployment.
TaskTable ==
    /\ \A i \in DOMAIN tasks :
         /\ status[tasks[i].dep] # "NONE"
         /\ tasks[i].st = "GONE" <=> status[tasks[i].dep] = "PURGED"
    /\ \A i, j \in DOMAIN tasks :
         tasks[i].dep = tasks[j].dep /\ tasks[i].type = "DEPLOY" /\ tasks[j].type = "DELETE"
            => i < j

\* The task a worker holds is not up for another claim, and its type is the branch the
\* worker took.
Held(w) ==
    /\ tasks[current[w]].st \in {"IN_PROGRESS", "COMPLETED", "GONE"}
    /\ pc[w] \in DeploySteps => Type(w) = "DEPLOY"
    /\ pc[w] \in DeleteSteps => Type(w) = "DELETE"

HeldTask == \A w \in Workers : pc[w] \in BusySteps => Held(w)

\* A worker has started a DELETE of d, whatever came of it.
DeleteStarted(d) ==
    \E i \in DOMAIN tasks :
        /\ tasks[i].dep = d /\ tasks[i].type = "DELETE"
        /\ tasks[i].st \in {"IN_PROGRESS", "COMPLETED", "FAILED"}

\* Once a DELETE has started, the DEPLOY of that deployment is over.
DeployIsOver ==
    \A j \in DOMAIN tasks :
        tasks[j].type = "DEPLOY" /\ DeleteStarted(tasks[j].dep)
            => tasks[j].st # "PENDING" /\ \A w \in Workers : current[w] # j

\* What a worker has achieved when it reaches each statement.
Progress(w) ==
    LET d == Dep(w)
        n == WorkloadName[d]
    IN
    /\ pc[w] = "applySecret" => d \in ImageBacked
    /\ pc[w] \in {"applyService", "awaitAvailable", "awaitReady", "markActive"}
         => workload[n] = d
    /\ pc[w] \in {"awaitAvailable", "awaitReady", "markActive"} => service[n] = d
    /\ pc[w] \in {"deleteDeployment", "deleteService", "deleteSecret", "markDeleted"}
         => status[d] # "ACTIVE"
    /\ pc[w] \in {"deleteService", "deleteSecret", "markDeleted"} => workload[n] # d
    /\ pc[w] \in {"deleteSecret", "markDeleted"} => service[n] # d
    /\ pc[w] = "markDeleted" => d \notin secret
    /\ pc[w] = "complete" /\ Type(w) = "DELETE" => Gone(d)

WorkerProgress == \A w \in Workers : pc[w] \in BusySteps => Progress(w)

\* DELETED is recorded by a DELETE task that has started.
DeletedByTask == \A d \in Deployments : status[d] = "DELETED" => DeleteStarted(d)

ActiveIsServing == \A d \in Deployments : status[d] = "ACTIVE" => Serving(d)

\* The inductive invariant: UndeployedMeansGone needs it all, because what keeps an
\* undeployed workload from coming back is the order of the tasks.
PipelineInvariant ==
    /\ TypeOK
    /\ secret \subseteq ImageBacked
    /\ TaskTable
    /\ HeldTask
    /\ DeployIsOver
    /\ WorkerProgress
    /\ DeletedByTask
    /\ ActiveIsServing
    /\ UndeployedMeansGone

\* What one worker may find in the status column: a rollout not yet begun is PENDING or
\* being undeployed, objects are applied and removed only under the statuses that say so.
Expected(w) ==
    LET s == status[Dep(w)] IN
    /\ pc[w] \in {"fetch", "markDeploying"} /\ Type(w) = "DEPLOY"
         => s \in {"PENDING", "DELETING", "PURGED"}
    /\ pc[w] \in DeploySteps \ {"markDeploying"} => s \in {"DEPLOYING", "DELETING", "PURGED"}
    /\ pc[w] \in DeleteSteps \ {"markDeleting"} => s \in {"DELETING", "PURGED"}

\* What the life cycle needs beside PipelineInvariant: a deployment is deployed by one
\* task, and nothing but an undeploy request changes the status of one that waits.
StatusInvariant ==
    /\ \A i, j \in DOMAIN tasks :
         /\ tasks[i].dep = tasks[j].dep
         /\ tasks[i].type = "DEPLOY" /\ tasks[j].type = "DEPLOY"
         => i = j
    /\ \A i \in DOMAIN tasks :
         tasks[i].type = "DEPLOY" /\ tasks[i].st = "PENDING"
             => status[tasks[i].dep] \in {"PENDING", "DELETING"}
    /\ \A w \in Workers : pc[w] \in BusySteps => Expected(w)
=============================================================================
