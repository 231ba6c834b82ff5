------------------------- MODULE DeploymentPipeline -------------------------
(***************************************************************************)
(* The asynchronous deployment pipeline: the control plane inserts rows in *)
(* the deployment and deployment_task tables, a PostgreSQL trigger issues  *)
(* NOTIFY, and deployment-service workers claim the tasks one at a time    *)
(* and drive the Kubernetes API.                                           *)
(*                                                                         *)
(* Every statement a worker executes is a step of its own, so the          *)
(* control plane, other workers, crashes and failing calls fall between    *)
(* any two of them.  A control-plane request is one transaction; the       *)
(* undeploy request reads the row before it writes, which takes two steps. *)
(*                                                                         *)
(* Definitions named Bug... are not part of the specification: each is the *)
(* definition below it with a plausible programming error, and shows that  *)
(* a property notices the error.                                           *)
(***************************************************************************)
EXTENDS Naturals, Sequences, FiniteSets

CONSTANTS
    Deployments,        \* identities (UUIDs) a deployment row can be given
    ImageBacked,        \* those created from a registry image
    ObjectNames,        \* names of Kubernetes objects
    WorkloadName,       \* [Deployments -> ObjectNames]: workload_names
    Workers,            \* deployment-service processes
    Clients,            \* concurrent undeploy requests
    NoOne,              \* the owner of an object that does not exist
    MaxTasks,           \* bound: rows ever inserted in deployment_task
    MaxCrashes,         \* bound: worker processes that die
    MaxFaults,          \* bound: calls of a worker that raise
    MaxDrops            \* bound: LISTEN connections that break

ASSUME PipelineAssumption ==
    /\ ImageBacked \subseteq Deployments
    /\ WorkloadName \in [Deployments -> ObjectNames]
    /\ NoOne \notin Deployments \union Workers
    /\ MaxTasks \in Nat /\ MaxCrashes \in Nat
    /\ MaxFaults \in Nat /\ MaxDrops \in Nat

VARIABLES
    status,     \* [Deployments -> ...] deployment.status_id, and no row yet / purged
    endpoint,   \* deployments whose k8s_* columns are filled in
    tasks,      \* deployment_task, in created_at order
    workload,   \* [ObjectNames -> ...] whose pods the Deployment object runs
    service,    \* [ObjectNames -> ...] whose pods the Service object selects
    secret,     \* deployments whose image pull secret exists
    pc,         \* [Workers -> Steps] the statement a worker executes next
    current,    \* [Workers -> Nat] index of the task it claimed, 0 for none
    listen,     \* [Workers -> ...] its LISTEN connection
    notes,      \* [Workers -> Nat] notifications in its asyncio.Queue
    seen,       \* [Clients -> ...] row an undeploy request read
    crashes, faults, drops      \* environment events so far

database   == <<status, endpoint, tasks>>
kubernetes == <<workload, service, secret>>
process    == <<pc, current, listen, notes>>
budget     == <<crashes, faults, drops>>
vars == <<status, endpoint, tasks, workload, service, secret,
          pc, current, listen, notes, seen, crashes, faults, drops>>

RowStatus  == {"PENDING", "DEPLOYING", "ACTIVE", "FAILED", "DELETING", "DELETED"}
TaskStatus == {"PENDING", "IN_PROGRESS", "COMPLETED", "FAILED"}
Task == [dep : Deployments, type : {"DEPLOY", "DELETE"},
         st : TaskStatus \union {"GONE"}]

DeploySteps == {"markDeploying", "applySecret", "applyDeployment", "applyService",
                "awaitAvailable", "awaitReady", "markActive"}
DeleteSteps == {"markDeleting", "deleteDeployment", "deleteService",
                "deleteSecret", "markDeleted"}
\* The statements inside the try block of process_task: what they raise is caught.
TrySteps  == {"fetch", "complete"} \union DeploySteps \union DeleteSteps
\* A worker executing one of these has claimed a task.
BusySteps == TrySteps \union {"markFailed", "recordFailure"}
Steps     == BusySteps \union {"off", "claim", "subscribe", "wait"}

Idle == [dep |-> NoOne, status |-> "NONE"]

TypeOK ==
    /\ status \in [Deployments -> RowStatus \union {"NONE", "PURGED"}]
    /\ endpoint \subseteq Deployments
    /\ tasks \in Seq(Task)
    /\ workload \in [ObjectNames -> Deployments \union {NoOne}]
    /\ service \in [ObjectNames -> Deployments \union {NoOne}]
    /\ secret \subseteq Deployments
    /\ pc \in [Workers -> Steps]
    /\ current \in [Workers -> Nat]
    /\ \A w \in Workers : pc[w] \in BusySteps <=> current[w] \in DOMAIN tasks
    /\ \A w \in Workers : pc[w] \notin BusySteps <=> current[w] = 0
    /\ listen \in [Workers -> {"none", "live", "dead"}]
    /\ notes \in [Workers -> Nat]
    /\ seen \in [Clients -> [dep : Deployments, status : RowStatus] \union {Idle}]
    /\ crashes \in 0..MaxCrashes /\ faults \in 0..MaxFaults /\ drops \in 0..MaxDrops

HasRow(d) == status[d] \in RowStatus

\* No table holds anything; no worker has started.
Init ==
    /\ status = [d \in Deployments |-> "NONE"]
    /\ endpoint = {}
    /\ tasks = <<>>
    /\ workload = [n \in ObjectNames |-> NoOne]
    /\ service = [n \in ObjectNames |-> NoOne]
    /\ secret = {}
    /\ pc = [w \in Workers |-> "off"]
    /\ current = [w \in Workers |-> 0]
    /\ listen = [w \in Workers |-> "none"]
    /\ notes = [w \in Workers |-> 0]
    /\ seen = [c \in Clients |-> Idle]
    /\ crashes = 0 /\ faults = 0 /\ drops = 0

-----------------------------------------------------------------------------
(* The control plane.                                                      *)

\* The trigger: NOTIFY reaches the sessions that are listening at commit, no other.
NotifyListeners ==
    notes' = [w \in Workers |-> IF listen[w] = "live" THEN notes[w] + 1 ELSE notes[w]]

InsertTask(d, type) ==
    /\ Len(tasks) < MaxTasks
    /\ tasks' = Append(tasks, [dep |-> d, type |-> type, st |-> "PENDING"])
    /\ NotifyListeners

\* create_model_deployment and create_image_deployment: the row, with a fresh
\* identity, and its DEPLOY task appear in one transaction.
CreateDeployment(d) ==
    /\ status[d] = "NONE"
    /\ status' = [status EXCEPT ![d] = "PENDING"]
    /\ InsertTask(d, "DEPLOY")
    /\ UNCHANGED <<endpoint, kubernetes, pc, current, listen, seen, budget>>

\* delete_deployment, up to its check of the status: a missing row is a 404 and a
\* DELETED one needs nothing more.
ReadForDelete(c, d) ==
    /\ seen[c] = Idle
    /\ HasRow(d) /\ status[d] # "DELETED"
    /\ seen' = [seen EXCEPT ![c] = [dep |-> d, status |-> status[d]]]
    /\ UNCHANGED <<database, kubernetes, process, budget>>

\* The session holds the row as it was read: SQLAlchemy emits no UPDATE when the
\* status it assigns is the one it read.
UpdateStatus(c) ==
    IF seen[c].status = "DELETING"
    THEN UNCHANGED status
    ELSE status' = [status EXCEPT ![seen[c].dep] = "DELETING"]

\* The rest of delete_deployment and the commit; when the row was purged meanwhile,
\* a constraint fails and the transaction rolls back.
CommitDelete(c) ==
    /\ seen[c] # Idle
    /\ seen' = [seen EXCEPT ![c] = Idle]
    /\ \/ /\ HasRow(seen[c].dep)
          /\ UpdateStatus(c)
          /\ InsertTask(seen[c].dep, "DELETE")
       \/ /\ ~HasRow(seen[c].dep)
          /\ UNCHANGED <<status, tasks, notes>>
    /\ UNCHANGED <<endpoint, kubernetes, pc, current, listen, budget>>

\* hard_delete, whatever the status: the foreign keys cascade to the tasks.
PurgeDeployment(d) ==
    /\ HasRow(d)
    /\ status' = [status EXCEPT ![d] = "PURGED"]
    /\ tasks' = [i \in DOMAIN tasks |->
                    IF tasks[i].dep = d THEN [tasks[i] EXCEPT !.st = "GONE"] ELSE tasks[i]]
    /\ endpoint' = endpoint \ {d}
    /\ UNCHANGED <<kubernetes, process, seen, budget>>

-----------------------------------------------------------------------------
(* The worker's loop.                                                      *)

\* async_main: connect, then run_forever, which first drains the table.
StartWorker(w) ==
    /\ pc[w] = "off"
    /\ pc' = [pc EXCEPT ![w] = "claim"]
    /\ UNCHANGED <<database, kubernetes, current, listen, notes, seen, budget>>

\* ORDER BY created_at forgotten.
BugAnyPending(i) == i \in DOMAIN tasks /\ tasks[i].st = "PENDING"

Oldest(i) ==
    /\ i \in DOMAIN tasks /\ tasks[i].st = "PENDING"
    /\ \A j \in 1..(i - 1) : tasks[j].st # "PENDING"

\* The UPDATE that marks the claimed row forgotten.
BugClaimUnmarked(w) ==
    /\ pc[w] = "claim"
    /\ \E i \in DOMAIN tasks : Oldest(i) /\ current' = [current EXCEPT ![w] = i]
    /\ pc' = [pc EXCEPT ![w] = "fetch"]
    /\ UNCHANGED <<database, kubernetes, listen, notes, seen, budget>>

\* claim_next_task: SELECT ... FOR UPDATE SKIP LOCKED and the UPDATE, one transaction.
ClaimTask(w) ==
    /\ pc[w] = "claim"
    /\ \E i \in DOMAIN tasks :
         /\ Oldest(i)
         /\ tasks' = [tasks EXCEPT ![i].st = "IN_PROGRESS"]
         /\ current' = [current EXCEPT ![w] = i]
    /\ pc' = [pc EXCEPT ![w] = "fetch"]
    /\ UNCHANGED <<status, endpoint, kubernetes, listen, notes, seen, budget>>

\* process_pending_tasks returns: to the LISTEN the first time, then to the queue.
NothingToClaim(w) ==
    /\ pc[w] = "claim"
    /\ \A i \in DOMAIN tasks : tasks[i].st # "PENDING"
    /\ pc' = [pc EXCEPT ![w] = IF listen[w] = "none" THEN "subscribe" ELSE "wait"]
    /\ UNCHANGED <<database, kubernetes, current, listen, notes, seen, budget>>

\* listen: acquire a connection and add_listener.
Subscribe(w) ==
    /\ pc[w] = "subscribe"
    /\ listen' = [listen EXCEPT ![w] = "live"]
    /\ pc' = [pc EXCEPT ![w] = "wait"]
    /\ UNCHANGED <<database, kubernetes, current, notes, seen, budget>>

\* queue.get() returns a notification and run_forever drains the table again.
WakeUp(w) ==
    /\ pc[w] = "wait" /\ notes[w] > 0
    /\ notes' = [notes EXCEPT ![w] = @ - 1]
    /\ pc' = [pc EXCEPT ![w] = "claim"]
    /\ UNCHANGED <<database, kubernetes, current, listen, seen, budget>>

-----------------------------------------------------------------------------
(* process_task, one action per statement.                                 *)

Dep(w)  == tasks[current[w]].dep
Type(w) == tasks[current[w]].type

\* A statement completes and the worker goes on to the next one, or its effect takes
\* place and the answer is lost: the call raises.
Proceed(w, next) ==
    \/ /\ pc' = [pc EXCEPT ![w] = next]
       /\ UNCHANGED faults
    \/ /\ faults < MaxFaults
       /\ faults' = faults + 1
       /\ pc' = [pc EXCEPT ![w] = "markFailed"]

\* The except clause.
Raise(w) == pc' = [pc EXCEPT ![w] = "markFailed"] /\ UNCHANGED faults

Working == UNCHANGED <<current, listen, notes, seen, crashes, drops>>

\* UPDATE deployment ... WHERE id = $1 does nothing once the row is gone.
SetStatus(d, s) ==
    status' = IF HasRow(d) THEN [status EXCEPT ![d] = s] ELSE status

\* DEPLOYING not recorded before the first object is applied.
BugFetchUnmarked(w) ==
    /\ pc[w] = "fetch"
    /\ \/ /\ HasRow(Dep(w))
          /\ Proceed(w, IF Type(w) = "DEPLOY" THEN "applyDeployment" ELSE "markDeleting")
       \/ ~HasRow(Dep(w)) /\ Raise(w)
    /\ Working /\ UNCHANGED <<database, kubernetes>>

\* fetch_deployment_spec
FetchSpec(w) ==
    /\ pc[w] = "fetch"
    /\ \/ /\ HasRow(Dep(w))
          /\ Proceed(w, IF Type(w) = "DEPLOY" THEN "markDeploying" ELSE "markDeleting")
       \/ ~HasRow(Dep(w)) /\ Raise(w)
    /\ Working /\ UNCHANGED <<database, kubernetes>>

MarkDeploying(w) ==
    /\ pc[w] = "markDeploying"
    /\ SetStatus(Dep(w), "DEPLOYING")
    /\ Proceed(w, IF Dep(w) \in ImageBacked THEN "applySecret" ELSE "applyDeployment")
    /\ Working /\ UNCHANGED <<endpoint, tasks, kubernetes>>

ApplySecret(w) ==
    /\ pc[w] = "applySecret"
    /\ secret' = secret \union {Dep(w)}
    /\ Proceed(w, "applyDeployment")
    /\ Working /\ UNCHANGED <<database, workload, service>>

\* Creates the object or patches the one of that name.  Its selector names the
\* deployment and is immutable: Kubernetes rejects the patch of another's object.
ApplyDeployment(w) ==
    LET n == WorkloadName[Dep(w)] IN
    /\ pc[w] = "applyDeployment"
    /\ \/ /\ workload[n] \in {NoOne, Dep(w)}
          /\ workload' = [workload EXCEPT ![n] = Dep(w)]
          /\ Proceed(w, "applyService")
       \/ /\ workload[n] \notin {NoOne, Dep(w)}
          /\ Raise(w) /\ UNCHANGED workload
    /\ Working /\ UNCHANGED <<database, service, secret>>

ApplyService(w) ==
    /\ pc[w] = "applyService"
    /\ service' = [service EXCEPT ![WorkloadName[Dep(w)]] = Dep(w)]
    /\ Proceed(w, "awaitAvailable")
    /\ Working /\ UNCHANGED <<database, workload, secret>>

\* _wait_for_available_deployment: reading a missing object raises at once.
AwaitAvailable(w) ==
    /\ pc[w] = "awaitAvailable"
    /\ \/ workload[WorkloadName[Dep(w)]] # NoOne /\ Proceed(w, "awaitReady")
       \/ workload[WorkloadName[Dep(w)]] = NoOne /\ Raise(w)
    /\ Working /\ UNCHANGED <<database, kubernetes>>

\* Requests to the Service object of this name reach pods.
Answers(n) == service[n] # NoOne /\ workload[n] = service[n]

\* _wait_for_ready: polls until an answer or the timeout.
AwaitReady(w) ==
    /\ pc[w] = "awaitReady"
    /\ \/ Answers(WorkloadName[Dep(w)]) /\ Proceed(w, "markActive")
       \/ ~Answers(WorkloadName[Dep(w)]) /\ Raise(w)
    /\ Working /\ UNCHANGED <<database, kubernetes>>

MarkActive(w) ==
    /\ pc[w] = "markActive"
    /\ SetStatus(Dep(w), "ACTIVE")
    /\ endpoint' = IF HasRow(Dep(w)) THEN endpoint \union {Dep(w)} ELSE endpoint
    /\ Proceed(w, "complete")
    /\ Working /\ UNCHANGED <<tasks, kubernetes>>

\* Objects removed without recording DELETING first.
BugDeleteUnmarked(w) ==
    /\ pc[w] = "markDeleting"
    /\ Proceed(w, "deleteDeployment")
    /\ Working /\ UNCHANGED <<database, kubernetes>>

MarkDeleting(w) ==
    /\ pc[w] = "markDeleting"
    /\ SetStatus(Dep(w), "DELETING")
    /\ Proceed(w, "deleteDeployment")
    /\ Working /\ UNCHANGED <<endpoint, tasks, kubernetes>>

\* Deletes by name, whoever owns the object; a missing one (404) is tolerated.
DeleteDeployment(w) ==
    /\ pc[w] = "deleteDeployment"
    /\ workload' = [workload EXCEPT ![WorkloadName[Dep(w)]] = NoOne]
    /\ Proceed(w, "deleteService")
    /\ Working /\ UNCHANGED <<database, service, secret>>

DeleteService(w) ==
    /\ pc[w] = "deleteService"
    /\ service' = [service EXCEPT ![WorkloadName[Dep(w)]] = NoOne]
    /\ Proceed(w, IF Dep(w) \in ImageBacked THEN "deleteSecret" ELSE "markDeleted")
    /\ Working /\ UNCHANGED <<database, workload, secret>>

DeleteSecret(w) ==
    /\ pc[w] = "deleteSecret"
    /\ secret' = secret \ {Dep(w)}
    /\ Proceed(w, "markDeleted")
    /\ Working /\ UNCHANGED <<database, workload, service>>

MarkDeleted(w) ==
    /\ pc[w] = "markDeleted"
    /\ SetStatus(Dep(w), "DELETED")
    /\ Proceed(w, "complete")
    /\ Working /\ UNCHANGED <<endpoint, tasks, kubernetes>>

\* UPDATE deployment_task ... WHERE id = $1
SettleTask(w, st) ==
    tasks' = IF tasks[current[w]].st = "GONE" THEN tasks
             ELSE [tasks EXCEPT ![current[w]].st = st]

\* One task per wake-up: an if in place of process_pending_tasks' while.
BugOneTaskPerWakeUp(w) ==
    /\ pc' = [pc EXCEPT ![w] = IF listen[w] = "none" THEN "subscribe" ELSE "wait"]
    /\ current' = [current EXCEPT ![w] = 0]

NextTask(w) ==
    /\ pc' = [pc EXCEPT ![w] = "claim"]
    /\ current' = [current EXCEPT ![w] = 0]

CompleteTask(w) ==
    /\ pc[w] = "complete"
    /\ SettleTask(w, "COMPLETED")
    /\ \/ NextTask(w) /\ UNCHANGED faults
       \/ /\ faults < MaxFaults
          /\ faults' = faults + 1
          /\ pc' = [pc EXCEPT ![w] = "markFailed"]
          /\ UNCHANGED current
    /\ UNCHANGED <<status, endpoint, kubernetes, listen, notes, seen, crashes, drops>>

MarkFailed(w) ==
    /\ pc[w] = "markFailed"
    /\ SetStatus(Dep(w), "FAILED")
    /\ pc' = [pc EXCEPT ![w] = "recordFailure"]
    /\ Working /\ UNCHANGED <<endpoint, tasks, kubernetes, faults>>

\* mark_task_failed forgotten in the except clause.
BugFailureUnrecorded(w) ==
    /\ pc[w] = "recordFailure"
    /\ NextTask(w)
    /\ UNCHANGED <<database, kubernetes, listen, notes, seen, budget>>

RecordFailure(w) ==
    /\ pc[w] = "recordFailure"
    /\ SettleTask(w, "FAILED")
    /\ NextTask(w)
    /\ UNCHANGED <<status, endpoint, kubernetes, listen, notes, seen, budget>>

-----------------------------------------------------------------------------
(* The environment.                                                        *)

\* A statement of the try block raises without effect: an API or database error, a
\* rollout or a readiness probe that exceeds its timeout.
StepRaises(w) ==
    /\ pc[w] \in TrySteps
    /\ faults < MaxFaults
    /\ faults' = faults + 1
    /\ pc' = [pc EXCEPT ![w] = "markFailed"]
    /\ Working /\ UNCHANGED <<database, kubernetes>>

\* The process dies (killed, rescheduled, or an exception outside the try block): its
\* memory is lost and the task it claimed stays as it is.
Die(w) ==
    /\ pc[w] # "off" /\ crashes < MaxCrashes
    /\ crashes' = crashes + 1
    /\ pc' = [pc EXCEPT ![w] = "off"]
    /\ current' = [current EXCEPT ![w] = 0]
    /\ listen' = [listen EXCEPT ![w] = "none"]
    /\ notes' = [notes EXCEPT ![w] = 0]
    /\ UNCHANGED <<database, kubernetes, seen, faults, drops>>

\* The connection that holds the LISTEN breaks; nothing in listen() notices.
BreakListen(w) ==
    /\ listen[w] = "live" /\ drops < MaxDrops
    /\ drops' = drops + 1
    /\ listen' = [listen EXCEPT ![w] = "dead"]
    /\ UNCHANGED <<database, kubernetes, pc, current, notes, seen, crashes, faults>>

-----------------------------------------------------------------------------

ProcessTask(w) ==
    \/ FetchSpec(w)
    \/ MarkDeploying(w) \/ ApplySecret(w) \/ ApplyDeployment(w) \/ ApplyService(w)
    \/ AwaitAvailable(w) \/ AwaitReady(w) \/ MarkActive(w)
    \/ MarkDeleting(w) \/ DeleteDeployment(w) \/ DeleteService(w) \/ DeleteSecret(w)
    \/ MarkDeleted(w)
    \/ CompleteTask(w) \/ MarkFailed(w) \/ RecordFailure(w)

\* Everything a worker does of itself; in each state at most one disjunct is enabled.
WorkerStep(w) ==
    \/ StartWorker(w) \/ ClaimTask(w) \/ NothingToClaim(w) \/ Subscribe(w) \/ WakeUp(w)
    \/ ProcessTask(w)

Next ==
    \/ \E d \in Deployments : CreateDeployment(d) \/ PurgeDeployment(d)
    \/ \E c \in Clients, d \in Deployments : ReadForDelete(c, d)
    \/ \E c \in Clients : CommitDelete(c)
    \/ \E w \in Workers : WorkerStep(w) \/ StepRaises(w) \/ Die(w) \/ BreakListen(w)

Spec == Init /\ [][Next]_vars

\* A started worker runs, and Kubernetes restarts one that died.  Nothing makes users
\* act, or calls fail.
FairSpec == Spec /\ \A w \in Workers : WF_vars(WorkerStep(w))

-----------------------------------------------------------------------------
(* Safety.                                                                 *)

\* What the gateway's lookup returns: an ACTIVE row with its Kubernetes columns.
Routable(d) == status[d] = "ACTIVE" /\ d \in endpoint

Serving(d) == workload[WorkloadName[d]] = d /\ service[WorkloadName[d]] = d

Gone(d) ==
    /\ workload[WorkloadName[d]] # d /\ service[WorkloadName[d]] # d
    /\ d \notin secret

\* Whatever requests, failures and crashes interleave, a deployment that is shown
\* ACTIVE, and that the gateway therefore routes to, has its workload: the worker
\* records ACTIVE only after the objects answered and leaves ACTIVE before it
\* removes any of them.
RoutableHasWorkload == \A d \in Deployments : Routable(d) => Serving(d)

Undeployed(d) ==
    \/ status[d] = "DELETED"
    \/ \E i \in DOMAIN tasks :
         tasks[i].dep = d /\ tasks[i].type = "DELETE" /\ tasks[i].st = "COMPLETED"

\* Undeploying is complete: once a deployment is DELETED, or a DELETE task of it was
\* COMPLETED, nothing of it is left in the cluster and nothing brings it back, a task
\* interrupted earlier or a second undeploy included.
UndeployedMeansGone == \A d \in Deployments : Undeployed(d) => Gone(d)

\* Tasks that nobody will finish: claimed, and the process that claimed them died.
Stuck == {i \in DOMAIN tasks : tasks[i].st = "IN_PROGRESS" /\ \A w \in Workers : current[w] # i}

\* Only a crash strands a task, and each crash at most one: failures, purges and
\* concurrent workers never do.
CrashesStrandTasks == Cardinality(Stuck) <= crashes

-----------------------------------------------------------------------------
(* The abstract specifications the pipeline implements.                    *)

TaskStates == [i \in DOMAIN tasks |-> tasks[i].st]

Holders == [i \in DOMAIN tasks |->
    IF \E w \in Workers : current[w] = i
    THEN CHOOSE w \in Workers : current[w] = i
    ELSE NoOne]

\* The task table is a queue whose tasks are claimed in order, each once and by one
\* worker, for any number of workers.
Queue == INSTANCE TaskQueue WITH
    Nobody <- NoOne, state <- TaskStates, holder <- Holders
TasksAreClaimedOnce == Queue!Spec

ObjectsOf(d) ==
    (IF workload[WorkloadName[d]] = d THEN {"workload"} ELSE {}) \union
    (IF service[WorkloadName[d]] = d THEN {"service"} ELSE {}) \union
    (IF d \in secret THEN {"secret"} ELSE {})

Objects == [d \in Deployments |-> ObjectsOf(d)]

\* With one worker and names of their own, deployments go through the documented
\* life cycle and their workload is never touched while they are ACTIVE.
Lifecycle == INSTANCE DeploymentLifecycle WITH
    Extras <- {"secret"}, shown <- status, objects <- Objects
StatusFollowsWorkload == Lifecycle!Spec

-----------------------------------------------------------------------------
(* Liveness, under FairSpec.                                               *)

Awake(w) == notes[w] > 0 \/ pc[w] \in {"off", "claim"} \union BusySteps

\* A task that is in the table while some worker has a notification to read, is busy or
\* is starting leaves PENDING: claimed, or purged with its deployment.  (A worker that
\* has drained the table and not yet subscribed is not Awake: see the lost wake-up.)  And a
\* worker gets rid of every task it claims, by settling it or by dying: no statement of
\* process_task blocks for ever, a vanished row or object included.
TasksMoveOn ==
    /\ \A i \in 1..MaxTasks :
         (i \in DOMAIN tasks /\ tasks[i].st = "PENDING" /\ \E w \in Workers : Awake(w))
             ~> (i \in DOMAIN tasks /\ tasks[i].st # "PENDING")
    /\ \A w \in Workers : (current[w] # 0) ~> (current[w] = 0)

\* What the eventing document promises of a row inserted while no worker listens: it
\* is processed once the worker is connected.
CreatedTasksAreClaimed ==
    \A i \in 1..MaxTasks :
        (i \in DOMAIN tasks /\ tasks[i].st = "PENDING")
            ~> (i \in DOMAIN tasks /\ tasks[i].st # "PENDING")
=============================================================================
