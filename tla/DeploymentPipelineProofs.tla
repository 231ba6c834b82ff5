---------------------- MODULE DeploymentPipelineProofs ----------------------
(***************************************************************************)
(* Theorems about DeploymentPipeline, for any sets of deployments,         *)
(* clients and names and any bounds.                                       *)
(*                                                                         *)
(* For any number of workers: types, what crashes strand, and that the     *)
(* table is a queue.  For one worker and injective names PipelineInvariant *)
(* is inductive, so RoutableHasWorkload and UndeployedMeansGone hold of    *)
(* any number of deployments, tasks, crashes and failing calls; with       *)
(* StatusInvariant, every step of the pipeline is a step of                *)
(* DeploymentLifecycle.                                                    *)
(***************************************************************************)
EXTENDS DeploymentPipelineInvariant, TLAPS, SequenceTheorems, FiniteSetTheorems

-----------------------------------------------------------------------------
(* What an INSERT, an UPDATE and a cascade do to the task table.           *)

\* An INSERT appends one PENDING row and changes no other.
LEMMA InsertShape ==
    ASSUME TypeOK, NEW d \in Deployments, NEW type \in {"DEPLOY", "DELETE"},
           InsertTask(d, type)
    PROVE  /\ tasks' \in Seq(Task)
           /\ DOMAIN tasks' = 1..(Len(tasks) + 1)
           /\ DOMAIN tasks = 1..Len(tasks) /\ Len(tasks) \in Nat
           /\ tasks'[Len(tasks) + 1] = [dep |-> d, type |-> type, st |-> "PENDING"]
           /\ \A i \in DOMAIN tasks : tasks'[i] = tasks[i]
           /\ notes' \in [Workers -> Nat]
<1> DEFINE row == [dep |-> d, type |-> type, st |-> "PENDING"]
<1>1. row \in Task
  BY DEF Task, TaskStatus
<1>2. tasks \in Seq(Task) /\ tasks' = Append(tasks, row)
  BY DEF TypeOK, InsertTask
<1>3. notes' \in [Workers -> Nat]
  BY DEF TypeOK, InsertTask, NotifyListeners
<1> QED
  BY <1>1, <1>2, <1>3

\* An UPDATE of one row's status changes nothing else in the table.
LEMMA UpdateShape ==
    ASSUME TypeOK, NEW k \in DOMAIN tasks, NEW s \in TaskStatus,
           tasks' = [tasks EXCEPT ![k].st = s]
    PROVE  /\ tasks' \in Seq(Task) /\ DOMAIN tasks' = DOMAIN tasks
           /\ \A i \in DOMAIN tasks :
                /\ tasks'[i].dep = tasks[i].dep /\ tasks'[i].type = tasks[i].type
                /\ tasks'[i].st = IF i = k THEN s ELSE tasks[i].st
<1>1. tasks \in Seq(Task) /\ DOMAIN tasks = 1..Len(tasks)
  BY DEF TypeOK
<1> DEFINE row == [tasks[k] EXCEPT !.st = s]
<1>2. row \in Task /\ row.dep = tasks[k].dep /\ row.type = tasks[k].type /\ row.st = s
  <2>1. tasks[k] \in Task
    BY <1>1, ElementOfSeq
  <2> QED
    BY <2>1 DEF Task, TaskStatus
<1>3. tasks' = [tasks EXCEPT ![k] = row]
  OBVIOUS
<1> HIDE DEF row
<1>4. tasks' \in Seq(Task) /\ Len(tasks') = Len(tasks)
  BY <1>1, <1>2, <1>3, ExceptSeq
<1>5. DOMAIN tasks' = DOMAIN tasks
  BY <1>3
<1> QED
  BY <1>1, <1>2, <1>3, <1>4, <1>5

\* The cascade of a purge withdraws the rows of one deployment and no other.
LEMMA PurgeShape ==
    ASSUME TypeOK, NEW d \in Deployments, PurgeDeployment(d)
    PROVE  /\ tasks' \in Seq(Task) /\ DOMAIN tasks' = DOMAIN tasks
           /\ \A i \in DOMAIN tasks :
                /\ tasks'[i].dep = tasks[i].dep /\ tasks'[i].type = tasks[i].type
                /\ tasks'[i].st = IF tasks[i].dep = d THEN "GONE" ELSE tasks[i].st
<1> DEFINE row(i) == IF tasks[i].dep = d THEN [tasks[i] EXCEPT !.st = "GONE"] ELSE tasks[i]
<1>1. tasks \in Seq(Task) /\ DOMAIN tasks = 1..Len(tasks) /\ Len(tasks) \in Nat
  BY DEF TypeOK
<1>2. \A i \in DOMAIN tasks : tasks[i] \in Task
  BY <1>1
<1>3. \A i \in DOMAIN tasks : row(i) \in Task
  BY <1>2 DEF Task
<1>4. tasks' = [i \in 1..Len(tasks) |-> row(i)]
  BY <1>1 DEF PurgeDeployment
<1>5. tasks' \in [1..Len(tasks) -> Task]
  BY <1>1, <1>3, <1>4
<1>6. tasks' \in Seq(Task)
  BY <1>1, <1>5
<1> QED
  BY <1>1, <1>2, <1>4, <1>6 DEF Task

-----------------------------------------------------------------------------
(* Type correctness.                                                       *)

\* A statement of process_task leaves the worker holding its task and at another
\* statement of process_task.
LEMMA ProceedShape ==
    ASSUME TypeOK, NEW w \in Workers, pc[w] \in BusySteps, NEW next \in BusySteps,
           Proceed(w, next) \/ Raise(w), Working, DOMAIN tasks' = DOMAIN tasks
    PROVE  /\ pc' \in [Workers -> Steps] /\ current' = current
           /\ \A v \in Workers : pc'[v] \in BusySteps <=> pc[v] \in BusySteps
           /\ faults' \in 0..MaxFaults
<1>1. "markFailed" \in BusySteps /\ BusySteps \subseteq Steps
  BY DEF BusySteps, Steps
<1>2. PICK t \in BusySteps : pc' = [pc EXCEPT ![w] = t]
  BY <1>1 DEF Proceed, Raise
<1>3. pc' \in [Workers -> Steps] /\ \A v \in Workers : pc'[v] = IF v = w THEN t ELSE pc[v]
  BY <1>1, <1>2 DEF TypeOK
<1>4. faults' \in 0..MaxFaults
  BY PipelineAssumption DEF Proceed, Raise, TypeOK, PipelineAssumption
<1> QED
  BY <1>3, <1>4 DEF Working

LEMMA HeldTaskType ==
    ASSUME TypeOK, NEW w \in Workers, pc[w] \in BusySteps
    PROVE  /\ current[w] \in DOMAIN tasks /\ tasks[current[w]] \in Task
           /\ Dep(w) \in Deployments /\ WorkloadName[Dep(w)] \in ObjectNames
           /\ Type(w) \in {"DEPLOY", "DELETE"}
<1>1. current[w] \in DOMAIN tasks /\ tasks \in Seq(Task)
  BY DEF TypeOK
<1>2. tasks[current[w]] \in Task
  BY <1>1, ElementOfSeq, LenProperties
<1> QED
  BY <1>1, <1>2, PipelineAssumption DEF Dep, Type, Task, PipelineAssumption

LEMMA StatusType ==
    ASSUME TypeOK, NEW d \in Deployments, NEW s \in RowStatus, SetStatus(d, s)
    PROVE  status' \in [Deployments -> RowStatus \union {"NONE", "PURGED"}]
BY DEF TypeOK, SetStatus

\* The statements that Proceed or Raise.
Statement(w) ==
    \/ FetchSpec(w)
    \/ MarkDeploying(w) \/ ApplySecret(w) \/ ApplyDeployment(w) \/ ApplyService(w)
    \/ AwaitAvailable(w) \/ AwaitReady(w) \/ MarkActive(w)
    \/ MarkDeleting(w) \/ DeleteDeployment(w) \/ DeleteService(w) \/ DeleteSecret(w)
    \/ MarkDeleted(w)

LEMMA StatementShape ==
    ASSUME TypeOK, NEW w \in Workers, Statement(w)
    PROVE  /\ pc[w] \in BusySteps /\ tasks' = tasks /\ Working
           /\ \E next \in BusySteps : Proceed(w, next) \/ Raise(w)
<1>1. pc[w] \in BusySteps /\ tasks' = tasks /\ Working
  BY DEF Statement, FetchSpec, MarkDeploying, ApplySecret, ApplyDeployment, ApplyService,
         AwaitAvailable, AwaitReady, MarkActive, MarkDeleting, DeleteDeployment,
         DeleteService, DeleteSecret, MarkDeleted, BusySteps, TrySteps, DeploySteps,
         DeleteSteps, database
<1>2. \E next \in BusySteps : Proceed(w, next) \/ Raise(w)
  <2> USE DEF BusySteps, TrySteps, DeploySteps, DeleteSteps
  <2>1. CASE FetchSpec(w)
    BY <2>1 DEF FetchSpec
  <2>2. CASE MarkDeploying(w) \/ ApplySecret(w) \/ ApplyDeployment(w) \/ ApplyService(w)
    BY <2>2 DEF MarkDeploying, ApplySecret, ApplyDeployment, ApplyService
  <2>3. CASE AwaitAvailable(w) \/ AwaitReady(w) \/ MarkActive(w)
    BY <2>3 DEF AwaitAvailable, AwaitReady, MarkActive
  <2>4. CASE MarkDeleting(w) \/ DeleteDeployment(w) \/ DeleteService(w)
    BY <2>4 DEF MarkDeleting, DeleteDeployment, DeleteService
  <2>5. CASE DeleteSecret(w) \/ MarkDeleted(w)
    BY <2>5 DEF DeleteSecret, MarkDeleted
  <2> QED
    BY <2>1, <2>2, <2>3, <2>4, <2>5 DEF Statement
<1> QED
  BY <1>1, <1>2

LEMMA StatementType ==
    ASSUME TypeOK, NEW w \in Workers, Statement(w)
    PROVE  TypeOK'
<1>1. pc[w] \in BusySteps /\ tasks' = tasks /\ Working
  BY StatementShape
<1>2. /\ pc' \in [Workers -> Steps] /\ current' = current
      /\ \A v \in Workers : pc'[v] \in BusySteps <=> pc[v] \in BusySteps
      /\ faults' \in 0..MaxFaults
  BY <1>1, StatementShape, ProceedShape
<1>3. Dep(w) \in Deployments /\ WorkloadName[Dep(w)] \in ObjectNames
  BY <1>1, HeldTaskType
<1>4. /\ status' \in [Deployments -> RowStatus \union {"NONE", "PURGED"}]
      /\ endpoint' \subseteq Deployments
  <2>1. CASE MarkDeploying(w) \/ MarkActive(w) \/ MarkDeleting(w) \/ MarkDeleted(w)
    BY <2>1, <1>3, StatusType
       DEF MarkDeploying, MarkActive, MarkDeleting, MarkDeleted, RowStatus, TypeOK
  <2>2. CASE UNCHANGED <<status, endpoint>>
    BY <2>2 DEF TypeOK
  <2> QED
    BY <2>1, <2>2 DEF Statement, FetchSpec, ApplySecret, ApplyDeployment, ApplyService,
         AwaitAvailable, AwaitReady, DeleteDeployment, DeleteService, DeleteSecret, database
<1>5. /\ workload' \in [ObjectNames -> Deployments \union {NoOne}]
      /\ service' \in [ObjectNames -> Deployments \union {NoOne}]
      /\ secret' \subseteq Deployments
  <2>1. CASE ApplySecret(w)
    BY <2>1, <1>3 DEF ApplySecret, TypeOK
  <2>2. CASE ApplyDeployment(w)
    <3>1. \/ workload' = [workload EXCEPT ![WorkloadName[Dep(w)]] = Dep(w)]
          \/ workload' = workload
      BY <2>2 DEF ApplyDeployment
    <3>2. UNCHANGED <<service, secret>>
      BY <2>2 DEF ApplyDeployment
    <3>3. /\ workload \in [ObjectNames -> Deployments \union {NoOne}]
          /\ service \in [ObjectNames -> Deployments \union {NoOne}]
          /\ secret \subseteq Deployments
      BY DEF TypeOK
    <3> QED
      BY <1>3, <3>1, <3>2, <3>3
  <2>3. CASE ApplyService(w)
    BY <2>3, <1>3 DEF ApplyService, TypeOK
  <2>4. CASE DeleteDeployment(w)
    BY <2>4, <1>3 DEF DeleteDeployment, TypeOK
  <2>5. CASE DeleteService(w)
    BY <2>5, <1>3 DEF DeleteService, TypeOK
  <2>6. CASE DeleteSecret(w)
    BY <2>6, <1>3 DEF DeleteSecret, TypeOK
  <2>7. CASE UNCHANGED kubernetes
    BY <2>7 DEF TypeOK, kubernetes
  <2> QED
    BY <2>1, <2>2, <2>3, <2>4, <2>5, <2>6, <2>7
       DEF Statement, FetchSpec, MarkDeploying, AwaitAvailable, AwaitReady, MarkActive,
           MarkDeleting, MarkDeleted
<1> QED
  BY <1>1, <1>2, <1>4, <1>5 DEF TypeOK, Working

\* The worker settles the task it holds: the row keeps its type and only its state
\* changes.
LEMMA SettleShape ==
    ASSUME TypeOK, NEW w \in Workers, pc[w] \in BusySteps, NEW st \in TaskStatus,
           SettleTask(w, st)
    PROVE  /\ tasks' \in Seq(Task) /\ DOMAIN tasks' = DOMAIN tasks
           /\ \A i \in DOMAIN tasks :
                /\ tasks'[i].dep = tasks[i].dep /\ tasks'[i].type = tasks[i].type
                /\ i # current[w] => tasks'[i].st = tasks[i].st
           /\ tasks'[current[w]].st =
                IF tasks[current[w]].st = "GONE" THEN "GONE" ELSE st
<1>1. current[w] \in DOMAIN tasks
  BY HeldTaskType
<1>2. CASE tasks[current[w]].st = "GONE"
  BY <1>1, <1>2 DEF SettleTask, TypeOK
<1>3. CASE tasks[current[w]].st # "GONE"
  <2>1. tasks' = [tasks EXCEPT ![current[w]].st = st]
    BY <1>3 DEF SettleTask
  <2>2. /\ tasks' \in Seq(Task) /\ DOMAIN tasks' = DOMAIN tasks
        /\ \A i \in DOMAIN tasks :
             /\ tasks'[i].dep = tasks[i].dep /\ tasks'[i].type = tasks[i].type
             /\ tasks'[i].st = IF i = current[w] THEN st ELSE tasks[i].st
    BY <1>1, <2>1, UpdateShape
  <2>3. tasks'[current[w]].st = st
    BY <1>1, <2>2
  <2> QED
    BY <1>3, <2>2, <2>3
<1> QED
  BY <1>2, <1>3

\* Letting go of the task: completing it, failing it, dying.
LEMMA LetGoType ==
    ASSUME TypeOK, NEW w \in Workers, NEW t \in Steps \ BusySteps,
           tasks' \in Seq(Task), DOMAIN tasks' = DOMAIN tasks,
           pc' = [pc EXCEPT ![w] = t], current' = [current EXCEPT ![w] = 0]
    PROVE  /\ pc' \in [Workers -> Steps] /\ current' \in [Workers -> Nat]
           /\ \A v \in Workers : pc'[v] \in BusySteps <=> current'[v] \in DOMAIN tasks'
           /\ \A v \in Workers : pc'[v] \notin BusySteps <=> current'[v] = 0
<1>1. 0 \notin DOMAIN tasks
  BY DEF TypeOK
<1> QED
  BY <1>1 DEF TypeOK

LEMMA RequestType ==
    ASSUME TypeOK, NEW d \in Deployments,
           \/ CreateDeployment(d) \/ PurgeDeployment(d)
           \/ \E c \in Clients : ReadForDelete(c, d) \/ CommitDelete(c)
    PROVE  TypeOK'
<1>1. CASE CreateDeployment(d)
  <2>1. /\ tasks' \in Seq(Task) /\ DOMAIN tasks' = 1..(Len(tasks) + 1)
        /\ DOMAIN tasks = 1..Len(tasks) /\ Len(tasks) \in Nat
        /\ notes' \in [Workers -> Nat]
    BY <1>1, InsertShape DEF CreateDeployment
  <2>2. \A w \in Workers : pc[w] \in BusySteps <=> current[w] \in DOMAIN tasks'
    BY <2>1 DEF TypeOK
  <2> QED
    BY <1>1, <2>1, <2>2 DEF CreateDeployment, TypeOK, RowStatus, kubernetes, budget
<1>2. CASE PurgeDeployment(d)
  BY <1>2, PurgeShape
     DEF PurgeDeployment, TypeOK, RowStatus, kubernetes, process, budget
<1>3. ASSUME NEW c \in Clients, ReadForDelete(c, d)
      PROVE  TypeOK'
  BY <1>3 DEF ReadForDelete, TypeOK, HasRow, Idle, database, kubernetes, process, budget
<1>4. ASSUME NEW c \in Clients, CommitDelete(c)
      PROVE  TypeOK'
  <2>1. seen' \in [Clients -> [dep : Deployments, status : RowStatus] \union {Idle}]
    BY <1>4 DEF CommitDelete, TypeOK
  <2>2. seen[c].dep \in Deployments
    BY <1>4 DEF CommitDelete, TypeOK
  <2>3. CASE HasRow(seen[c].dep) /\ UpdateStatus(c) /\ InsertTask(seen[c].dep, "DELETE")
    <3>1. /\ tasks' \in Seq(Task) /\ DOMAIN tasks' = 1..(Len(tasks) + 1)
          /\ DOMAIN tasks = 1..Len(tasks) /\ Len(tasks) \in Nat
          /\ notes' \in [Workers -> Nat]
      BY <2>2, <2>3, InsertShape
    <3>2. \A w \in Workers : pc[w] \in BusySteps <=> current[w] \in DOMAIN tasks'
      BY <3>1 DEF TypeOK
    <3>3. status' \in [Deployments -> RowStatus \union {"NONE", "PURGED"}]
      BY <2>2, <2>3 DEF UpdateStatus, TypeOK, RowStatus
    <3> QED
      BY <1>4, <2>1, <3>1, <3>2, <3>3 DEF CommitDelete, TypeOK, kubernetes, budget
  <2>4. CASE UNCHANGED <<status, tasks, notes>>
    BY <1>4, <2>1, <2>4 DEF CommitDelete, TypeOK, kubernetes, budget
  <2> QED
    BY <1>4, <2>3, <2>4 DEF CommitDelete
<1> QED
  BY <1>1, <1>2, <1>3, <1>4

LEMMA LoopType ==
    ASSUME TypeOK, NEW w \in Workers,
           StartWorker(w) \/ ClaimTask(w) \/ NothingToClaim(w) \/ Subscribe(w) \/ WakeUp(w)
    PROVE  TypeOK'
<1> USE DEF BusySteps, TrySteps, DeploySteps, DeleteSteps
<1>1. CASE StartWorker(w)
  BY <1>1 DEF StartWorker, TypeOK, Steps, database, kubernetes, budget
<1>2. CASE ClaimTask(w)
  <2>1. PICK i \in DOMAIN tasks :
            /\ tasks' = [tasks EXCEPT ![i].st = "IN_PROGRESS"]
            /\ current' = [current EXCEPT ![w] = i]
    BY <1>2 DEF ClaimTask
  <2>2. tasks' \in Seq(Task) /\ DOMAIN tasks' = DOMAIN tasks
    BY <2>1, UpdateShape DEF TaskStatus
  <2>3. DOMAIN tasks = 1..Len(tasks) /\ Len(tasks) \in Nat
    BY DEF TypeOK
  <2> QED
    BY <1>2, <2>1, <2>2, <2>3 DEF ClaimTask, TypeOK, Steps, kubernetes, budget
<1>3. CASE NothingToClaim(w)
  BY <1>3 DEF NothingToClaim, TypeOK, Steps, database, kubernetes, budget
<1>4. CASE Subscribe(w)
  BY <1>4 DEF Subscribe, TypeOK, Steps, database, kubernetes, budget
<1>5. CASE WakeUp(w)
  BY <1>5 DEF WakeUp, TypeOK, Steps, database, kubernetes, budget
<1> QED
  BY <1>1, <1>2, <1>3, <1>4, <1>5

LEMMA EndType ==
    ASSUME TypeOK, NEW w \in Workers, CompleteTask(w) \/ MarkFailed(w) \/ RecordFailure(w)
    PROVE  TypeOK'
<1> USE DEF BusySteps, TrySteps
<1>1. "claim" \in Steps \ BusySteps
  BY DEF Steps, DeploySteps, DeleteSteps
<1>2. CASE CompleteTask(w)
  <2>1. tasks' \in Seq(Task) /\ DOMAIN tasks' = DOMAIN tasks
    BY <1>2, SettleShape DEF CompleteTask, TaskStatus
  <2>2. CASE NextTask(w) /\ UNCHANGED faults
    BY <1>1, <1>2, <2>1, <2>2, LetGoType
       DEF CompleteTask, NextTask, TypeOK, kubernetes
  <2>3. CASE /\ faults < MaxFaults /\ faults' = faults + 1
             /\ pc' = [pc EXCEPT ![w] = "markFailed"] /\ UNCHANGED current
    BY <1>2, <2>1, <2>3, PipelineAssumption
       DEF CompleteTask, TypeOK, Steps, kubernetes, PipelineAssumption
  <2> QED
    BY <1>2, <2>2, <2>3 DEF CompleteTask
<1>3. CASE MarkFailed(w)
  <2>1. Dep(w) \in Deployments
    BY <1>3, HeldTaskType DEF MarkFailed
  <2>2. status' \in [Deployments -> RowStatus \union {"NONE", "PURGED"}]
    BY <1>3, <2>1, StatusType DEF MarkFailed, RowStatus
  <2> QED
    BY <1>3, <2>2 DEF MarkFailed, TypeOK, Working, Steps, kubernetes
<1>4. CASE RecordFailure(w)
  <2>1. tasks' \in Seq(Task) /\ DOMAIN tasks' = DOMAIN tasks
    BY <1>4, SettleShape DEF RecordFailure, TaskStatus
  <2> QED
    BY <1>1, <1>4, <2>1, LetGoType
       DEF RecordFailure, NextTask, TypeOK, kubernetes, budget
<1> QED
  BY <1>2, <1>3, <1>4

LEMMA EnvironmentType ==
    ASSUME TypeOK, NEW w \in Workers, StepRaises(w) \/ Die(w) \/ BreakListen(w)
    PROVE  TypeOK'
<1>1. CASE StepRaises(w)
  <2>1. "markFailed" \in BusySteps /\ TrySteps \subseteq BusySteps /\ BusySteps \subseteq Steps
    BY DEF BusySteps, Steps
  <2> QED
    BY <1>1, <2>1, PipelineAssumption
       DEF StepRaises, TypeOK, Working, database, kubernetes, PipelineAssumption
<1>2. CASE Die(w)
  <2>1. "off" \in Steps \ BusySteps
    BY DEF Steps, BusySteps, TrySteps, DeploySteps, DeleteSteps
  <2>2. tasks' = tasks /\ crashes' \in 0..MaxCrashes
    BY <1>2, PipelineAssumption DEF Die, TypeOK, database, PipelineAssumption
  <2>3. tasks' \in Seq(Task) /\ DOMAIN tasks' = DOMAIN tasks
    BY <2>2 DEF TypeOK
  <2>4. /\ pc' \in [Workers -> Steps] /\ current' \in [Workers -> Nat]
        /\ \A v \in Workers : pc'[v] \in BusySteps <=> current'[v] \in DOMAIN tasks'
        /\ \A v \in Workers : pc'[v] \notin BusySteps <=> current'[v] = 0
    BY <1>2, <2>1, <2>3, LetGoType DEF Die
  <2> QED
    BY <1>2, <2>2, <2>4 DEF Die, TypeOK, database, kubernetes
<1>3. CASE BreakListen(w)
  BY <1>3, PipelineAssumption
     DEF BreakListen, TypeOK, database, kubernetes, PipelineAssumption
<1> QED
  BY <1>1, <1>2, <1>3

\* Every step keeps the types.
LEMMA TypeStep ==
    ASSUME TypeOK, [Next]_vars
    PROVE  TypeOK'
<1>1. ASSUME NEW d \in Deployments, CreateDeployment(d) \/ PurgeDeployment(d)
      PROVE  TypeOK'
  BY <1>1, RequestType
<1>2. ASSUME NEW c \in Clients, NEW d \in Deployments, ReadForDelete(c, d)
      PROVE  TypeOK'
  BY <1>2, RequestType
<1>3. ASSUME NEW c \in Clients, CommitDelete(c)
      PROVE  TypeOK'
  <2>1. seen[c].dep \in Deployments
    BY <1>3 DEF CommitDelete, TypeOK
  <2> QED
    BY <1>3, <2>1, RequestType
<1>4. ASSUME NEW w \in Workers, WorkerStep(w)
      PROVE  TypeOK'
  BY <1>4, LoopType, StatementType, EndType DEF WorkerStep, ProcessTask, Statement
<1>5. ASSUME NEW w \in Workers, StepRaises(w) \/ Die(w) \/ BreakListen(w)
      PROVE  TypeOK'
  BY <1>5, EnvironmentType
<1>6. CASE UNCHANGED vars
  BY <1>6 DEF vars, TypeOK
<1> QED
  BY <1>1, <1>2, <1>3, <1>4, <1>5, <1>6 DEF Next

LEMMA TypeInit == Init => TypeOK
BY PipelineAssumption
   DEF Init, TypeOK, Steps, BusySteps, TrySteps, DeploySteps, DeleteSteps,
       PipelineAssumption

\* In every reachable state a worker between two statements of process_task holds a task
\* that is in the table, and no other worker state does; tables and objects keep their
\* types.
THEOREM TypeCorrect == Spec => []TypeOK
<1>1. TypeOK /\ [Next]_vars => TypeOK'
  BY TypeStep
<1> QED
  BY TypeInit, <1>1, PTL DEF Spec

-----------------------------------------------------------------------------
(* Only crashes strand tasks.                                              *)

LEMMA StuckUntouched ==
    ASSUME tasks' = tasks, current' = current
    PROVE  Stuck' = Stuck
BY DEF Stuck

LEMMA StuckAfterInsert ==
    ASSUME TypeOK, NEW d \in Deployments, NEW type \in {"DEPLOY", "DELETE"},
           InsertTask(d, type), current' = current
    PROVE  Stuck' \subseteq Stuck
<1>1. /\ DOMAIN tasks' = 1..(Len(tasks) + 1)
      /\ DOMAIN tasks = 1..Len(tasks) /\ Len(tasks) \in Nat
      /\ tasks'[Len(tasks) + 1] = [dep |-> d, type |-> type, st |-> "PENDING"]
      /\ \A i \in DOMAIN tasks : tasks'[i] = tasks[i]
  BY InsertShape
<1>2. \A i \in DOMAIN tasks' : i \in DOMAIN tasks \/ i = Len(tasks) + 1
  BY <1>1
<1>3. tasks'[Len(tasks) + 1].st # "IN_PROGRESS"
  BY <1>1
<1> QED
  BY <1>1, <1>2, <1>3 DEF Stuck

\* A claimed task has a holder; the worker that claims held none before.
LEMMA StuckAfterClaim ==
    ASSUME TypeOK, NEW w \in Workers, ClaimTask(w)
    PROVE  Stuck' \subseteq Stuck
<1>1. PICK k \in DOMAIN tasks :
          /\ tasks' = [tasks EXCEPT ![k].st = "IN_PROGRESS"]
          /\ current' = [current EXCEPT ![w] = k]
  BY DEF ClaimTask
<1>2. /\ DOMAIN tasks' = DOMAIN tasks
      /\ \A i \in DOMAIN tasks : i # k => tasks'[i].st = tasks[i].st
  BY <1>1, UpdateShape DEF TaskStatus
<1>3. current[w] = 0 /\ 0 \notin DOMAIN tasks
  BY DEF ClaimTask, TypeOK, BusySteps, TrySteps, DeploySteps, DeleteSteps
<1>4. \A v \in Workers : current'[v] = IF v = w THEN k ELSE current[v]
  BY <1>1 DEF TypeOK
<1> QED
  BY <1>2, <1>3, <1>4 DEF Stuck

\* A worker that goes on to its next task has settled the one it held.
LEMMA StuckAfterSettle ==
    ASSUME TypeOK, NEW w \in Workers, pc[w] \in BusySteps,
           NEW st \in {"COMPLETED", "FAILED"}, SettleTask(w, st),
           current' = current \/ current' = [current EXCEPT ![w] = 0]
    PROVE  Stuck' \subseteq Stuck
<1>1. /\ DOMAIN tasks' = DOMAIN tasks
      /\ \A i \in DOMAIN tasks : i # current[w] => tasks'[i].st = tasks[i].st
      /\ tasks'[current[w]].st # "IN_PROGRESS"
  BY SettleShape DEF TaskStatus
<1>2. current[w] \in DOMAIN tasks
  BY HeldTaskType
<1>3. \A v \in Workers : v # w => current'[v] = current[v]
  BY DEF TypeOK
<1> QED
  BY <1>1, <1>2, <1>3 DEF Stuck

\* No step but a death adds to the stuck tasks.
LEMMA StuckStep ==
    ASSUME TypeOK, [Next]_vars, \A w \in Workers : ~Die(w)
    PROVE  Stuck' \subseteq Stuck /\ crashes' = crashes
<1>1. ASSUME NEW d \in Deployments, CreateDeployment(d)
      PROVE  Stuck' \subseteq Stuck /\ crashes' = crashes
  BY <1>1, StuckAfterInsert DEF CreateDeployment, budget
<1>2. ASSUME NEW d \in Deployments, PurgeDeployment(d)
      PROVE  Stuck' \subseteq Stuck /\ crashes' = crashes
  <2>1. /\ DOMAIN tasks' = DOMAIN tasks /\ current' = current
        /\ \A i \in DOMAIN tasks :
             tasks'[i].st = IF tasks[i].dep = d THEN "GONE" ELSE tasks[i].st
    BY <1>2, PurgeShape DEF PurgeDeployment, process
  <2> QED
    BY <1>2, <2>1 DEF PurgeDeployment, Stuck, budget
<1>3. ASSUME NEW c \in Clients, CommitDelete(c)
      PROVE  Stuck' \subseteq Stuck /\ crashes' = crashes
  <2>1. seen[c].dep \in Deployments
    BY <1>3 DEF CommitDelete, TypeOK
  <2> QED
    BY <1>3, <2>1, StuckAfterInsert, StuckUntouched DEF CommitDelete, budget
<1>4. ASSUME NEW w \in Workers, ClaimTask(w)
      PROVE  Stuck' \subseteq Stuck /\ crashes' = crashes
  BY <1>4, StuckAfterClaim DEF ClaimTask, budget
<1>5. ASSUME NEW w \in Workers, CompleteTask(w) \/ RecordFailure(w)
      PROVE  Stuck' \subseteq Stuck /\ crashes' = crashes
  BY <1>5, StuckAfterSettle
     DEF CompleteTask, RecordFailure, NextTask, BusySteps, TrySteps, budget
<1>6. ASSUME NEW w \in Workers, Statement(w)
      PROVE  Stuck' \subseteq Stuck /\ crashes' = crashes
  BY <1>6, StatementShape, StuckUntouched DEF Working
<1>7. ASSUME NEW c \in Clients, NEW d \in Deployments, ReadForDelete(c, d)
      PROVE  Stuck' \subseteq Stuck /\ crashes' = crashes
  BY <1>7, StuckUntouched DEF ReadForDelete, database, process, budget
<1>8. ASSUME NEW w \in Workers,
             \/ StartWorker(w) \/ NothingToClaim(w) \/ Subscribe(w) \/ WakeUp(w)
             \/ MarkFailed(w) \/ StepRaises(w) \/ BreakListen(w)
      PROVE  Stuck' \subseteq Stuck /\ crashes' = crashes
  BY <1>8, StuckUntouched
     DEF StartWorker, NothingToClaim, Subscribe, WakeUp, MarkFailed, StepRaises,
         BreakListen, Working, database, budget
<1>9. CASE UNCHANGED vars
  BY <1>9, StuckUntouched DEF vars
<1> QED
  BY <1>1, <1>2, <1>3, <1>4, <1>5, <1>6, <1>7, <1>8, <1>9
     DEF Next, WorkerStep, ProcessTask, Statement

\* A death strands at most the task the dead worker held.
LEMMA StuckAfterDeath ==
    ASSUME TypeOK, NEW w \in Workers, Die(w)
    PROVE  Stuck' \subseteq Stuck \union {current[w]} /\ crashes' = crashes + 1
<1>1. tasks' = tasks /\ current' = [current EXCEPT ![w] = 0]
  BY DEF Die, database
<1>2. \A v \in Workers : v # w => current'[v] = current[v]
  BY <1>1 DEF TypeOK
<1> QED
  BY <1>1, <1>2 DEF Die, Stuck

LEMMA StuckFinite == TypeOK => IsFiniteSet(Stuck) /\ Cardinality(Stuck) \in Nat
<1> SUFFICES ASSUME TypeOK PROVE IsFiniteSet(Stuck) /\ Cardinality(Stuck) \in Nat
  OBVIOUS
<1>1. Stuck \subseteq 1..Len(tasks) /\ Len(tasks) \in Nat
  BY DEF Stuck, TypeOK
<1>2. IsFiniteSet(1..Len(tasks))
  BY <1>1, FS_Interval
<1> QED
  BY <1>1, <1>2, FS_Subset, FS_CardinalityType

LEMMA StrandStep ==
    ASSUME TypeOK, CrashesStrandTasks, [Next]_vars
    PROVE  CrashesStrandTasks'
<1>1. /\ IsFiniteSet(Stuck) /\ Cardinality(Stuck) \in Nat
      /\ crashes \in Nat /\ Cardinality(Stuck) <= crashes
  BY StuckFinite DEF CrashesStrandTasks, TypeOK
<1>2. CASE \A w \in Workers : ~Die(w)
  <2>1. Stuck' \subseteq Stuck /\ crashes' = crashes
    BY <1>2, StuckStep
  <2>2. Cardinality(Stuck') <= Cardinality(Stuck) /\ Cardinality(Stuck') \in Nat
    BY <1>1, <2>1, FS_Subset, FS_CardinalityType
  <2> QED
    BY <1>1, <2>1, <2>2 DEF CrashesStrandTasks
<1>3. ASSUME NEW w \in Workers, Die(w)
      PROVE  CrashesStrandTasks'
  <2> DEFINE S == Stuck \union {current[w]}
  <2>1. Stuck' \subseteq S /\ crashes' = crashes + 1
    BY <1>3, StuckAfterDeath
  <2>2. IsFiniteSet(S) /\ Cardinality(S) \in {Cardinality(Stuck), Cardinality(Stuck) + 1}
    BY <1>1, FS_AddElement
  <2>3. Cardinality(Stuck') <= Cardinality(S) /\ Cardinality(Stuck') \in Nat
    BY <2>1, <2>2, FS_Subset, FS_CardinalityType
  <2> QED
    BY <1>1, <2>1, <2>2, <2>3 DEF CrashesStrandTasks
<1> QED
  BY <1>2, <1>3

\* For any number of workers: the tasks left IN_PROGRESS with nobody to finish them never
\* outnumber the crashes.  Failing calls, lost answers, purges and concurrent claims
\* strand none.
THEOREM StrandedOnlyByCrashes == Spec => []CrashesStrandTasks
<1>1. Init => CrashesStrandTasks
  <2> SUFFICES ASSUME Init PROVE CrashesStrandTasks
    OBVIOUS
  <2>1. Stuck = {}
    BY DEF Init, Stuck
  <2> QED
    BY <2>1, FS_EmptySet DEF Init, CrashesStrandTasks
<1>2. TypeOK /\ CrashesStrandTasks /\ [Next]_vars => CrashesStrandTasks'
  BY StrandStep
<1> QED
  BY <1>1, <1>2, TypeCorrect, PTL DEF Spec

-----------------------------------------------------------------------------
(* The task table implements TaskQueue.                                    *)

\* What the mapping to a queue needs beside the types: a task is held by one worker, it is
\* not up for another claim, and it has not been settled before the statement that settles
\* it.  A failure after COMPLETED was recorded leads to the except clause only.
TasksAreHeld ==
    /\ \A w \in Workers : pc[w] \in BusySteps =>
         /\ tasks[current[w]].st \in {"IN_PROGRESS", "COMPLETED", "GONE"}
         /\ tasks[current[w]].st = "COMPLETED" => pc[w] \in {"markFailed", "recordFailure"}
    /\ \A v, w \in Workers : v # w /\ pc[v] \in BusySteps => current[v] # current[w]

QueueInv == TypeOK /\ TasksAreHeld

\* The worker that holds a task is the holder of the queue's entry.
HoldersAreWorkers ==
    /\ DOMAIN Holders = DOMAIN tasks
    /\ \A w \in Workers : current[w] \in DOMAIN tasks => Holders[current[w]] = w
    /\ \A i \in DOMAIN tasks : (\A w \in Workers : current[w] # i) => Holders[i] = NoOne
    /\ \A i \in DOMAIN tasks : Holders[i] # NoOne => Holders[i] \in Workers /\ current[Holders[i]] = i

LEMMA HoldersShape == QueueInv => HoldersAreWorkers
<1> SUFFICES ASSUME QueueInv PROVE HoldersAreWorkers
  OBVIOUS
<1>1. \A v, w \in Workers : current[v] = current[w] /\ current[v] \in DOMAIN tasks => v = w
  BY DEF QueueInv, TypeOK, TasksAreHeld
<1>2. DOMAIN Holders = DOMAIN tasks
  BY DEF Holders
<1>3. ASSUME NEW w \in Workers, current[w] \in DOMAIN tasks
      PROVE  Holders[current[w]] = w
  <2> DEFINE i == current[w]
             h == CHOOSE v \in Workers : current[v] = i
  <2>1. h \in Workers /\ current[h] = i
    OBVIOUS
  <2>2. h = w
    BY <1>1, <1>3, <2>1
  <2> QED
    BY <1>3, <2>2 DEF Holders
<1>4. ASSUME NEW i \in DOMAIN tasks, \A w \in Workers : current[w] # i
      PROVE  Holders[i] = NoOne
  BY <1>4 DEF Holders
<1>5. ASSUME NEW i \in DOMAIN tasks, Holders[i] # NoOne
      PROVE  Holders[i] \in Workers /\ current[Holders[i]] = i
  BY <1>3, <1>4, <1>5
<1> QED
  BY <1>2, <1>3, <1>4, <1>5 DEF HoldersAreWorkers

LEMMA StatesShape ==
    /\ DOMAIN TaskStates = DOMAIN tasks
    /\ \A i \in DOMAIN tasks : TaskStates[i] = tasks[i].st
BY DEF TaskStates

\* Who has a task goes on having it, or lets go of it: the holders in terms of the workers.
LEMMA HoldersLetGo ==
    ASSUME QueueInv, QueueInv', NEW w \in Workers, current[w] \in DOMAIN tasks,
           DOMAIN tasks' = DOMAIN tasks, current' = [current EXCEPT ![w] = 0]
    PROVE  Holders' = [Holders EXCEPT ![current[w]] = NoOne]
<1>1. HoldersAreWorkers
  BY HoldersShape
<1>2. HoldersAreWorkers'
  BY HoldersShape, PTL
<1>3. \A v \in Workers : current'[v] = IF v = w THEN 0 ELSE current[v]
  BY DEF QueueInv, TypeOK
<1>4. 0 \notin DOMAIN tasks
  BY DEF QueueInv, TypeOK
<1>5. Holders'[current[w]] = NoOne
  <2>1. \A v \in Workers : current'[v] # current[w]
    BY <1>1, <1>3, <1>4 DEF HoldersAreWorkers
  <2> QED
    BY <1>2, <2>1 DEF HoldersAreWorkers
<1>6. ASSUME NEW i \in DOMAIN tasks, i # current[w]
      PROVE  Holders'[i] = Holders[i]
  <2>1. CASE \E v \in Workers : current[v] = i
    <3>1. PICK v \in Workers : current[v] = i
      BY <2>1
    <3>2. current'[v] = i
      BY <1>3, <1>6, <3>1
    <3> QED
      BY <1>1, <1>2, <1>6, <3>1, <3>2 DEF HoldersAreWorkers
  <2>2. CASE \A v \in Workers : current[v] # i
    <3>1. \A v \in Workers : current'[v] # i
      BY <1>3, <1>4, <2>2
    <3> QED
      BY <1>1, <1>2, <2>2, <3>1 DEF HoldersAreWorkers
  <2> QED
    BY <2>1, <2>2
<1>7. Holders = [i \in DOMAIN tasks |-> Holders[i]] /\ Holders' = [i \in DOMAIN tasks |-> Holders'[i]]
  BY DEF Holders
<1> QED
  BY <1>5, <1>6, <1>7

\* Statements and failing calls keep the task; only an answer lost after COMPLETED leaves a
\* settled one, and then the except clause is next.
LEMMA HeldStep ==
    ASSUME QueueInv, [Next]_vars
    PROVE  QueueInv'
<1>1. TypeOK /\ TasksAreHeld /\ TypeOK'
  BY TypeStep DEF QueueInv
<1> USE DEF BusySteps, TrySteps, DeploySteps, DeleteSteps
<1>2. ASSUME NEW d \in Deployments, NEW type \in {"DEPLOY", "DELETE"}, InsertTask(d, type),
             pc' = pc, current' = current
      PROVE  TasksAreHeld'
  <2>1. \A i \in DOMAIN tasks : tasks'[i] = tasks[i]
    BY <1>1, <1>2, InsertShape
  <2>2. \A w \in Workers : pc[w] \in BusySteps => tasks'[current[w]] = tasks[current[w]]
    BY <1>1, <2>1, HeldTaskType
  <2> QED
    BY <1>1, <1>2, <2>2 DEF TasksAreHeld
<1>3. ASSUME NEW d \in Deployments, PurgeDeployment(d)
      PROVE  TasksAreHeld'
  <2>1. \A i \in DOMAIN tasks : tasks'[i].st \in {"GONE", tasks[i].st}
    BY <1>1, <1>3, PurgeShape
  <2>2. \A w \in Workers : pc[w] \in BusySteps => current[w] \in DOMAIN tasks
    BY <1>1, HeldTaskType
  <2> QED
    BY <1>1, <1>3, <2>1, <2>2 DEF PurgeDeployment, process, TasksAreHeld
<1>4. ASSUME NEW w \in Workers, ClaimTask(w)
      PROVE  TasksAreHeld'
  <2>1. PICK k \in DOMAIN tasks :
            /\ tasks[k].st = "PENDING"
            /\ tasks' = [tasks EXCEPT ![k].st = "IN_PROGRESS"]
            /\ current' = [current EXCEPT ![w] = k]
    BY <1>4 DEF ClaimTask, Oldest
  <2>2. \A i \in DOMAIN tasks : tasks'[i].st = IF i = k THEN "IN_PROGRESS" ELSE tasks[i].st
    BY <1>1, <2>1, UpdateShape DEF TaskStatus
  <2>3. \A v \in Workers : pc[v] \in BusySteps => current[v] \in DOMAIN tasks /\ current[v] # k
    BY <1>1, <2>1, HeldTaskType DEF TasksAreHeld
  <2>4. /\ \A v \in Workers : current'[v] = IF v = w THEN k ELSE current[v]
        /\ \A v \in Workers : pc'[v] = IF v = w THEN "fetch" ELSE pc[v]
    BY <1>1, <1>4, <2>1 DEF ClaimTask, TypeOK
  <2>5. \A v \in Workers : pc[v] \in BusySteps /\ v # w =>
          tasks'[current'[v]].st = tasks[current[v]].st /\ current'[v] = current[v]
    BY <2>2, <2>3, <2>4
  <2>6. tasks'[current'[w]].st = "IN_PROGRESS"
    BY <2>1, <2>2, <2>4
  <2>7. \A v \in Workers : pc'[v] \in BusySteps =>
          /\ tasks'[current'[v]].st \in {"IN_PROGRESS", "COMPLETED", "GONE"}
          /\ tasks'[current'[v]].st = "COMPLETED" => pc'[v] \in {"markFailed", "recordFailure"}
    BY <1>1, <2>4, <2>5, <2>6 DEF TasksAreHeld
  <2>8. \A v, x \in Workers : v # x /\ pc'[v] \in BusySteps => current'[v] # current'[x]
    <3> SUFFICES ASSUME NEW v \in Workers, NEW x \in Workers, v # x, pc'[v] \in BusySteps
                 PROVE  current'[v] # current'[x]
      OBVIOUS
    <3>1. CASE v = w
      <4>1. current'[v] = k /\ current'[x] = current[x]
        BY <2>4, <3>1
      <4>2. CASE pc[x] \in BusySteps
        BY <2>3, <4>1, <4>2
      <4>3. CASE pc[x] \notin BusySteps
        <5>1. current[x] = 0 /\ 0 \notin DOMAIN tasks
          BY <1>1, <4>3 DEF TypeOK
        <5> QED
          BY <2>1, <4>1, <5>1
      <4> QED
        BY <4>2, <4>3
    <3>2. CASE v # w
      BY <1>1, <2>3, <2>4, <3>2 DEF TasksAreHeld
    <3> QED
      BY <3>1, <3>2
  <2> QED
    BY <2>7, <2>8 DEF TasksAreHeld
<1>5. ASSUME NEW w \in Workers, Statement(w) \/ MarkFailed(w) \/ StepRaises(w)
      PROVE  TasksAreHeld'
  <2>1. /\ tasks' = tasks /\ current' = current /\ pc[w] \in BusySteps
        /\ \E t \in BusySteps : pc' = [pc EXCEPT ![w] = t]
        /\ tasks[current[w]].st = "COMPLETED" => pc'[w] = "recordFailure"
    <3>1. CASE Statement(w)
      <4>1. pc[w] \notin {"markFailed", "recordFailure"}
        BY <3>1 DEF Statement, FetchSpec, MarkDeploying, ApplySecret, ApplyDeployment,
             ApplyService, AwaitAvailable, AwaitReady, MarkActive, MarkDeleting,
             DeleteDeployment, DeleteService, DeleteSecret, MarkDeleted
      <4>2. \E t \in BusySteps : pc' = [pc EXCEPT ![w] = t]
        BY <1>1, <3>1, StatementShape DEF Proceed, Raise
      <4> QED
        BY <1>1, <3>1, <4>1, <4>2, StatementShape DEF Working, TasksAreHeld
    <3>2. CASE MarkFailed(w)
      BY <1>1, <3>2 DEF MarkFailed, Working, TypeOK
    <3>3. CASE StepRaises(w)
      BY <1>1, <3>3 DEF StepRaises, Working, database, TypeOK, TasksAreHeld
    <3> QED
      BY <1>5, <3>1, <3>2, <3>3
  <2>2. \A v \in Workers : v # w => pc'[v] = pc[v]
    BY <1>1, <2>1 DEF TypeOK
  <2> QED
    BY <1>1, <2>1, <2>2 DEF TasksAreHeld
<1>6. ASSUME NEW w \in Workers, NEW st \in {"COMPLETED", "FAILED"}, pc[w] \in BusySteps,
             SettleTask(w, st),
             \/ NextTask(w)
             \/ st = "COMPLETED" /\ pc' = [pc EXCEPT ![w] = "markFailed"] /\ current' = current
      PROVE  TasksAreHeld'
  <2>1. /\ DOMAIN tasks' = DOMAIN tasks /\ current[w] \in DOMAIN tasks
        /\ \A i \in DOMAIN tasks : i # current[w] => tasks'[i].st = tasks[i].st
        /\ tasks'[current[w]].st = IF tasks[current[w]].st = "GONE" THEN "GONE" ELSE st
    BY <1>1, <1>6, SettleShape, HeldTaskType DEF TaskStatus
  <2>2. \A v \in Workers : v # w => pc'[v] = pc[v] /\ current'[v] = current[v]
    BY <1>1, <1>6 DEF TypeOK, NextTask
  <2>3. \/ pc'[w] = "claim" /\ current'[w] = 0
        \/ pc'[w] = "markFailed" /\ current'[w] = current[w] /\ st = "COMPLETED"
    BY <1>1, <1>6 DEF TypeOK, NextTask
  <2>4. \A v \in Workers : v # w /\ pc[v] \in BusySteps =>
          current[v] \in DOMAIN tasks /\ current[v] # current[w] /\ current[v] # 0
    <3> SUFFICES ASSUME NEW v \in Workers, v # w, pc[v] \in BusySteps
                 PROVE  current[v] \in DOMAIN tasks /\ current[v] # current[w] /\ current[v] # 0
      OBVIOUS
    <3>1. current[v] \in DOMAIN tasks /\ current[v] # 0
      BY <1>1, HeldTaskType DEF TypeOK
    <3>2. current[v] # current[w]
      BY <1>1, <1>6 DEF TasksAreHeld
    <3> QED
      BY <3>1, <3>2
  <2> QED
    BY <1>1, <1>6, <2>1, <2>2, <2>3, <2>4 DEF TasksAreHeld
<1>7. ASSUME NEW w \in Workers,
             StartWorker(w) \/ NothingToClaim(w) \/ Subscribe(w) \/ WakeUp(w) \/ BreakListen(w)
      PROVE  TasksAreHeld'
  <2>1. /\ tasks' = tasks /\ current' = current
        /\ \A v \in Workers : pc'[v] \in BusySteps => pc'[v] = pc[v]
    <3>1. /\ tasks' = tasks /\ current' = current
          /\ \/ pc' = pc
             \/ \E step \in {"claim", "subscribe", "wait"} : pc' = [pc EXCEPT ![w] = step]
      BY <1>7 DEF StartWorker, NothingToClaim, Subscribe, WakeUp, BreakListen, database
    <3>2. PICK step \in {"claim", "subscribe", "wait"} :
             pc' = pc \/ pc' = [pc EXCEPT ![w] = step]
      BY <3>1
    <3>3. step \notin BusySteps /\ pc \in [Workers -> Steps]
      BY <1>1 DEF BusySteps, TrySteps, DeploySteps, DeleteSteps, TypeOK
    <3> QED
      BY <3>1, <3>2, <3>3
  <2> QED
    BY <1>1, <2>1 DEF TasksAreHeld
<1>8. ASSUME NEW w \in Workers, Die(w)
      PROVE  TasksAreHeld'
  <2>1. /\ tasks' = tasks /\ pc'[w] = "off" /\ current'[w] = 0
        /\ \A v \in Workers : v # w => pc'[v] = pc[v] /\ current'[v] = current[v]
    BY <1>1, <1>8 DEF Die, database, TypeOK
  <2>2. \A v \in Workers : pc[v] \in BusySteps => current[v] # 0
    BY <1>1 DEF TypeOK
  <2> QED
    BY <1>1, <2>1, <2>2 DEF TasksAreHeld
<1>9. ASSUME UNCHANGED <<tasks, pc, current>>
      PROVE  TasksAreHeld'
  BY <1>1, <1>9 DEF TasksAreHeld
<1>10. ASSUME NEW c \in Clients, CommitDelete(c)
       PROVE  TasksAreHeld'
  <2>1. seen[c].dep \in Deployments
    BY <1>1, <1>10 DEF CommitDelete, TypeOK
  <2> QED
    BY <1>2, <1>9, <1>10, <2>1 DEF CommitDelete
<1>11. TasksAreHeld'
  BY <1>2, <1>3, <1>4, <1>5, <1>6, <1>7, <1>8, <1>9, <1>10
     DEF Next, WorkerStep, ProcessTask, Statement, CreateDeployment, ReadForDelete,
         CompleteTask, RecordFailure, database, process, vars
<1> QED
  BY <1>1, <1>11 DEF QueueInv

LEMMA HeldInit == Init => QueueInv
BY TypeInit DEF Init, QueueInv, TasksAreHeld, BusySteps, TrySteps, DeploySteps, DeleteSteps

\* What a step does to the table, to the held tasks and to the queue's variables.
LEMMA StutterStep ==
    ASSUME tasks' = tasks, current' = current
    PROVE  UNCHANGED <<TaskStates, Holders>>
BY DEF TaskStates, Holders

LEMMA EnqueueStep ==
    ASSUME QueueInv, NEW d \in Deployments, NEW type \in {"DEPLOY", "DELETE"},
           InsertTask(d, type), current' = current
    PROVE  Queue!Enqueue
<1> DEFINE n == Len(tasks)
<1>1. /\ DOMAIN tasks' = 1..(n + 1) /\ DOMAIN tasks = 1..n /\ n \in Nat
      /\ tasks'[n + 1] = [dep |-> d, type |-> type, st |-> "PENDING"]
      /\ \A i \in DOMAIN tasks : tasks'[i] = tasks[i]
  BY InsertShape DEF QueueInv
<1> HIDE DEF n
<1>2. \A w \in Workers : current[w] # n + 1
  <2>1. \A w \in Workers : current[w] \in DOMAIN tasks \/ current[w] = 0
    BY DEF QueueInv, TypeOK
  <2> QED
    BY <1>1, <2>1
<1> DEFINE S == {tasks[i].st : i \in DOMAIN tasks} \union {"PENDING"}
           H == {Holders[i] : i \in DOMAIN tasks} \union {NoOne}
<1>3. TaskStates = [i \in 1..n |-> tasks[i].st] /\ TaskStates' = [i \in 1..(n + 1) |-> tasks'[i].st]
  BY <1>1 DEF TaskStates
<1>4. TaskStates \in Seq(S) /\ Len(TaskStates) = n
  BY <1>1, <1>3
<1>5. TaskStates' \in Seq(S) /\ Len(TaskStates') = n + 1
  BY <1>1, <1>3
<1>6. TaskStates' = Append(TaskStates, "PENDING")
  <2>1. \A i \in 1..(n + 1) : TaskStates'[i] = Append(TaskStates, "PENDING")[i]
    BY <1>1, <1>3, <1>4
  <2> QED
    BY <1>4, <1>5, <2>1, AppendProperties, SeqEqual
<1>7. DOMAIN Holders = 1..n /\ Holders = [i \in 1..n |-> Holders[i]]
  BY <1>1 DEF Holders
<1>8. Holders \in Seq(H) /\ Len(Holders) = n
  BY <1>1, <1>7
<1>9. Holders' = [i \in 1..(n + 1) |-> IF i = n + 1 THEN NoOne ELSE Holders[i]]
  BY <1>1, <1>2 DEF Holders
<1>10. Holders' = Append(Holders, NoOne)
  <2>1. Holders' \in Seq(H) /\ Len(Holders') = n + 1
    BY <1>1, <1>8, <1>9
  <2>2. \A i \in 1..(n + 1) : Holders'[i] = Append(Holders, NoOne)[i]
    BY <1>1, <1>8, <1>9
  <2> QED
    BY <1>8, <2>1, <2>2, AppendProperties, SeqEqual
<1> QED
  BY <1>6, <1>10 DEF Queue!Enqueue

\* Only rows of the purged deployment change, and they are withdrawn.
LEMMA WithdrawStep ==
    ASSUME QueueInv, NEW d \in Deployments, PurgeDeployment(d)
    PROVE  Queue!Withdraw
<1> DEFINE S == {i \in DOMAIN tasks : tasks[i].dep = d}
<1>1. /\ DOMAIN tasks' = DOMAIN tasks
      /\ \A i \in DOMAIN tasks : tasks'[i].st = IF i \in S THEN "GONE" ELSE tasks[i].st
  BY PurgeShape DEF QueueInv
<1>2. S \in SUBSET DOMAIN TaskStates
  BY StatesShape
<1>3. TaskStates' = [i \in DOMAIN TaskStates |-> IF i \in S THEN "GONE" ELSE TaskStates[i]]
  BY <1>1, StatesShape DEF TaskStates
<1>4. Holders' = Holders
  BY <1>1 DEF Holders, PurgeDeployment, process
<1> QED
  BY <1>2, <1>3, <1>4 DEF Queue!Withdraw

LEMMA ClaimStep ==
    ASSUME QueueInv, QueueInv', NEW w \in Workers, ClaimTask(w)
    PROVE  Queue!Claim(w)
<1>1. PICK k \in DOMAIN tasks :
          /\ Oldest(k)
          /\ tasks' = [tasks EXCEPT ![k].st = "IN_PROGRESS"]
          /\ current' = [current EXCEPT ![w] = k]
  BY DEF ClaimTask
<1>2. /\ DOMAIN tasks' = DOMAIN tasks
      /\ \A i \in DOMAIN tasks : tasks'[i].st = IF i = k THEN "IN_PROGRESS" ELSE tasks[i].st
  BY <1>1, UpdateShape DEF QueueInv, TaskStatus
<1>3. HoldersAreWorkers
  BY HoldersShape
<1>4. HoldersAreWorkers'
  BY HoldersShape, PTL
<1>5. /\ current[w] = 0 /\ 0 \notin DOMAIN tasks
      /\ \A v \in Workers : current'[v] = IF v = w THEN k ELSE current[v]
  <2>1. pc[w] \notin BusySteps
    BY DEF ClaimTask, BusySteps, TrySteps, DeploySteps, DeleteSteps
  <2> QED
    BY <1>1, <2>1 DEF QueueInv, TypeOK
<1>6. /\ TaskStates[k] = "PENDING" /\ k \in DOMAIN TaskStates
      /\ \A j \in 1..(k - 1) : TaskStates[j] # "PENDING"
  <2>1. \A j \in 1..(k - 1) : j \in DOMAIN tasks
    BY DEF QueueInv, TypeOK
  <2> QED
    BY <1>1, <2>1, StatesShape DEF Oldest
<1>7. TaskStates' = [TaskStates EXCEPT ![k] = "IN_PROGRESS"]
  BY <1>2 DEF TaskStates
<1>8. ~Queue!Holds(w)
  BY <1>3, <1>5, PipelineAssumption DEF HoldersAreWorkers, Queue!Holds, PipelineAssumption
<1>9. Holders' = [Holders EXCEPT ![k] = w]
  <2>1. Holders'[k] = w
    BY <1>2, <1>4, <1>5 DEF HoldersAreWorkers
  <2>2. ASSUME NEW i \in DOMAIN tasks, i # k
        PROVE  Holders'[i] = Holders[i]
    <3>1. CASE \E v \in Workers : current[v] = i
      <4>1. PICK v \in Workers : current[v] = i
        BY <3>1
      <4>2. current'[v] = i
        BY <1>5, <4>1
      <4> QED
        BY <1>2, <1>3, <1>4, <4>1, <4>2 DEF HoldersAreWorkers
    <3>2. CASE \A v \in Workers : current[v] # i
      BY <1>2, <1>3, <1>4, <1>5, <2>2, <3>2 DEF HoldersAreWorkers
    <3> QED
      BY <3>1, <3>2
  <2>3. Holders = [i \in DOMAIN tasks |-> Holders[i]] /\ Holders' = [i \in DOMAIN tasks |-> Holders'[i]]
    BY <1>2 DEF Holders
  <2> QED
    BY <2>1, <2>2, <2>3
<1> QED
  BY <1>6, <1>7, <1>8, <1>9 DEF Queue!Claim

\* The holder settles its task, or finds it withdrawn.
LEMMA SettleStep ==
    ASSUME QueueInv, QueueInv', NEW w \in Workers, CompleteTask(w) \/ RecordFailure(w)
    PROVE  [Queue!Next]_<<TaskStates, Holders>>
<1> DEFINE k == current[w]
           st == IF pc[w] = "complete" THEN "COMPLETED" ELSE "FAILED"
           keep == current' = current
<1>1. /\ pc[w] \in BusySteps /\ SettleTask(w, st) /\ st \in {"COMPLETED", "FAILED"}
      /\ pc[w] \in {"complete", "recordFailure"}
      /\ \/ current' = [current EXCEPT ![w] = 0]
         \/ current' = current /\ pc[w] = "complete"
  BY DEF CompleteTask, RecordFailure, NextTask, BusySteps, TrySteps
<1>2. k \in DOMAIN tasks
  BY <1>1, HeldTaskType DEF QueueInv
<1>3. /\ DOMAIN tasks' = DOMAIN tasks
      /\ \A i \in DOMAIN tasks : i # k => tasks'[i].st = tasks[i].st
      /\ tasks'[k].st = IF tasks[k].st = "GONE" THEN "GONE" ELSE st
  BY <1>1, SettleShape DEF QueueInv, TaskStatus
<1>4. HoldersAreWorkers
  BY HoldersShape
<1>5. Holders[k] # NoOne /\ k \in DOMAIN TaskStates
  BY <1>2, <1>4, StatesShape, PipelineAssumption DEF HoldersAreWorkers, PipelineAssumption
<1>6. Holders' = IF keep THEN Holders ELSE [Holders EXCEPT ![k] = NoOne]
  <2>1. CASE current' = current
    BY <1>3, <2>1 DEF Holders
  <2>2. CASE current' # current
    BY <1>1, <1>2, <1>3, <2>2, HoldersLetGo
  <2> QED
    BY <2>1, <2>2
<1>7. CASE tasks[k].st = "GONE"
  <2>1. TaskStates' = TaskStates
    BY <1>3, <1>7 DEF TaskStates
  <2>2. CASE keep
    BY <1>6, <2>1, <2>2
  <2>3. CASE ~keep
    BY <1>5, <1>6, <2>1, <2>3 DEF Queue!Next, Queue!LetGo
  <2> QED
    BY <2>2, <2>3
<1>8. CASE tasks[k].st # "GONE"
  <2>1. TaskStates' = [TaskStates EXCEPT ![k] = st]
    BY <1>2, <1>3, <1>8 DEF TaskStates
  <2>2. \/ TaskStates[k] = "IN_PROGRESS"
        \/ TaskStates[k] = "COMPLETED" /\ st = "FAILED"
    BY <1>1, <1>2, <1>8, StatesShape DEF QueueInv, TasksAreHeld
  <2>3. keep => st = "COMPLETED"
    <3>1. current[w] # 0
      BY <1>1 DEF QueueInv, TypeOK
    <3> QED
      BY <1>1, <3>1 DEF QueueInv, TypeOK
  <2>4. Queue!Settle(k, st, keep)
    BY <1>5, <1>6, <2>1, <2>2, <2>3 DEF Queue!Settle
  <2>5. keep \in BOOLEAN
    OBVIOUS
  <2> HIDE DEF keep, k, st
  <2> QED
    BY <1>1, <1>5, <2>4, <2>5 DEF Queue!Next
<1> QED
  BY <1>7, <1>8

LEMMA QueueStep ==
    ASSUME QueueInv, [Next]_vars
    PROVE  [Queue!Next]_<<TaskStates, Holders>>
<1>1. QueueInv'
  BY HeldStep
<1>2. ASSUME NEW d \in Deployments, CreateDeployment(d)
      PROVE  Queue!Next
  BY <1>2, EnqueueStep DEF CreateDeployment, Queue!Next
<1>3. ASSUME NEW d \in Deployments, PurgeDeployment(d)
      PROVE  Queue!Next
  BY <1>3, WithdrawStep DEF Queue!Next
<1>4. ASSUME NEW c \in Clients, CommitDelete(c)
      PROVE  [Queue!Next]_<<TaskStates, Holders>>
  <2>1. seen[c].dep \in Deployments
    BY <1>4 DEF CommitDelete, QueueInv, TypeOK
  <2>2. CASE InsertTask(seen[c].dep, "DELETE")
    BY <1>4, <2>1, <2>2, EnqueueStep DEF CommitDelete, Queue!Next
  <2>3. CASE UNCHANGED tasks
    BY <1>4, <2>3, StutterStep DEF CommitDelete
  <2> QED
    BY <1>4, <2>2, <2>3 DEF CommitDelete
<1>5. ASSUME NEW w \in Workers, ClaimTask(w)
      PROVE  Queue!Next
  BY <1>1, <1>5, ClaimStep DEF Queue!Next
<1>6. ASSUME NEW w \in Workers, CompleteTask(w) \/ RecordFailure(w)
      PROVE  [Queue!Next]_<<TaskStates, Holders>>
  BY <1>1, <1>6, SettleStep
<1>7. ASSUME NEW w \in Workers, Die(w)
      PROVE  [Queue!Next]_<<TaskStates, Holders>>
  <2>1. tasks' = tasks /\ current' = [current EXCEPT ![w] = 0]
    BY <1>7 DEF Die, database
  <2>2. CASE current[w] \in DOMAIN tasks
    <3>1. Holders' = [Holders EXCEPT ![current[w]] = NoOne]
      BY <1>1, <2>1, <2>2, HoldersLetGo
    <3>2. Holders[current[w]] # NoOne
      BY <2>2, HoldersShape, PipelineAssumption DEF HoldersAreWorkers, PipelineAssumption
    <3>3. TaskStates' = TaskStates /\ current[w] \in DOMAIN TaskStates
      BY <2>1, <2>2 DEF TaskStates
    <3> QED
      BY <3>1, <3>2, <3>3 DEF Queue!Next, Queue!LetGo
  <2>3. CASE current[w] \notin DOMAIN tasks
    <3>1. current' = current
      BY <2>1, <2>3 DEF QueueInv, TypeOK
    <3> QED
      BY <2>1, <3>1, StutterStep
  <2> QED
    BY <2>2, <2>3
<1>8. ASSUME NEW w \in Workers, Statement(w)
      PROVE  UNCHANGED <<TaskStates, Holders>>
  BY <1>8, StatementShape, StutterStep DEF Working, QueueInv
<1>9. ASSUME NEW w \in Workers,
             \/ StartWorker(w) \/ NothingToClaim(w) \/ Subscribe(w) \/ WakeUp(w)
             \/ MarkFailed(w) \/ StepRaises(w) \/ BreakListen(w)
      PROVE  UNCHANGED <<TaskStates, Holders>>
  BY <1>9, StutterStep
     DEF StartWorker, NothingToClaim, Subscribe, WakeUp, MarkFailed, StepRaises,
         BreakListen, Working, database
<1>10. ASSUME NEW c \in Clients, NEW d \in Deployments, ReadForDelete(c, d)
       PROVE  UNCHANGED <<TaskStates, Holders>>
  BY <1>10, StutterStep DEF ReadForDelete, database, process
<1>11. ASSUME UNCHANGED vars
       PROVE  UNCHANGED <<TaskStates, Holders>>
  BY <1>11, StutterStep DEF vars
<1> QED
  BY <1>2, <1>3, <1>4, <1>5, <1>6, <1>7, <1>8, <1>9, <1>10, <1>11
     DEF Next, WorkerStep, ProcessTask, Statement

\* For any number of workers the table is a queue: tasks are claimed oldest first, each once
\* in its life and by one worker, and nobody but that worker settles it.
THEOREM TasksClaimedOnce == Spec => TasksAreClaimedOnce
<1>1. Init => Queue!Init
  BY DEF Init, Queue!Init, TaskStates, Holders
<1>2. QueueInv /\ [Next]_vars => QueueInv'
  BY HeldStep
<1>3. QueueInv /\ [Next]_vars => [Queue!Next]_<<TaskStates, Holders>>
  BY QueueStep
<1> QED
  BY <1>1, <1>2, <1>3, HeldInit, PTL DEF Spec, TasksAreClaimedOnce, Queue!Spec, Queue!queueVars

-----------------------------------------------------------------------------
(* What the invariant says of the worker that is processing a task.        *)

LEMMA BusyFacts ==
    ASSUME PipelineInvariant, NEW w \in Workers, pc[w] \in BusySteps
    PROVE  /\ TypeOK /\ Held(w) /\ Progress(w)
           /\ current[w] \in DOMAIN tasks /\ Dep(w) \in Deployments
           /\ WorkloadName[Dep(w)] \in ObjectNames
BY HeldTaskType DEF PipelineInvariant, HeldTask, WorkerProgress

\* While its DEPLOY is being processed, nothing has begun to undeploy a deployment.
LEMMA DeployingFacts ==
    ASSUME PipelineInvariant, NEW w \in Workers, pc[w] \in BusySteps, Type(w) = "DEPLOY"
    PROVE  ~DeleteStarted(Dep(w)) /\ ~Undeployed(Dep(w))
<1>1. current[w] \in DOMAIN tasks /\ Dep(w) \in Deployments
  BY BusyFacts
<1>2. ~DeleteStarted(Dep(w))
  BY <1>1 DEF PipelineInvariant, DeployIsOver, Type, Dep
<1> QED
  BY <1>1, <1>2 DEF PipelineInvariant, DeletedByTask, Undeployed, DeleteStarted

LEMMA RowType ==
    ASSUME TypeOK, NEW i \in DOMAIN tasks
    PROVE  tasks[i].dep \in Deployments /\ tasks[i].type \in {"DEPLOY", "DELETE"}
<1>1. tasks \in Seq(Task) /\ DOMAIN tasks = 1..Len(tasks)
  BY DEF TypeOK
<1>2. tasks[i] \in Task
  BY <1>1
<1> QED
  BY <1>2 DEF Task

LEMMA StatusFrame ==
    ASSUME TypeOK, NEW d \in Deployments, NEW s \in RowStatus, SetStatus(d, s)
    PROVE  /\ \A e \in Deployments :
                status'[e] = IF e = d /\ HasRow(d) THEN s ELSE status[e]
           /\ \A e \in Deployments : /\ status'[e] = "NONE" <=> status[e] = "NONE"
                                     /\ status'[e] = "PURGED" <=> status[e] = "PURGED"
BY DEF TypeOK, SetStatus, HasRow, RowStatus

\* Statements of process_task never create or purge a row.
LEMMA StatementRows ==
    ASSUME TypeOK, NEW w \in Workers, Statement(w)
    PROVE  \A e \in Deployments : /\ status'[e] = "NONE" <=> status[e] = "NONE"
                                  /\ status'[e] = "PURGED" <=> status[e] = "PURGED"
<1>1. Dep(w) \in Deployments
  BY StatementShape, HeldTaskType
<1>2. CASE MarkDeploying(w) \/ MarkActive(w) \/ MarkDeleting(w) \/ MarkDeleted(w)
  BY <1>1, <1>2, StatusFrame
     DEF MarkDeploying, MarkActive, MarkDeleting, MarkDeleted, RowStatus
<1>3. CASE UNCHANGED status
  BY <1>3
<1> QED
  BY <1>2, <1>3 DEF Statement, FetchSpec, ApplySecret, ApplyDeployment, ApplyService,
     AwaitAvailable, AwaitReady, DeleteDeployment, DeleteService, DeleteSecret, database

\* They leave the task table, and what it says of each deployment, alone.
LEMMA StatementTables ==
    ASSUME PipelineInvariant, NEW w \in Workers, Statement(w)
    PROVE  /\ TypeOK' /\ TaskTable' /\ DeployIsOver'
           /\ \A e \in Deployments : DeleteStarted(e)' = DeleteStarted(e)
           /\ Dep(w)' = Dep(w) /\ Type(w)' = Type(w)
           /\ tasks' = tasks /\ current' = current
<1>1. TypeOK /\ TaskTable /\ DeployIsOver
  BY DEF PipelineInvariant
<1>2. tasks' = tasks /\ current' = current
  BY <1>1, StatementShape DEF Working
<1>3. \A i \in DOMAIN tasks : tasks[i].dep \in Deployments
  BY <1>1, RowType
<1>4. TaskTable'
  BY <1>1, <1>2, <1>3, StatementRows DEF TaskTable
<1>5. DeployIsOver'
  BY <1>1, <1>2 DEF DeployIsOver, DeleteStarted
<1> QED
  BY <1>1, <1>2, <1>4, <1>5, StatementType DEF DeleteStarted, Dep, Type

-----------------------------------------------------------------------------
(* The statements of a DEPLOY.                                             *)

\* What remains to be shown of a statement.
Achieved(w) ==
    /\ Held(w) /\ Progress(w)
    /\ secret \subseteq ImageBacked
    /\ DeletedByTask /\ ActiveIsServing /\ UndeployedMeansGone

\* A statement that only looks.
LEMMA LookAchieves ==
    ASSUME PipelineInvariant, NEW w \in Workers,
           FetchSpec(w) \/ AwaitAvailable(w) \/ AwaitReady(w)
    PROVE  Achieved(w)'
<1>1. pc[w] \in BusySteps /\ Statement(w)
  BY DEF FetchSpec, AwaitAvailable, AwaitReady, BusySteps, TrySteps, DeploySteps, Statement
<1>2. Held(w) /\ Progress(w) /\ TypeOK
  BY <1>1, BusyFacts
<1>3. tasks' = tasks /\ current' = current /\ Dep(w)' = Dep(w) /\ Type(w)' = Type(w)
  BY <1>1, StatementTables
<1>4. UNCHANGED <<status, workload, service, secret>>
  BY DEF FetchSpec, AwaitAvailable, AwaitReady, database, kubernetes
<1>5. \/ pc[w] = "fetch" /\ Type(w) = "DEPLOY" /\ pc'[w] = "markDeploying"
      \/ pc[w] = "fetch" /\ Type(w) # "DEPLOY" /\ pc'[w] = "markDeleting"
      \/ pc[w] = "awaitAvailable" /\ pc'[w] = "awaitReady"
      \/ pc[w] = "awaitReady" /\ pc'[w] = "markActive"
      \/ pc'[w] = "markFailed"
  BY <1>2 DEF FetchSpec, AwaitAvailable, AwaitReady, Proceed, Raise, TypeOK
<1>6. Type(w) \in {"DEPLOY", "DELETE"}
  BY <1>1, <1>2, HeldTaskType
<1>7. Held(w)' /\ Progress(w)'
  BY <1>2, <1>3, <1>4, <1>5, <1>6
     DEF Held, Progress, Gone, DeploySteps, DeleteSteps
<1> QED
  BY <1>3, <1>4, <1>7
     DEF Achieved, PipelineInvariant, DeletedByTask, DeleteStarted, ActiveIsServing,
         Serving, UndeployedMeansGone, Undeployed, Gone

\* A statement of a DEPLOY that changes no status.
LEMMA ApplyAchieves ==
    ASSUME PipelineInvariant, OwnName, NEW w \in Workers,
           ApplySecret(w) \/ ApplyDeployment(w) \/ ApplyService(w)
    PROVE  Achieved(w)'
<1> DEFINE d == Dep(w)
           n == WorkloadName[d]
<1>1. pc[w] \in BusySteps /\ pc[w] \in DeploySteps /\ Statement(w)
  BY DEF ApplySecret, ApplyDeployment, ApplyService, BusySteps, TrySteps, DeploySteps,
         Statement
<1>2. /\ Held(w) /\ Progress(w) /\ TypeOK /\ d \in Deployments /\ n \in ObjectNames
      /\ Type(w) = "DEPLOY"
  BY <1>1, BusyFacts DEF Held
<1>3. ~Undeployed(d)
  BY <1>1, <1>2, DeployingFacts
<1>4. tasks' = tasks /\ current' = current /\ Dep(w)' = d /\ Type(w)' = "DEPLOY"
  BY <1>1, <1>2, StatementTables
<1>5. status' = status
  BY DEF ApplySecret, ApplyDeployment, ApplyService, database
<1>6. /\ \A e \in Deployments : e # d => WorkloadName[e] # n
      /\ \A e \in Deployments : WorkloadName[e] \in ObjectNames
  BY <1>2, PipelineAssumption DEF OwnName, PipelineAssumption
<1>7. /\ \A e \in Deployments : e # d => /\ workload'[WorkloadName[e]] = workload[WorkloadName[e]]
                                         /\ service'[WorkloadName[e]] = service[WorkloadName[e]]
                                         /\ e \in secret' <=> e \in secret
      /\ workload'[n] = workload[n] \/ workload'[n] = d
      /\ service'[n] = service[n] \/ service'[n] = d
  BY <1>2, <1>6 DEF ApplySecret, ApplyDeployment, ApplyService, TypeOK
<1>8. Held(w)' /\ Progress(w)'
  <2>1. \/ pc[w] = "applySecret" /\ pc'[w] = "applyDeployment"
        \/ pc[w] = "applyDeployment" /\ pc'[w] = "applyService" /\ workload'[n] = d
        \/ pc[w] = "applyService" /\ pc'[w] = "awaitAvailable"
             /\ service'[n] = d /\ workload' = workload
        \/ pc'[w] = "markFailed"
    BY <1>2 DEF ApplySecret, ApplyDeployment, ApplyService, Proceed, Raise, TypeOK
  <2> QED
    BY <1>2, <1>4, <2>1 DEF Held, Progress, DeploySteps, DeleteSteps
<1>9. secret' \subseteq ImageBacked
  BY <1>2 DEF ApplySecret, ApplyDeployment, ApplyService, Progress, PipelineInvariant
<1>10. DeletedByTask'
  BY <1>4, <1>5 DEF PipelineInvariant, DeletedByTask, DeleteStarted
<1>11. ActiveIsServing'
  BY <1>5, <1>7 DEF PipelineInvariant, ActiveIsServing, Serving
<1>12. UndeployedMeansGone'
  BY <1>3, <1>4, <1>5, <1>7 DEF PipelineInvariant, UndeployedMeansGone, Undeployed, Gone
<1> QED
  BY <1>8, <1>9, <1>10, <1>11, <1>12 DEF Achieved

\* A statement of a DEPLOY that records a status.
LEMMA RecordAchieves ==
    ASSUME PipelineInvariant, NEW w \in Workers, MarkDeploying(w) \/ MarkActive(w)
    PROVE  Achieved(w)'
<1> DEFINE d == Dep(w)
<1>1. pc[w] \in BusySteps /\ pc[w] \in DeploySteps /\ Statement(w)
  BY DEF MarkDeploying, MarkActive, BusySteps, TrySteps, DeploySteps, Statement
<1>2. /\ Held(w) /\ Progress(w) /\ TypeOK /\ d \in Deployments
      /\ Type(w) = "DEPLOY"
  BY <1>1, BusyFacts DEF Held
<1>3. tasks' = tasks /\ current' = current /\ Dep(w)' = d /\ Type(w)' = "DEPLOY"
  BY <1>1, <1>2, StatementTables
<1>4. UNCHANGED <<workload, service, secret>>
  BY DEF MarkDeploying, MarkActive, kubernetes
<1>5. \A e \in Deployments :
         \/ status'[e] = status[e]
         \/ e = d /\ status'[e] = "DEPLOYING"
         \/ e = d /\ status'[e] = "ACTIVE" /\ pc[w] = "markActive"
  BY <1>2, StatusFrame DEF MarkDeploying, MarkActive, RowStatus
<1>6. \/ pc'[w] = "applySecret" /\ d \in ImageBacked
      \/ pc'[w] \in {"applyDeployment", "complete", "markFailed"}
  BY <1>2 DEF MarkDeploying, MarkActive, Proceed, TypeOK
<1>7. Held(w)' /\ Progress(w)'
  BY <1>2, <1>3, <1>6 DEF Held, Progress, DeploySteps, DeleteSteps
<1>8. DeletedByTask'
  BY <1>3, <1>5 DEF PipelineInvariant, DeletedByTask, DeleteStarted
<1>9. ActiveIsServing'
  BY <1>2, <1>4, <1>5 DEF PipelineInvariant, ActiveIsServing, Serving, Progress
<1>10. UndeployedMeansGone'
  BY <1>3, <1>4, <1>5 DEF PipelineInvariant, UndeployedMeansGone, Undeployed, Gone
<1> QED
  BY <1>4, <1>7, <1>8, <1>9, <1>10 DEF Achieved, PipelineInvariant

-----------------------------------------------------------------------------
(* The statements of a DELETE.                                             *)

LEMMA MarkDeletingAchieves ==
    ASSUME PipelineInvariant, NEW w \in Workers, MarkDeleting(w)
    PROVE  Achieved(w)'
<1> DEFINE d == Dep(w)
<1>1. pc[w] \in BusySteps /\ pc[w] \in DeleteSteps /\ Statement(w)
  BY DEF MarkDeleting, BusySteps, TrySteps, DeleteSteps, Statement
<1>2. /\ Held(w) /\ Progress(w) /\ TypeOK /\ d \in Deployments /\ Type(w) = "DELETE"
  BY <1>1, BusyFacts DEF Held
<1>3. tasks' = tasks /\ current' = current /\ Dep(w)' = d /\ Type(w)' = "DELETE"
  BY <1>1, <1>2, StatementTables
<1>4. UNCHANGED <<workload, service, secret>>
  BY DEF MarkDeleting, kubernetes
<1>5. \A e \in Deployments : /\ status'[e] = status[e] \/ status'[e] = "DELETING"
                             /\ status'[d] # "ACTIVE"
  BY <1>2, StatusFrame DEF MarkDeleting, RowStatus, HasRow
<1>6. pc'[w] \in {"deleteDeployment", "markFailed"}
  BY <1>2 DEF MarkDeleting, Proceed, TypeOK
<1>7. Held(w)' /\ Progress(w)'
  BY <1>2, <1>3, <1>5, <1>6 DEF Held, Progress, DeploySteps, DeleteSteps
<1>8. DeletedByTask'
  BY <1>3, <1>5 DEF PipelineInvariant, DeletedByTask, DeleteStarted
<1>9. ActiveIsServing'
  BY <1>4, <1>5 DEF PipelineInvariant, ActiveIsServing, Serving
<1>10. UndeployedMeansGone'
  BY <1>3, <1>4, <1>5 DEF PipelineInvariant, UndeployedMeansGone, Undeployed, Gone
<1> QED
  BY <1>4, <1>7, <1>8, <1>9, <1>10 DEF Achieved, PipelineInvariant

LEMMA RemoveAchieves ==
    ASSUME PipelineInvariant, OwnName, NEW w \in Workers,
           DeleteDeployment(w) \/ DeleteService(w) \/ DeleteSecret(w)
    PROVE  Achieved(w)'
<1> DEFINE d == Dep(w)
           n == WorkloadName[d]
<1>1. pc[w] \in BusySteps /\ pc[w] \in DeleteSteps /\ Statement(w)
  BY DEF DeleteDeployment, DeleteService, DeleteSecret, BusySteps, TrySteps, DeleteSteps,
         Statement
<1>2. /\ Held(w) /\ Progress(w) /\ TypeOK /\ d \in Deployments /\ n \in ObjectNames
      /\ Type(w) = "DELETE"
  BY <1>1, BusyFacts DEF Held
<1>3. tasks' = tasks /\ current' = current /\ Dep(w)' = d /\ Type(w)' = "DELETE"
  BY <1>1, <1>2, StatementTables
<1>4. status' = status
  BY DEF DeleteDeployment, DeleteService, DeleteSecret, database
<1>5. status[d] # "ACTIVE"
  BY <1>2 DEF DeleteDeployment, DeleteService, DeleteSecret, Progress
<1>6. /\ \A e \in Deployments : e # d => WorkloadName[e] # n
      /\ \A e \in Deployments : WorkloadName[e] \in ObjectNames
  BY <1>2, PipelineAssumption DEF OwnName, PipelineAssumption
<1>7. NoOne \notin Deployments
  BY PipelineAssumption DEF PipelineAssumption
<1>8. /\ \A e \in Deployments : e # d => /\ workload'[WorkloadName[e]] = workload[WorkloadName[e]]
                                         /\ service'[WorkloadName[e]] = service[WorkloadName[e]]
      /\ secret' \subseteq secret
      /\ workload'[n] = workload[n] \/ workload'[n] # d
      /\ service'[n] = service[n] \/ service'[n] # d
  BY <1>2, <1>6, <1>7 DEF DeleteDeployment, DeleteService, DeleteSecret, TypeOK
<1>9. Held(w)' /\ Progress(w)'
  <2>1. \/ pc'[w] = "deleteService" /\ workload'[n] # d
        \/ pc'[w] = "deleteSecret" /\ workload'[n] # d /\ service'[n] # d
        \/ pc'[w] = "markDeleted" /\ workload'[n] # d /\ service'[n] # d
             /\ (d \notin ImageBacked \/ d \notin secret')
        \/ pc'[w] = "markFailed"
    BY <1>2, <1>7
       DEF DeleteDeployment, DeleteService, DeleteSecret, Proceed, TypeOK, Progress
  <2>2. d \notin ImageBacked => d \notin secret'
    BY <1>8 DEF PipelineInvariant
  <2> QED
    BY <1>2, <1>3, <1>4, <1>5, <2>1, <2>2 DEF Held, Progress, DeploySteps, DeleteSteps
<1>10. DeletedByTask'
  BY <1>3, <1>4 DEF PipelineInvariant, DeletedByTask, DeleteStarted
<1>11. ActiveIsServing'
  BY <1>4, <1>5, <1>8 DEF PipelineInvariant, ActiveIsServing, Serving
<1>12. UndeployedMeansGone'
  BY <1>3, <1>4, <1>8 DEF PipelineInvariant, UndeployedMeansGone, Undeployed, Gone
<1> QED
  BY <1>8, <1>9, <1>10, <1>11, <1>12 DEF Achieved, PipelineInvariant

LEMMA MarkDeletedAchieves ==
    ASSUME PipelineInvariant, NEW w \in Workers, MarkDeleted(w)
    PROVE  Achieved(w)'
<1> DEFINE d == Dep(w)
<1>1. pc[w] \in BusySteps /\ pc[w] \in DeleteSteps /\ Statement(w) /\ pc[w] = "markDeleted"
  BY DEF MarkDeleted, BusySteps, TrySteps, DeleteSteps, Statement
<1>2. /\ Held(w) /\ Progress(w) /\ TypeOK /\ d \in Deployments /\ Type(w) = "DELETE"
      /\ current[w] \in DOMAIN tasks
  BY <1>1, BusyFacts DEF Held
<1>3. tasks' = tasks /\ current' = current /\ Dep(w)' = d /\ Type(w)' = "DELETE"
  BY <1>1, <1>2, StatementTables
<1>4. UNCHANGED <<workload, service, secret>>
  BY DEF MarkDeleted, kubernetes
<1>5. \A e \in Deployments :
         status'[e] = status[e] \/ (e = d /\ HasRow(d) /\ status'[e] = "DELETED")
  BY <1>2, StatusFrame DEF MarkDeleted, RowStatus
<1>6. pc'[w] \in {"complete", "markFailed"}
  BY <1>2 DEF MarkDeleted, Proceed, TypeOK
<1>7. Gone(d)
  BY <1>1, <1>2 DEF Progress, Gone
<1>8. Held(w)' /\ Progress(w)'
  BY <1>2, <1>3, <1>4, <1>6, <1>7 DEF Held, Progress, Gone, DeploySteps, DeleteSteps
<1>9. HasRow(d) => DeleteStarted(d)
  <2>1. HasRow(d) => tasks[current[w]].st # "GONE"
    BY <1>2 DEF PipelineInvariant, TaskTable, HasRow, RowStatus, Dep
  <2> QED
    BY <1>2, <2>1 DEF DeleteStarted, Held, Dep, Type
<1>10. DeletedByTask'
  BY <1>3, <1>5, <1>9 DEF PipelineInvariant, DeletedByTask, DeleteStarted
<1>11. ActiveIsServing'
  BY <1>4, <1>5 DEF PipelineInvariant, ActiveIsServing, Serving
<1>12. UndeployedMeansGone'
  BY <1>3, <1>4, <1>5, <1>7 DEF PipelineInvariant, UndeployedMeansGone, Undeployed, Gone
<1> QED
  BY <1>4, <1>8, <1>10, <1>11, <1>12 DEF Achieved, PipelineInvariant

\* Every statement of process_task preserves the invariant.
LEMMA StatementStep ==
    ASSUME PipelineInvariant, OneWorker, OwnName, NEW w \in Workers, Statement(w)
    PROVE  PipelineInvariant'
<1>1. Achieved(w)'
  BY LookAchieves, ApplyAchieves, RecordAchieves, MarkDeletingAchieves, RemoveAchieves,
     MarkDeletedAchieves DEF Statement
<1>2. TypeOK' /\ TaskTable' /\ DeployIsOver'
  BY StatementTables
<1>3. HeldTask' /\ WorkerProgress'
  BY <1>1 DEF OneWorker, Achieved, HeldTask, WorkerProgress
<1> QED
  BY <1>1, <1>2, <1>3 DEF Achieved, PipelineInvariant

-----------------------------------------------------------------------------
(* Requests.                                                               *)

\* A worker's progress depends on its own statement and task, on the objects, and on its
\* deployment not becoming ACTIVE.
LEMMA ProgressKept ==
    ASSUME PipelineInvariant, NEW w \in Workers, pc[w] \in BusySteps,
           pc'[w] = pc[w], Dep(w)' = Dep(w), Type(w)' = Type(w),
           UNCHANGED <<workload, service, secret>>,
           status'[Dep(w)] = "ACTIVE" => status[Dep(w)] = "ACTIVE"
    PROVE  Progress(w)'
BY BusyFacts DEF Progress, Gone

LEMMA InsertKeeps ==
    ASSUME PipelineInvariant, TypeOK',
           NEW d \in Deployments, NEW type \in {"DEPLOY", "DELETE"}, InsertTask(d, type),
           UNCHANGED <<workload, service, secret, pc, current>>,
           \A e \in Deployments : e # d => status'[e] = status[e],
           status'[d] \in {"PENDING", "DELETING"}
             \/ (status'[d] = status[d] /\ HasRow(d)),
           \/ type = "DELETE" /\ HasRow(d)
           \/ \A i \in DOMAIN tasks : tasks[i].dep # d
    PROVE  PipelineInvariant'
<1> DEFINE k == Len(tasks) + 1
<1>1. /\ DOMAIN tasks' = 1..k /\ DOMAIN tasks = 1..Len(tasks) /\ Len(tasks) \in Nat
      /\ tasks'[k] = [dep |-> d, type |-> type, st |-> "PENDING"]
      /\ \A i \in DOMAIN tasks : tasks'[i] = tasks[i]
  BY InsertShape DEF PipelineInvariant
<1>2. /\ k \notin DOMAIN tasks /\ k \in DOMAIN tasks'
      /\ \A i \in DOMAIN tasks : i \in DOMAIN tasks' /\ i < k
      /\ \A i \in DOMAIN tasks' : i \in DOMAIN tasks \/ i = k
  BY <1>1
<1>3. tasks'[k].dep = d /\ tasks'[k].type = type /\ tasks'[k].st = "PENDING"
  BY <1>1
<1>4. \A i \in DOMAIN tasks : tasks[i].dep \in Deployments
  BY RowType DEF PipelineInvariant
<1>5. \A e \in Deployments : /\ DeleteStarted(e)' <=> DeleteStarted(e)
                             /\ Undeployed(e)' => Undeployed(e)
  BY <1>1, <1>2, <1>3 DEF DeleteStarted, Undeployed
<1>6. TaskTable'
  <2>1. \A i \in DOMAIN tasks' :
           /\ status'[tasks'[i].dep] # "NONE"
           /\ tasks'[i].st = "GONE" <=> status'[tasks'[i].dep] = "PURGED"
    BY <1>1, <1>2, <1>3, <1>4 DEF PipelineInvariant, TaskTable, HasRow, RowStatus
  <2>2. \A i, j \in DOMAIN tasks' :
           tasks'[i].dep = tasks'[j].dep /\ tasks'[i].type = "DEPLOY"
             /\ tasks'[j].type = "DELETE" => i < j
    BY <1>1, <1>2, <1>3 DEF PipelineInvariant, TaskTable
  <2> QED
    BY <2>1, <2>2 DEF TaskTable
<1>7. \A w \in Workers : pc[w] \in BusySteps =>
        /\ tasks'[current[w]] = tasks[current[w]]
        /\ Dep(w)' = Dep(w) /\ Type(w)' = Type(w) /\ Dep(w) \in Deployments
  BY <1>1, BusyFacts DEF Dep, Type
<1>8. HeldTask'
  BY <1>7 DEF PipelineInvariant, HeldTask, Held
<1>9. DeployIsOver'
  <2>1. \A w \in Workers : current[w] # k
    BY <1>1 DEF PipelineInvariant, TypeOK
  <2>2. ~DeleteStarted(d) \/ type = "DELETE"
    BY DEF DeleteStarted
  <2> QED
    BY <1>1, <1>2, <1>3, <1>4, <1>5, <2>1, <2>2 DEF PipelineInvariant, DeployIsOver
<1>10. \A e \in Deployments : /\ status'[e] = "ACTIVE" => status[e] = "ACTIVE"
                              /\ status'[e] = "DELETED" => status[e] = "DELETED"
  OBVIOUS
<1>11. WorkerProgress'
  BY <1>7, <1>10, ProgressKept DEF WorkerProgress
<1>12. DeletedByTask' /\ ActiveIsServing' /\ UndeployedMeansGone'
  BY <1>5, <1>10
     DEF PipelineInvariant, DeletedByTask, ActiveIsServing, UndeployedMeansGone, Gone,
         Serving
<1> QED
  BY <1>6, <1>8, <1>9, <1>11, <1>12 DEF PipelineInvariant

LEMMA PurgeKeeps ==
    ASSUME PipelineInvariant, TypeOK', NEW d \in Deployments, PurgeDeployment(d)
    PROVE  PipelineInvariant'
<1>1. /\ DOMAIN tasks' = DOMAIN tasks
      /\ \A i \in DOMAIN tasks :
           /\ tasks'[i].dep = tasks[i].dep /\ tasks'[i].type = tasks[i].type
           /\ tasks'[i].st = IF tasks[i].dep = d THEN "GONE" ELSE tasks[i].st
  BY PurgeShape DEF PipelineInvariant
<1>2. /\ UNCHANGED <<workload, service, secret, pc, current>>
      /\ \A e \in Deployments : status'[e] = IF e = d THEN "PURGED" ELSE status[e]
  BY DEF PurgeDeployment, kubernetes, process, PipelineInvariant, TypeOK
<1>3. \A i \in DOMAIN tasks : tasks[i].dep \in Deployments
  BY RowType DEF PipelineInvariant
<1>4. \A e \in Deployments :
        /\ DeleteStarted(e)' => DeleteStarted(e)
        /\ DeleteStarted(e) /\ e # d => DeleteStarted(e)'
        /\ Undeployed(e)' => Undeployed(e)
  BY <1>1, <1>2 DEF DeleteStarted, Undeployed
<1>5. TaskTable'
  BY <1>1, <1>2, <1>3 DEF PipelineInvariant, TaskTable
<1>6. \A w \in Workers : pc[w] \in BusySteps =>
        /\ current[w] \in DOMAIN tasks
        /\ Dep(w)' = Dep(w) /\ Type(w)' = Type(w) /\ Dep(w) \in Deployments
  BY <1>1, <1>2, BusyFacts DEF Dep, Type
<1>7. HeldTask'
  BY <1>1, <1>2, <1>6 DEF PipelineInvariant, HeldTask, Held
<1>8. DeployIsOver'
  BY <1>1, <1>2, <1>3, <1>4 DEF PipelineInvariant, DeployIsOver
<1>9. WorkerProgress'
  BY <1>2, <1>6, ProgressKept DEF WorkerProgress
<1>10. DeletedByTask' /\ ActiveIsServing' /\ UndeployedMeansGone'
  BY <1>2, <1>4
     DEF PipelineInvariant, DeletedByTask, ActiveIsServing, UndeployedMeansGone, Gone,
         Serving
<1> QED
  BY <1>2, <1>5, <1>7, <1>8, <1>9, <1>10 DEF PipelineInvariant

\* Steps that touch neither a row, nor an object, nor a busy worker.
LEMMA QuietKeeps ==
    ASSUME PipelineInvariant, TypeOK',
           UNCHANGED <<status, tasks, workload, service, secret, current>>,
           \A w \in Workers : \/ pc'[w] = pc[w]
                              \/ pc'[w] \notin BusySteps \/ pc'[w] = "markFailed"
    PROVE  PipelineInvariant'
<1>1. \A w \in Workers : pc'[w] \in BusySteps => pc[w] \in BusySteps
  BY DEF PipelineInvariant, TypeOK
<1>2. \A w \in Workers : Dep(w)' = Dep(w) /\ Type(w)' = Type(w)
  BY DEF Dep, Type
<1>3. HeldTask'
  BY <1>1, <1>2 DEF PipelineInvariant, HeldTask, Held, DeploySteps, DeleteSteps
<1>4. WorkerProgress'
  <2> SUFFICES ASSUME NEW w \in Workers, pc'[w] \in BusySteps
               PROVE  Progress(w)'
    BY DEF WorkerProgress
  <2>1. CASE pc'[w] = pc[w]
    BY <1>1, <1>2, <2>1, ProgressKept
  <2>2. CASE pc'[w] = "markFailed"
    BY <2>2 DEF Progress
  <2> QED
    BY <2>1, <2>2
<1> QED
  BY <1>3, <1>4
     DEF PipelineInvariant, TaskTable, DeployIsOver, DeleteStarted, DeletedByTask,
         ActiveIsServing, Serving, UndeployedMeansGone, Undeployed, Gone

LEMMA RequestStep ==
    ASSUME PipelineInvariant, TypeOK', NEW d \in Deployments,
           \/ CreateDeployment(d) \/ PurgeDeployment(d)
           \/ \E c \in Clients : ReadForDelete(c, d) \/ CommitDelete(c)
    PROVE  PipelineInvariant'
<1>1. CASE CreateDeployment(d)
  <2>1. \A i \in DOMAIN tasks : tasks[i].dep # d
    BY <1>1 DEF CreateDeployment, PipelineInvariant, TaskTable
  <2>2. /\ \A e \in Deployments : e # d => status'[e] = status[e]
        /\ status'[d] = "PENDING"
    BY <1>1 DEF CreateDeployment, PipelineInvariant, TypeOK
  <2> QED
    BY <1>1, <2>1, <2>2, InsertKeeps DEF CreateDeployment, kubernetes
<1>2. CASE PurgeDeployment(d)
  BY <1>2, PurgeKeeps
<1>3. ASSUME NEW c \in Clients, ReadForDelete(c, d)
      PROVE  PipelineInvariant'
  BY <1>3, QuietKeeps DEF ReadForDelete, database, kubernetes, process
<1>4. ASSUME NEW c \in Clients, CommitDelete(c)
      PROVE  PipelineInvariant'
  <2> DEFINE e == seen[c].dep
  <2>1. e \in Deployments
    BY <1>4 DEF CommitDelete, PipelineInvariant, TypeOK
  <2>2. UNCHANGED <<workload, service, secret, pc, current>>
    BY <1>4 DEF CommitDelete, kubernetes
  <2>3. CASE HasRow(e) /\ UpdateStatus(c) /\ InsertTask(e, "DELETE")
    <3>1. /\ \A f \in Deployments : f # e => status'[f] = status[f]
          /\ status'[e] = "DELETING" \/ status'[e] = status[e]
      BY <2>1, <2>3 DEF UpdateStatus, PipelineInvariant, TypeOK
    <3> QED
      BY <2>1, <2>2, <2>3, <3>1, InsertKeeps
  <2>4. CASE UNCHANGED <<status, tasks, notes>>
    BY <2>2, <2>4, QuietKeeps
  <2> QED
    BY <1>4, <2>3, <2>4 DEF CommitDelete
<1> QED
  BY <1>1, <1>2, <1>3, <1>4

-----------------------------------------------------------------------------
(* Claiming and settling.                                                  *)

\* The oldest pending task is claimed: when it is a DELETE, the DEPLOY of the same
\* deployment came before it and is no longer pending.
LEMMA ClaimKeeps ==
    ASSUME PipelineInvariant, TypeOK', OneWorker, NEW w \in Workers, ClaimTask(w)
    PROVE  PipelineInvariant'
<1>1. PICK k \in DOMAIN tasks :
          /\ Oldest(k)
          /\ tasks' = [tasks EXCEPT ![k].st = "IN_PROGRESS"]
          /\ current' = [current EXCEPT ![w] = k]
  BY DEF ClaimTask
<1>2. /\ DOMAIN tasks' = DOMAIN tasks
      /\ \A i \in DOMAIN tasks :
           /\ tasks'[i].dep = tasks[i].dep /\ tasks'[i].type = tasks[i].type
           /\ tasks'[i].st = IF i = k THEN "IN_PROGRESS" ELSE tasks[i].st
  BY <1>1, UpdateShape DEF PipelineInvariant, TaskStatus
<1>3. /\ UNCHANGED <<status, workload, service, secret>>
      /\ pc'[w] = "fetch" /\ current'[w] = k /\ \A v \in Workers : v = w
  BY <1>1 DEF ClaimTask, kubernetes, OneWorker, PipelineInvariant, TypeOK
<1>4. tasks[k].st = "PENDING" /\ \A j \in 1..(k - 1) : tasks[j].st # "PENDING"
  BY <1>1 DEF Oldest
<1>5. \A e \in Deployments : /\ DeleteStarted(e) => DeleteStarted(e)'
                             /\ Undeployed(e)' => Undeployed(e)
  BY <1>2, <1>3, <1>4 DEF DeleteStarted, Undeployed
<1>6. TaskTable'
  BY <1>2, <1>3, <1>4 DEF PipelineInvariant, TaskTable
<1>7. HeldTask'
  BY <1>2, <1>3 DEF HeldTask, Held, DeploySteps, DeleteSteps
<1>8. DeployIsOver'
  <2> SUFFICES ASSUME NEW j \in DOMAIN tasks, tasks[j].type = "DEPLOY",
                      NEW i \in DOMAIN tasks, tasks[i].dep = tasks[j].dep,
                      tasks[i].type = "DELETE",
                      tasks'[i].st \in {"IN_PROGRESS", "COMPLETED", "FAILED"}
               PROVE  tasks'[j].st # "PENDING" /\ k # j
    BY <1>2, <1>3 DEF DeployIsOver, DeleteStarted
  <2>1. CASE i = k
    <3>1. tasks \in Seq(Task) /\ TaskTable
      BY DEF PipelineInvariant, TypeOK
    <3>2. j \in Nat /\ k \in Nat /\ 1 <= j
      BY <3>1
    <3>3. j < k
      BY <2>1, <3>1 DEF TaskTable
    <3>4. j \in 1..(k - 1)
      BY <3>2, <3>3
    <3> QED
      BY <1>2, <1>4, <3>3, <3>4
  <2>2. CASE i # k
    <3>1. DeleteStarted(tasks[j].dep)
      BY <1>2, <2>2 DEF DeleteStarted
    <3> QED
      BY <1>2, <1>4, <3>1 DEF PipelineInvariant, DeployIsOver
  <2> QED
    BY <2>1, <2>2
<1>9. WorkerProgress'
  BY <1>3 DEF WorkerProgress, Progress
<1>10. DeletedByTask' /\ ActiveIsServing' /\ UndeployedMeansGone'
  BY <1>3, <1>5
     DEF PipelineInvariant, DeletedByTask, ActiveIsServing, UndeployedMeansGone, Gone,
         Serving
<1> QED
  BY <1>3, <1>6, <1>7, <1>8, <1>9, <1>10 DEF PipelineInvariant

\* The outcome of the task the worker holds; a DELETE that completes has removed all.
LEMMA SettleKeeps ==
    ASSUME PipelineInvariant, TypeOK', OneWorker, NEW w \in Workers, pc[w] \in BusySteps,
           NEW st \in {"COMPLETED", "FAILED"}, SettleTask(w, st),
           st = "COMPLETED" => pc[w] = "complete",
           UNCHANGED <<status, workload, service, secret>>,
           \/ pc'[w] = "claim" /\ current' = [current EXCEPT ![w] = 0]
           \/ pc'[w] = "markFailed" /\ st = "COMPLETED" /\ current' = current
    PROVE  PipelineInvariant'
<1> DEFINE k == current[w]
<1>1. /\ TypeOK /\ Held(w) /\ Progress(w) /\ k \in DOMAIN tasks
      /\ Dep(w) \in Deployments
  BY BusyFacts
<1>2. /\ DOMAIN tasks' = DOMAIN tasks
      /\ \A i \in DOMAIN tasks :
           /\ tasks'[i].dep = tasks[i].dep /\ tasks'[i].type = tasks[i].type
           /\ i # k => tasks'[i].st = tasks[i].st
      /\ tasks'[k].st = IF tasks[k].st = "GONE" THEN "GONE" ELSE st
  BY <1>1, SettleShape DEF TaskStatus
<1>3. \A v \in Workers : v = w
  BY DEF OneWorker
<1>4. tasks[k].st \in {"IN_PROGRESS", "COMPLETED", "GONE"}
  BY <1>1 DEF Held
<1>5. \A e \in Deployments : DeleteStarted(e)' <=> DeleteStarted(e)
  BY <1>1, <1>2, <1>4 DEF DeleteStarted
<1>6. \A e \in Deployments : Undeployed(e)' => Undeployed(e) \/ (e = Dep(w) /\ Gone(e))
  BY <1>1, <1>2 DEF Undeployed, Progress, Dep, Type
<1>7. TaskTable'
  BY <1>1, <1>2, <1>4 DEF PipelineInvariant, TaskTable
<1>8. \A i \in DOMAIN tasks : tasks[i].dep \in Deployments
  BY <1>1, RowType
<1>9. DeployIsOver'
  <2>1. \A j \in DOMAIN tasks : current[w] # j => current'[w] # j
    BY <1>1 DEF TypeOK
  <2> QED
    BY <1>2, <1>3, <1>5, <1>8, <2>1 DEF PipelineInvariant, DeployIsOver
<1>10. HeldTask' /\ WorkerProgress'
  <2>1. CASE pc'[w] = "claim"
    BY <1>3, <2>1
       DEF HeldTask, WorkerProgress, BusySteps, TrySteps, DeploySteps, DeleteSteps
  <2>2. CASE pc'[w] = "markFailed" /\ st = "COMPLETED" /\ current' = current
    BY <1>2, <1>3, <2>2
       DEF HeldTask, Held, WorkerProgress, Progress, DeploySteps, DeleteSteps
  <2> QED
    BY <2>1, <2>2
<1>11. DeletedByTask' /\ ActiveIsServing' /\ UndeployedMeansGone'
  BY <1>5, <1>6
     DEF PipelineInvariant, DeletedByTask, ActiveIsServing, UndeployedMeansGone, Gone,
         Serving
<1> QED
  BY <1>7, <1>9, <1>10, <1>11 DEF PipelineInvariant

LEMMA MarkFailedKeeps ==
    ASSUME PipelineInvariant, TypeOK', OneWorker, NEW w \in Workers, MarkFailed(w)
    PROVE  PipelineInvariant'
<1>1. pc[w] \in BusySteps
  BY DEF MarkFailed, BusySteps
<1>2. TypeOK /\ Held(w) /\ current[w] \in DOMAIN tasks /\ Dep(w) \in Deployments
  BY <1>1, BusyFacts
<1>3. /\ UNCHANGED <<tasks, current, workload, service, secret>>
      /\ pc'[w] = "recordFailure" /\ \A v \in Workers : v = w
  BY <1>2 DEF MarkFailed, Working, kubernetes, TypeOK, OneWorker
<1>4. \A e \in Deployments :
        /\ status'[e] = status[e] \/ status'[e] = "FAILED"
        /\ status'[e] = "NONE" <=> status[e] = "NONE"
        /\ status'[e] = "PURGED" <=> status[e] = "PURGED"
  BY <1>2, StatusFrame DEF MarkFailed, RowStatus
<1>5. \A i \in DOMAIN tasks : tasks[i].dep \in Deployments
  BY <1>2, RowType
<1>6. TaskTable'
  BY <1>3, <1>4, <1>5 DEF PipelineInvariant, TaskTable
<1>7. HeldTask' /\ WorkerProgress'
  BY <1>2, <1>3 DEF HeldTask, Held, WorkerProgress, Progress, DeploySteps, DeleteSteps
<1> QED
  BY <1>3, <1>4, <1>6, <1>7
     DEF PipelineInvariant, DeployIsOver, DeleteStarted, DeletedByTask, ActiveIsServing,
         UndeployedMeansGone, Undeployed, Gone, Serving

\* A death lets go of the task and touches nothing else.
LEMMA DieKeeps ==
    ASSUME PipelineInvariant, TypeOK', OneWorker, NEW w \in Workers, Die(w)
    PROVE  PipelineInvariant'
<1>1. /\ UNCHANGED <<status, tasks, workload, service, secret>>
      /\ pc'[w] = "off" /\ current'[w] = 0 /\ \A v \in Workers : v = w
  BY DEF Die, database, kubernetes, PipelineInvariant, TypeOK, OneWorker
<1>2. 0 \notin DOMAIN tasks
  BY DEF PipelineInvariant, TypeOK
<1>3. DeployIsOver'
  BY <1>1, <1>2 DEF PipelineInvariant, DeployIsOver, DeleteStarted
<1>4. HeldTask' /\ WorkerProgress'
  BY <1>1 DEF HeldTask, WorkerProgress, BusySteps, TrySteps, DeploySteps, DeleteSteps
<1> QED
  BY <1>1, <1>3, <1>4
     DEF PipelineInvariant, TaskTable, DeleteStarted, DeletedByTask, ActiveIsServing,
         UndeployedMeansGone, Undeployed, Gone, Serving

LEMMA WorkerKeeps ==
    ASSUME PipelineInvariant, TypeOK', OneWorker, OwnName, NEW w \in Workers,
           WorkerStep(w) \/ StepRaises(w) \/ Die(w) \/ BreakListen(w)
    PROVE  PipelineInvariant'
<1> USE DEF PipelineInvariant, TypeOK
<1>1. CASE StartWorker(w) \/ NothingToClaim(w) \/ Subscribe(w) \/ WakeUp(w)
  <2>1. /\ UNCHANGED <<status, tasks, workload, service, secret, current>>
        /\ \E t \in {"claim", "subscribe", "wait"} : pc' = [pc EXCEPT ![w] = t]
    BY <1>1 DEF StartWorker, NothingToClaim, Subscribe, WakeUp, database, kubernetes
  <2>2. \A v \in Workers : pc'[v] = pc[v] \/ pc'[v] \notin BusySteps
    BY <2>1 DEF BusySteps, TrySteps, DeploySteps, DeleteSteps
  <2> QED
    BY <2>1, <2>2, QuietKeeps
<1>2. CASE ClaimTask(w)
  BY <1>2, ClaimKeeps
<1>3. CASE Statement(w)
  BY <1>3, StatementStep
<1>4. CASE CompleteTask(w)
  <2>1. /\ pc[w] = "complete" /\ SettleTask(w, "COMPLETED")
        /\ UNCHANGED <<status, workload, service, secret>>
    BY <1>4 DEF CompleteTask, kubernetes
  <2>2. pc[w] \in BusySteps
    BY <2>1 DEF BusySteps, TrySteps, DeploySteps, DeleteSteps
  <2>3. \/ pc'[w] = "claim" /\ current' = [current EXCEPT ![w] = 0]
        \/ pc'[w] = "markFailed" /\ current' = current
    BY <1>4 DEF CompleteTask, NextTask
  <2> HIDE DEF PipelineInvariant, TypeOK
  <2> QED
    BY <2>1, <2>2, <2>3, SettleKeeps
<1>5. CASE RecordFailure(w)
  <2>1. /\ pc[w] = "recordFailure" /\ SettleTask(w, "FAILED")
        /\ UNCHANGED <<status, workload, service, secret>>
    BY <1>5 DEF RecordFailure, kubernetes
  <2>2. pc[w] \in BusySteps
    BY <2>1 DEF BusySteps, TrySteps, DeploySteps, DeleteSteps
  <2>3. pc'[w] = "claim" /\ current' = [current EXCEPT ![w] = 0]
    BY <1>5 DEF RecordFailure, NextTask
  <2> HIDE DEF PipelineInvariant, TypeOK
  <2> QED
    BY <2>1, <2>2, <2>3, SettleKeeps
<1>6. CASE MarkFailed(w)
  BY <1>6, MarkFailedKeeps
<1>7. CASE StepRaises(w) \/ BreakListen(w)
  <2>1. /\ UNCHANGED <<status, tasks, workload, service, secret, current>>
        /\ pc' = pc \/ pc' = [pc EXCEPT ![w] = "markFailed"]
    BY <1>7 DEF StepRaises, BreakListen, Working, database, kubernetes
  <2> QED
    BY <2>1, QuietKeeps
<1>8. CASE Die(w)
  BY <1>8, DieKeeps
<1> QED
  BY <1>1, <1>2, <1>3, <1>4, <1>5, <1>6, <1>7, <1>8 DEF WorkerStep, ProcessTask, Statement

-----------------------------------------------------------------------------

LEMMA InvariantStep ==
    ASSUME PipelineInvariant, OneWorker, OwnName, [Next]_vars
    PROVE  PipelineInvariant'
<1>1. TypeOK'
  BY TypeStep DEF PipelineInvariant
<1>2. ASSUME NEW d \in Deployments,
             \/ CreateDeployment(d) \/ PurgeDeployment(d)
             \/ \E c \in Clients : ReadForDelete(c, d)
      PROVE  PipelineInvariant'
  BY <1>1, <1>2, RequestStep
<1>3. ASSUME NEW c \in Clients, CommitDelete(c)
      PROVE  PipelineInvariant'
  <2>1. seen[c].dep \in Deployments
    BY <1>3 DEF CommitDelete, PipelineInvariant, TypeOK
  <2> QED
    BY <1>1, <1>3, <2>1, RequestStep
<1>4. ASSUME NEW w \in Workers,
             WorkerStep(w) \/ StepRaises(w) \/ Die(w) \/ BreakListen(w)
      PROVE  PipelineInvariant'
  BY <1>1, <1>4, WorkerKeeps
<1>5. CASE UNCHANGED vars
  BY <1>1, <1>5, QuietKeeps DEF vars
<1> QED
  BY <1>2, <1>3, <1>4, <1>5 DEF Next

LEMMA InvariantInit == Init => PipelineInvariant
<1> SUFFICES ASSUME Init PROVE PipelineInvariant
  OBVIOUS
<1>1. TypeOK
  BY TypeInit
<1>2. /\ DOMAIN tasks = {} /\ secret = {}
      /\ \A d \in Deployments : status[d] = "NONE"
      /\ \A w \in Workers : pc[w] \notin BusySteps
  BY DEF Init, BusySteps, TrySteps, DeploySteps, DeleteSteps
<1> QED
  BY <1>1, <1>2
     DEF PipelineInvariant, TaskTable, HeldTask, DeployIsOver, WorkerProgress,
         DeletedByTask, ActiveIsServing, UndeployedMeansGone, Undeployed

\* With one worker and names of their own, whatever requests, crashes, failing calls and
\* lost answers interleave, the task table, the status and the cluster agree.
THEOREM InvariantCorrect ==
    ASSUME OneWorker, OwnName
    PROVE  Spec => []PipelineInvariant
<1>1. PipelineInvariant /\ [Next]_vars => PipelineInvariant'
  BY InvariantStep
<1> QED
  BY InvariantInit, <1>1, PTL DEF Spec

\* A deployment the gateway routes to always has its Deployment and its Service.
THEOREM RoutableCorrect ==
    ASSUME OneWorker, OwnName
    PROVE  Spec => []RoutableHasWorkload
<1>1. PipelineInvariant => RoutableHasWorkload
  BY DEF PipelineInvariant, ActiveIsServing, RoutableHasWorkload, Routable
<1> QED
  BY InvariantCorrect, <1>1, PTL

\* What was undeployed stays gone.
THEOREM UndeployCorrect ==
    ASSUME OneWorker, OwnName
    PROVE  Spec => []UndeployedMeansGone
<1>1. PipelineInvariant => UndeployedMeansGone
  BY DEF PipelineInvariant
<1> QED
  BY InvariantCorrect, <1>1, PTL

-----------------------------------------------------------------------------
(* The status column.                                                      *)

\* While a worker processes a task of a deployment, no DEPLOY of it waits.
LEMMA WaitingIsIdle ==
    ASSUME PipelineInvariant, StatusInvariant, NEW w \in Workers, pc[w] \in BusySteps,
           NEW i \in DOMAIN tasks, tasks[i].type = "DEPLOY", tasks[i].st = "PENDING"
    PROVE  tasks[i].dep # Dep(w)
<1> SUFFICES ASSUME tasks[i].dep = Dep(w) PROVE FALSE
  OBVIOUS
<1>1. Held(w) /\ current[w] \in DOMAIN tasks /\ Dep(w) \in Deployments
  BY BusyFacts
<1>2. Type(w) \in {"DEPLOY", "DELETE"}
  BY HeldTaskType DEF PipelineInvariant
<1>3. CASE Type(w) = "DEPLOY"
  BY <1>1, <1>3 DEF StatusInvariant, Held, Dep, Type
<1>4. CASE Type(w) = "DELETE"
  <2>1. tasks[current[w]].st # "GONE"
    BY <1>1 DEF PipelineInvariant, TaskTable, Dep
  <2>2. DeleteStarted(Dep(w))
    BY <1>1, <1>4, <2>1 DEF DeleteStarted, Held, Dep, Type
  <2> QED
    BY <2>2 DEF PipelineInvariant, DeployIsOver
<1> QED
  BY <1>2, <1>3, <1>4

\* A statement of process_task finds the status the previous one left, or an undeploy
\* request or a purge that came between.
LEMMA StatementExpected ==
    ASSUME PipelineInvariant, StatusInvariant, NEW w \in Workers,
           Statement(w) \/ MarkFailed(w)
    PROVE  Expected(w)'
<1> DEFINE d == Dep(w)
<1>1. pc[w] \in BusySteps
  BY StatementShape DEF PipelineInvariant, MarkFailed, BusySteps
<1>2. /\ Held(w) /\ TypeOK /\ d \in Deployments
      /\ Type(w) \in {"DEPLOY", "DELETE"} /\ Expected(w)
  BY <1>1, BusyFacts, HeldTaskType DEF StatusInvariant
<1>3. status[d] # "NONE"
  BY <1>1, BusyFacts DEF PipelineInvariant, TaskTable, Dep
<1>4. Dep(w)' = d /\ Type(w)' = Type(w)
  <2>1. tasks' = tasks /\ current' = current
    BY <1>2, StatementShape DEF MarkFailed, Working
  <2> QED
    BY <2>1 DEF Dep, Type
<1>5. CASE FetchSpec(w)
  BY <1>2, <1>4, <1>5
     DEF FetchSpec, Proceed, Raise, Expected, database, TypeOK, DeploySteps, DeleteSteps
<1>6. CASE MarkDeploying(w) \/ MarkDeleting(w)
  <2>1. /\ HasRow(d) => \/ MarkDeploying(w) /\ status'[d] = "DEPLOYING"
                        \/ MarkDeleting(w) /\ status'[d] = "DELETING"
        /\ ~HasRow(d) => status'[d] = "PURGED"
    BY <1>2, <1>3, <1>6, StatusFrame
       DEF MarkDeploying, MarkDeleting, SetStatus, RowStatus, HasRow, TypeOK
  <2>2. \/ MarkDeploying(w) /\ pc'[w] \in {"applySecret", "applyDeployment", "markFailed"}
        \/ MarkDeleting(w) /\ pc'[w] \in {"deleteDeployment", "markFailed"}
    BY <1>2, <1>6 DEF MarkDeploying, MarkDeleting, Proceed, TypeOK
  <2>3. ~(MarkDeploying(w) /\ MarkDeleting(w))
    BY DEF MarkDeploying, MarkDeleting
  <2> QED
    BY <1>4, <2>1, <2>2, <2>3 DEF Expected, DeploySteps, DeleteSteps
<1>7. CASE MarkActive(w) \/ MarkDeleted(w) \/ MarkFailed(w)
  <2>1. pc'[w] \in {"complete", "markFailed", "recordFailure"}
    BY <1>2, <1>7 DEF MarkActive, MarkDeleted, MarkFailed, Proceed, TypeOK
  <2> QED
    BY <2>1 DEF Expected, DeploySteps, DeleteSteps
<1>8. CASE ApplySecret(w) \/ ApplyDeployment(w) \/ ApplyService(w)
              \/ AwaitAvailable(w) \/ AwaitReady(w)
  <2>1. /\ status' = status
        /\ pc[w] \in {"applySecret", "applyDeployment", "applyService",
                      "awaitAvailable", "awaitReady"}
        /\ pc'[w] \in {"applyDeployment", "applyService", "awaitAvailable", "awaitReady",
                       "markActive", "markFailed"}
    BY <1>2, <1>8
       DEF ApplySecret, ApplyDeployment, ApplyService, AwaitAvailable, AwaitReady,
           Proceed, Raise, TypeOK, database
  <2> QED
    BY <1>2, <1>4, <2>1 DEF Expected, DeploySteps, DeleteSteps
<1>9. CASE DeleteDeployment(w) \/ DeleteService(w) \/ DeleteSecret(w)
  <2>1. /\ status' = status
        /\ pc[w] \in {"deleteDeployment", "deleteService", "deleteSecret"}
        /\ pc'[w] \in {"deleteService", "deleteSecret", "markDeleted", "markFailed"}
    BY <1>2, <1>9
       DEF DeleteDeployment, DeleteService, DeleteSecret, Proceed, TypeOK, database
  <2> QED
    BY <1>2, <1>4, <2>1 DEF Expected, DeploySteps, DeleteSteps
<1> QED
  BY <1>5, <1>6, <1>7, <1>8, <1>9 DEF Statement

LEMMA StatementStatus ==
    ASSUME PipelineInvariant, StatusInvariant, OneWorker, NEW w \in Workers,
           Statement(w) \/ MarkFailed(w)
    PROVE  StatusInvariant'
<1>1. pc[w] \in BusySteps
  BY StatementShape DEF PipelineInvariant, MarkFailed, BusySteps
<1>2. TypeOK /\ Dep(w) \in Deployments
  BY <1>1, BusyFacts
<1>3. tasks' = tasks
  BY <1>2, StatementShape DEF MarkFailed
<1>4. \A e \in Deployments : e # Dep(w) => status'[e] = status[e]
  <2>1. \/ UNCHANGED status
        \/ \E s \in RowStatus : SetStatus(Dep(w), s)
    BY DEF Statement, FetchSpec, MarkDeploying, ApplySecret, ApplyDeployment,
           ApplyService, AwaitAvailable, AwaitReady, MarkActive, MarkDeleting,
           DeleteDeployment, DeleteService, DeleteSecret, MarkDeleted, MarkFailed,
           database, RowStatus
  <2> QED
    BY <1>2, <2>1, StatusFrame
<1>5. \A i \in DOMAIN tasks : tasks[i].dep \in Deployments
  BY <1>2, RowType
<1>6. Expected(w)'
  BY StatementExpected
<1> QED
  BY <1>1, <1>3, <1>4, <1>5, <1>6, WaitingIsIdle DEF StatusInvariant, OneWorker

\* Steps that change no row: a busy worker stays at its statement or goes to the except
\* clause.
LEMMA QuietStatus ==
    ASSUME PipelineInvariant, StatusInvariant,
           UNCHANGED <<status, tasks, current>>,
           \A w \in Workers : \/ pc'[w] = pc[w]
                              \/ pc'[w] \notin BusySteps \/ pc'[w] = "markFailed"
    PROVE  StatusInvariant'
<1> SUFFICES ASSUME NEW w \in Workers, pc'[w] \in BusySteps
             PROVE  Expected(w)'
  BY DEF StatusInvariant
<1>1. Dep(w)' = Dep(w) /\ Type(w)' = Type(w)
  BY DEF Dep, Type
<1>2. CASE pc'[w] = pc[w]
  BY <1>1, <1>2 DEF StatusInvariant, Expected
<1>3. CASE pc'[w] = "markFailed"
  BY <1>3 DEF Expected, DeploySteps, DeleteSteps
<1> QED
  BY <1>2, <1>3

LEMMA RequestStatus ==
    ASSUME PipelineInvariant, StatusInvariant, NEW d \in Deployments,
           \/ CreateDeployment(d) \/ PurgeDeployment(d)
           \/ \E c \in Clients : ReadForDelete(c, d) \/ CommitDelete(c)
    PROVE  StatusInvariant'
<1> DEFINE k == Len(tasks) + 1
<1>1. TypeOK /\ \A i \in DOMAIN tasks : tasks[i].dep \in Deployments
  BY RowType DEF PipelineInvariant
<1>2. ASSUME NEW e \in Deployments, NEW type \in {"DEPLOY", "DELETE"}, InsertTask(e, type),
             UNCHANGED <<pc, current>>,
             \A f \in Deployments : f # e => status'[f] = status[f],
             \/ type = "DEPLOY" /\ status'[e] = "PENDING"
                  /\ \A i \in DOMAIN tasks : tasks[i].dep # e
             \/ type = "DELETE" /\ status'[e] \in {status[e], "DELETING"}
      PROVE  StatusInvariant'
  <2>1. /\ DOMAIN tasks' = 1..k /\ DOMAIN tasks = 1..Len(tasks) /\ Len(tasks) \in Nat
        /\ tasks'[k] = [dep |-> e, type |-> type, st |-> "PENDING"]
        /\ \A i \in DOMAIN tasks : tasks'[i] = tasks[i]
    BY <1>1, <1>2, InsertShape
  <2>2. /\ k \notin DOMAIN tasks
        /\ \A i \in DOMAIN tasks' : i \in DOMAIN tasks \/ i = k
        /\ tasks'[k].dep = e /\ tasks'[k].type = type
    BY <2>1
  <2>3. \A w \in Workers : pc[w] \in BusySteps =>
          /\ current[w] \in DOMAIN tasks
          /\ Dep(w)' = Dep(w) /\ Type(w)' = Type(w) /\ Dep(w) \in Deployments
    BY <1>2, <2>1, BusyFacts DEF Dep, Type
  <2>4. \A i, j \in DOMAIN tasks' :
           /\ tasks'[i].dep = tasks'[j].dep
           /\ tasks'[i].type = "DEPLOY" /\ tasks'[j].type = "DEPLOY"
           => i = j
    BY <1>2, <2>1, <2>2 DEF StatusInvariant
  <2>5. \A i \in DOMAIN tasks' :
           tasks'[i].type = "DEPLOY" /\ tasks'[i].st = "PENDING"
               => status'[tasks'[i].dep] \in {"PENDING", "DELETING"}
    BY <1>1, <1>2, <2>1, <2>2 DEF StatusInvariant
  <2>6. \A w \in Workers : pc'[w] \in BusySteps => Expected(w)'
    <3> SUFFICES ASSUME NEW w \in Workers, pc[w] \in BusySteps PROVE Expected(w)'
      BY <1>2
    <3>1. status'[Dep(w)] \in {status[Dep(w)], "DELETING"}
      BY <1>2, <2>3 DEF Dep
    <3> QED
      BY <1>2, <2>3, <3>1 DEF StatusInvariant, Expected
  <2> QED
    BY <2>4, <2>5, <2>6 DEF StatusInvariant
<1>3. CASE CreateDeployment(d)
  <2>1. \A i \in DOMAIN tasks : tasks[i].dep # d
    BY <1>3 DEF CreateDeployment, PipelineInvariant, TaskTable
  <2>2. /\ \A e \in Deployments : e # d => status'[e] = status[e]
        /\ status'[d] = "PENDING"
    BY <1>1, <1>3 DEF CreateDeployment, TypeOK
  <2> QED
    BY <1>2, <1>3, <2>1, <2>2 DEF CreateDeployment
<1>4. CASE PurgeDeployment(d)
  <2>1. /\ DOMAIN tasks' = DOMAIN tasks
        /\ \A i \in DOMAIN tasks :
             /\ tasks'[i].dep = tasks[i].dep /\ tasks'[i].type = tasks[i].type
             /\ tasks'[i].st = IF tasks[i].dep = d THEN "GONE" ELSE tasks[i].st
    BY <1>1, <1>4, PurgeShape
  <2>2. /\ UNCHANGED <<pc, current>>
        /\ \A e \in Deployments : status'[e] = IF e = d THEN "PURGED" ELSE status[e]
    BY <1>1, <1>4 DEF PurgeDeployment, process, TypeOK
  <2>3. \A w \in Workers : pc[w] \in BusySteps => Expected(w)'
    <3> SUFFICES ASSUME NEW w \in Workers, pc[w] \in BusySteps PROVE Expected(w)'
      OBVIOUS
    <3>1. /\ Dep(w)' = Dep(w) /\ Type(w)' = Type(w)
          /\ status'[Dep(w)] \in {status[Dep(w)], "PURGED"}
      BY <2>1, <2>2, BusyFacts DEF Dep, Type
    <3> QED
      BY <2>2, <3>1 DEF StatusInvariant, Expected
  <2> QED
    BY <1>1, <2>1, <2>2, <2>3 DEF StatusInvariant
<1>5. ASSUME NEW c \in Clients, ReadForDelete(c, d)
      PROVE  StatusInvariant'
  BY <1>5, QuietStatus DEF ReadForDelete, database, process
<1>6. ASSUME NEW c \in Clients, CommitDelete(c)
      PROVE  StatusInvariant'
  <2> DEFINE e == seen[c].dep
  <2>1. e \in Deployments /\ UNCHANGED <<pc, current>>
    BY <1>1, <1>6 DEF CommitDelete, TypeOK
  <2>2. CASE HasRow(e) /\ UpdateStatus(c) /\ InsertTask(e, "DELETE")
    <3>1. /\ \A f \in Deployments : f # e => status'[f] = status[f]
          /\ status'[e] \in {status[e], "DELETING"}
      BY <1>1, <2>1, <2>2 DEF UpdateStatus, TypeOK
    <3> QED
      BY <1>2, <2>1, <2>2, <3>1
  <2>3. CASE UNCHANGED <<status, tasks, notes>>
    BY <2>1, <2>3, QuietStatus
  <2> QED
    BY <1>6, <2>2, <2>3 DEF CommitDelete
<1> QED
  BY <1>3, <1>4, <1>5, <1>6

LEMMA ClaimStatus ==
    ASSUME PipelineInvariant, StatusInvariant, OneWorker, NEW w \in Workers, ClaimTask(w)
    PROVE  StatusInvariant'
<1>1. PICK k \in DOMAIN tasks :
          /\ Oldest(k)
          /\ tasks' = [tasks EXCEPT ![k].st = "IN_PROGRESS"]
          /\ current' = [current EXCEPT ![w] = k]
  BY DEF ClaimTask
<1>2. /\ DOMAIN tasks' = DOMAIN tasks
      /\ \A i \in DOMAIN tasks :
           /\ tasks'[i].dep = tasks[i].dep /\ tasks'[i].type = tasks[i].type
           /\ tasks'[i].st = IF i = k THEN "IN_PROGRESS" ELSE tasks[i].st
  BY <1>1, UpdateShape DEF PipelineInvariant, TaskStatus
<1>3. /\ UNCHANGED status
      /\ pc'[w] = "fetch" /\ current'[w] = k /\ \A v \in Workers : v = w
  BY <1>1 DEF ClaimTask, OneWorker, PipelineInvariant, TypeOK
<1>4. tasks[k].st = "PENDING"
  BY <1>1 DEF Oldest
<1>5. Expected(w)'
  BY <1>2, <1>3, <1>4 DEF StatusInvariant, Expected, Dep, Type, DeploySteps, DeleteSteps
<1> QED
  BY <1>2, <1>3, <1>5 DEF StatusInvariant

LEMMA SettleStatus ==
    ASSUME PipelineInvariant, StatusInvariant, OneWorker, NEW w \in Workers,
           CompleteTask(w) \/ RecordFailure(w)
    PROVE  StatusInvariant'
<1>1. pc[w] \in BusySteps
  BY DEF CompleteTask, RecordFailure, BusySteps, TrySteps
<1>2. \E st \in {"COMPLETED", "FAILED"} : SettleTask(w, st)
  BY DEF CompleteTask, RecordFailure
<1>3. /\ TypeOK /\ current[w] \in DOMAIN tasks
      /\ tasks[current[w]].st \in {"IN_PROGRESS", "COMPLETED", "GONE"}
  BY <1>1, BusyFacts DEF Held
<1>4. /\ DOMAIN tasks' = DOMAIN tasks
      /\ \A i \in DOMAIN tasks :
           /\ tasks'[i].dep = tasks[i].dep /\ tasks'[i].type = tasks[i].type
           /\ tasks'[i].st = "PENDING" => tasks[i].st = "PENDING"
  BY <1>1, <1>2, <1>3, SettleShape DEF TaskStatus
<1>5. UNCHANGED status /\ pc'[w] \in {"claim", "markFailed"}
  BY <1>3 DEF CompleteTask, RecordFailure, NextTask, TypeOK
<1>6. \A v \in Workers : Expected(v)'
  BY <1>5 DEF Expected, OneWorker, DeploySteps, DeleteSteps
<1> QED
  BY <1>4, <1>5, <1>6 DEF StatusInvariant

LEMMA WorkerStatus ==
    ASSUME PipelineInvariant, StatusInvariant, OneWorker, NEW w \in Workers,
           WorkerStep(w) \/ StepRaises(w) \/ Die(w) \/ BreakListen(w)
    PROVE  StatusInvariant'
<1> USE DEF PipelineInvariant, TypeOK
<1>1. CASE StartWorker(w) \/ NothingToClaim(w) \/ Subscribe(w) \/ WakeUp(w)
  <2>1. /\ UNCHANGED <<status, tasks, current>>
        /\ \E t \in {"claim", "subscribe", "wait"} : pc' = [pc EXCEPT ![w] = t]
    BY <1>1 DEF StartWorker, NothingToClaim, Subscribe, WakeUp, database
  <2>2. \A v \in Workers : pc'[v] = pc[v] \/ pc'[v] \notin BusySteps
    BY <2>1 DEF BusySteps, TrySteps, DeploySteps, DeleteSteps
  <2> QED
    BY <2>1, <2>2, QuietStatus
<1>2. CASE ClaimTask(w)
  BY <1>2, ClaimStatus
<1>3. CASE Statement(w) \/ MarkFailed(w)
  BY <1>3, StatementStatus
<1>4. CASE CompleteTask(w) \/ RecordFailure(w)
  BY <1>4, SettleStatus
<1>5. CASE StepRaises(w) \/ BreakListen(w)
  <2>1. /\ UNCHANGED <<status, tasks, current>>
        /\ pc' = pc \/ pc' = [pc EXCEPT ![w] = "markFailed"]
    BY <1>5 DEF StepRaises, BreakListen, Working, database
  <2> QED
    BY <2>1, QuietStatus
<1>6. CASE Die(w)
  <2>1. status' = status /\ tasks' = tasks /\ \A v \in Workers : pc'[v] = "off"
    BY <1>6 DEF Die, database, OneWorker
  <2> QED
    BY <2>1 DEF StatusInvariant, BusySteps, TrySteps, DeploySteps, DeleteSteps
<1> QED
  BY <1>1, <1>2, <1>3, <1>4, <1>5, <1>6 DEF WorkerStep, ProcessTask, Statement

LEMMA StatusStep ==
    ASSUME PipelineInvariant, StatusInvariant, OneWorker, [Next]_vars
    PROVE  StatusInvariant'
<1>1. ASSUME NEW d \in Deployments,
             \/ CreateDeployment(d) \/ PurgeDeployment(d)
             \/ \E c \in Clients : ReadForDelete(c, d)
      PROVE  StatusInvariant'
  BY <1>1, RequestStatus
<1>2. ASSUME NEW c \in Clients, CommitDelete(c)
      PROVE  StatusInvariant'
  <2>1. seen[c].dep \in Deployments
    BY <1>2 DEF CommitDelete, PipelineInvariant, TypeOK
  <2> QED
    BY <1>2, <2>1, RequestStatus
<1>3. ASSUME NEW w \in Workers,
             WorkerStep(w) \/ StepRaises(w) \/ Die(w) \/ BreakListen(w)
      PROVE  StatusInvariant'
  BY <1>3, WorkerStatus
<1>4. CASE UNCHANGED vars
  BY <1>4, QuietStatus DEF vars
<1> QED
  BY <1>1, <1>2, <1>3, <1>4 DEF Next

LEMMA StatusInit == Init => StatusInvariant
BY DEF Init, StatusInvariant, BusySteps, TrySteps, DeploySteps, DeleteSteps
-----------------------------------------------------------------------------
(* The pipeline implements DeploymentLifecycle.                            *)

LifecycleStep == [Lifecycle!Next]_(Lifecycle!lifecycleVars)

\* A step that changes one status and no object shows that status.
LEMMA ShownStep ==
    ASSUME NEW d \in Deployments, NEW s, status' = [status EXCEPT ![d] = s],
           UNCHANGED <<workload, service, secret>>
    PROVE  Lifecycle!Show(d, s)
BY DEF Lifecycle!Show, Objects, ObjectsOf

\* A step that changes neither is a stutter.
LEMMA HiddenStep ==
    ASSUME UNCHANGED <<status, workload, service, secret>>
    PROVE  LifecycleStep
BY DEF LifecycleStep, Lifecycle!lifecycleVars, Objects, ObjectsOf

\* An UPDATE of the status does nothing once the row is gone.
LEMMA SetStatusStep ==
    ASSUME NEW d \in Deployments, NEW s, SetStatus(d, s),
           UNCHANGED <<workload, service, secret>>,
           HasRow(d) /\ Lifecycle!Show(d, s) => LifecycleStep
    PROVE  LifecycleStep
<1>1. CASE HasRow(d)
  BY <1>1, ShownStep DEF SetStatus
<1>2. CASE ~HasRow(d)
  BY <1>2, HiddenStep DEF SetStatus
<1> QED
  BY <1>1, <1>2

\* The objects of one deployment change, those of the others have other names.
LEMMA ObjectsStep ==
    ASSUME PipelineInvariant, OwnName, NEW d \in Deployments,
           \A n \in ObjectNames : n # WorkloadName[d] =>
               workload'[n] = workload[n] /\ service'[n] = service[n],
           \A e \in Deployments : e # d => (e \in secret' <=> e \in secret)
    PROVE  Objects' = [Objects EXCEPT ![d] = ObjectsOf(d)']
<1>1. \A e \in Deployments : /\ WorkloadName[e] \in ObjectNames
                             /\ e # d => WorkloadName[e] # WorkloadName[d]
  BY PipelineAssumption DEF PipelineAssumption, OwnName
<1>2. \A e \in Deployments : e # d => ObjectsOf(e)' = ObjectsOf(e)
  BY <1>1 DEF ObjectsOf
<1> QED
  BY <1>2 DEF Objects

LEMMA ApplyStep ==
    ASSUME PipelineInvariant, StatusInvariant, OwnName, NEW w \in Workers,
           ApplySecret(w) \/ ApplyDeployment(w) \/ ApplyService(w)
    PROVE  LifecycleStep
<1>1. /\ pc[w] \in BusySteps
      /\ pc[w] \in {"applySecret", "applyDeployment", "applyService"}
  BY DEF ApplySecret, ApplyDeployment, ApplyService, BusySteps, TrySteps, DeploySteps
<1>2. PICK d \in Deployments : d = Dep(w)
  BY <1>1, BusyFacts
<1> DEFINE n == WorkloadName[d]
<1>3. TypeOK /\ n \in ObjectNames
  BY <1>1, <1>2, BusyFacts
<1>4. status[d] \in {"DEPLOYING", "DELETING", "PURGED"} /\ status' = status
  BY <1>1, <1>2 DEF StatusInvariant, Expected, DeploySteps, ApplySecret, ApplyDeployment,
              ApplyService, database
<1>5. CASE UNCHANGED <<workload, service, secret>>
  BY <1>4, <1>5, HiddenStep
<1>6. CASE ~UNCHANGED <<workload, service, secret>>
  <2>1. PICK o \in {"workload", "service", "secret"} :
            /\ workload'[n] = d <=> workload[n] = d \/ o = "workload"
            /\ service'[n] = d <=> service[n] = d \/ o = "service"
            /\ d \in secret' <=> d \in secret \/ o = "secret"
    <3>1. CASE ApplySecret(w)
      BY <1>2, <3>1 DEF ApplySecret
    <3>2. CASE ApplyDeployment(w)
      BY <1>2, <1>3, <1>6, <3>2 DEF ApplyDeployment, TypeOK
    <3>3. CASE ApplyService(w)
      BY <1>2, <1>3, <3>3 DEF ApplyService, TypeOK
    <3> QED
      BY <3>1, <3>2, <3>3
  <2>2. ObjectsOf(d)' = ObjectsOf(d) \union {o}
    BY <2>1 DEF ObjectsOf
  <2>3. Objects' = [Objects EXCEPT ![d] = ObjectsOf(d)']
    BY <1>2, <1>3, ObjectsStep DEF ApplySecret, ApplyDeployment, ApplyService, TypeOK
  <2>4. Lifecycle!Create(d, o)
    BY <1>4, <2>2, <2>3 DEF Lifecycle!Create, Objects
  <2> QED
    BY <2>4 DEF LifecycleStep, Lifecycle!Next, Lifecycle!Complete
<1> QED
  BY <1>5, <1>6

LEMMA RemoveStep ==
    ASSUME PipelineInvariant, StatusInvariant, OwnName, NEW w \in Workers,
           DeleteDeployment(w) \/ DeleteService(w) \/ DeleteSecret(w)
    PROVE  LifecycleStep
<1>1. /\ pc[w] \in BusySteps
      /\ pc[w] \in {"deleteDeployment", "deleteService", "deleteSecret"}
  BY DEF DeleteDeployment, DeleteService, DeleteSecret, BusySteps, TrySteps, DeleteSteps
<1>2. PICK d \in Deployments : d = Dep(w)
  BY <1>1, BusyFacts
<1> DEFINE n == WorkloadName[d]
<1>3. TypeOK /\ n \in ObjectNames /\ NoOne # d
  BY <1>1, <1>2, BusyFacts, PipelineAssumption DEF PipelineAssumption
<1>4. status[d] \in {"DELETING", "PURGED"} /\ status' = status
  BY <1>1, <1>2 DEF StatusInvariant, Expected, DeleteSteps, DeleteDeployment,
              DeleteService, DeleteSecret, database
<1>5. PICK o \in {"workload", "service", "secret"} :
          /\ workload'[n] = d <=> workload[n] = d /\ o # "workload"
          /\ service'[n] = d <=> service[n] = d /\ o # "service"
          /\ d \in secret' <=> d \in secret /\ o # "secret"
  <2>1. CASE DeleteSecret(w)
    BY <1>2, <2>1 DEF DeleteSecret
  <2>2. CASE DeleteDeployment(w)
    BY <1>2, <1>3, <2>2 DEF DeleteDeployment, TypeOK
  <2>3. CASE DeleteService(w)
    BY <1>2, <1>3, <2>3 DEF DeleteService, TypeOK
  <2> QED
    BY <2>1, <2>2, <2>3
<1>6. ObjectsOf(d)' = ObjectsOf(d) \ {o}
  BY <1>5 DEF ObjectsOf
<1>7. Objects' = [Objects EXCEPT ![d] = ObjectsOf(d)']
  BY <1>2, <1>3, ObjectsStep DEF DeleteDeployment, DeleteService, DeleteSecret, TypeOK
<1>8. Lifecycle!Remove(d, o)
  BY <1>4, <1>6, <1>7 DEF Lifecycle!Remove, Objects
<1> QED
  BY <1>8 DEF LifecycleStep, Lifecycle!Next, Lifecycle!Complete

LEMMA RecordStep ==
    ASSUME PipelineInvariant, StatusInvariant, NEW w \in Workers,
           \/ MarkDeploying(w) \/ MarkActive(w) \/ MarkDeleting(w) \/ MarkDeleted(w)
           \/ MarkFailed(w)
    PROVE  LifecycleStep
<1> DEFINE d == Dep(w)
<1>1. pc[w] \in BusySteps
  BY DEF MarkDeploying, MarkActive, MarkDeleting, MarkDeleted, MarkFailed, BusySteps,
         TrySteps, DeploySteps, DeleteSteps
<1>2. d \in Deployments /\ Held(w) /\ Progress(w) /\ Expected(w)
  BY <1>1, BusyFacts DEF StatusInvariant
<1>3. UNCHANGED <<workload, service, secret>>
  BY DEF MarkDeploying, MarkActive, MarkDeleting, MarkDeleted, MarkFailed, kubernetes
<1> USE DEF LifecycleStep, Lifecycle!Next
<1>4. CASE MarkDeploying(w)
  <2>1. HasRow(d) => status[d] \in {"PENDING", "DELETING"}
    BY <1>2, <1>4 DEF MarkDeploying, Expected, Held, HasRow, RowStatus, DeploySteps
  <2> QED
    BY <1>2, <1>3, <1>4, <2>1, SetStatusStep DEF MarkDeploying, Lifecycle!Rollout
<1>5. CASE MarkActive(w)
  <2>1. HasRow(d) => status[d] \in {"DEPLOYING", "DELETING"}
    BY <1>2, <1>5 DEF MarkActive, Expected, HasRow, RowStatus, DeploySteps
  <2>2. {"workload", "service"} \subseteq Objects[d]
    BY <1>2, <1>5 DEF MarkActive, Progress, Objects, ObjectsOf
  <2> QED
    BY <1>2, <1>3, <1>5, <2>1, <2>2, SetStatusStep
       DEF MarkActive, Lifecycle!Announce, Lifecycle!Complete
<1>6. CASE MarkDeleting(w)
  BY <1>2, <1>3, <1>6, SetStatusStep
     DEF MarkDeleting, Lifecycle!Undeploy, Lifecycle!Exists, HasRow, RowStatus
<1>7. CASE MarkDeleted(w)
  <2>1. HasRow(d) => status[d] = "DELETING"
    BY <1>2, <1>7 DEF MarkDeleted, Expected, HasRow, RowStatus, DeleteSteps
  <2>2. Objects[d] = {}
    BY <1>2, <1>7 DEF MarkDeleted, Progress, Objects, ObjectsOf
  <2> QED
    BY <1>2, <1>3, <1>7, <2>1, <2>2, SetStatusStep DEF MarkDeleted, Lifecycle!Retire
<1>8. CASE MarkFailed(w)
  BY <1>2, <1>3, <1>8, SetStatusStep
     DEF MarkFailed, Lifecycle!Fail, Lifecycle!Exists, HasRow, RowStatus
<1> QED
  BY <1>4, <1>5, <1>6, <1>7, <1>8

LEMMA PipelineStep ==
    ASSUME PipelineInvariant, StatusInvariant, OwnName, [Next]_vars
    PROVE  LifecycleStep
<1>1. ASSUME NEW d \in Deployments, CreateDeployment(d)
      PROVE  LifecycleStep
  BY <1>1, ShownStep
     DEF CreateDeployment, kubernetes, LifecycleStep, Lifecycle!Next, Lifecycle!Request
<1>2. ASSUME NEW d \in Deployments, PurgeDeployment(d)
      PROVE  LifecycleStep
  BY <1>2, ShownStep
     DEF PurgeDeployment, kubernetes, LifecycleStep, Lifecycle!Next, Lifecycle!Purge,
         Lifecycle!Exists, HasRow, RowStatus
<1>3. ASSUME NEW c \in Clients, CommitDelete(c)
      PROVE  LifecycleStep
  <2> DEFINE d == seen[c].dep
  <2>1. d \in Deployments /\ UNCHANGED <<workload, service, secret>>
    BY <1>3 DEF CommitDelete, kubernetes, PipelineInvariant, TypeOK
  <2>2. CASE HasRow(d) /\ status' = [status EXCEPT ![d] = "DELETING"]
    BY <2>1, <2>2, ShownStep
       DEF LifecycleStep, Lifecycle!Next, Lifecycle!Undeploy, Lifecycle!Exists, HasRow,
           RowStatus
  <2>3. CASE UNCHANGED status
    BY <2>1, <2>3, HiddenStep
  <2> QED
    BY <1>3, <2>2, <2>3 DEF CommitDelete, UpdateStatus
<1>4. ASSUME NEW w \in Workers,
             WorkerStep(w) \/ StepRaises(w) \/ Die(w) \/ BreakListen(w)
      PROVE  LifecycleStep
  <2>1. CASE ApplySecret(w) \/ ApplyDeployment(w) \/ ApplyService(w)
    BY <2>1, ApplyStep
  <2>2. CASE DeleteDeployment(w) \/ DeleteService(w) \/ DeleteSecret(w)
    BY <2>2, RemoveStep
  <2>3. CASE \/ MarkDeploying(w) \/ MarkActive(w) \/ MarkDeleting(w) \/ MarkDeleted(w)
             \/ MarkFailed(w)
    BY <2>3, RecordStep
  <2>4. CASE UNCHANGED <<status, workload, service, secret>>
    BY <2>4, HiddenStep
  <2> QED
    BY <1>4, <2>1, <2>2, <2>3, <2>4
       DEF WorkerStep, ProcessTask, StartWorker, ClaimTask, NothingToClaim, Subscribe,
           WakeUp, FetchSpec, AwaitAvailable, AwaitReady, CompleteTask, RecordFailure,
           StepRaises, Die, BreakListen, database, kubernetes
<1>5. ASSUME NEW c \in Clients, NEW d \in Deployments, ReadForDelete(c, d)
      PROVE  LifecycleStep
  BY <1>5, HiddenStep DEF ReadForDelete, database, kubernetes
<1>6. CASE UNCHANGED vars
  BY <1>6, HiddenStep DEF vars
<1> QED
  BY <1>1, <1>2, <1>3, <1>4, <1>5, <1>6 DEF Next

\* With one worker and names of their own, every behaviour of the pipeline is one of the
\* documented life cycle: ACTIVE is announced over a complete workload and DELETED over an
\* empty one, and objects come and go only under the statuses that say so.
THEOREM LifecycleCorrect ==
    ASSUME OneWorker, OwnName
    PROVE  Spec => StatusFollowsWorkload
<1>1. Init => Lifecycle!Init
  BY PipelineAssumption DEF Init, Lifecycle!Init, Objects, ObjectsOf, PipelineAssumption
<1>2. PipelineInvariant /\ StatusInvariant /\ [Next]_vars => StatusInvariant'
  BY StatusStep
<1>3. PipelineInvariant /\ StatusInvariant /\ [Next]_vars
        => [Lifecycle!Next]_(Lifecycle!lifecycleVars)
  BY PipelineStep DEF LifecycleStep
<1> QED
  BY InvariantCorrect, StatusInit, <1>1, <1>2, <1>3, PTL
     DEF Spec, StatusFollowsWorkload, Lifecycle!Spec
=============================================================================
