# Formal models of the MLOps platform

TLA+ models of the platform's stateful parts, model-checked with TLC on small instances,
and theorems about them checked by TLAPS. Every definition is translated from the code
under `src/`; `PROJECT.json` maps definitions to source lines.

## The system

Users train models with a Python SDK, which records runs, metrics and artifacts in the
**control plane** (FastAPI, PostgreSQL, MinIO). They deploy a model: the control plane
writes a row and a task, the **deployment service** carries it out in Kubernetes, and the
**edge gateway** (Go) sends prediction requests to it.

| Component | State it keeps | Operations | What is hard about it | What makes it correct |
|---|---|---|---|---|
| Deployment requests (`deployment_service.py`, control plane) | `deployment`, `deployment_task` | create, undeploy, purge | read-then-write in one request, any order of requests | a task for every change of intent; the row says what is in the cluster |
| Task queue (`deployment_task`, NOTIFY trigger, `db.py`) | task states | claim, complete, fail, notify | several claimants, lost notifications, dead claimants | each task is claimed once, in order; noticed tasks are claimed |
| Deployment worker (`worker.py`, `kubernetes_client.py`) | local state; Kubernetes objects | roll out, tear down | a dozen statements between which users act and calls fail | ACTIVE only over a complete workload, DELETED only over an empty one |
| Edge gateway (`server.go`, `store.go`) | compiled schemas, requests in flight, `inference_log` | predict | deployments change under a request; a lock; deadlines | only vetted payloads reach a model; answers are logged; no handler hangs |
| Run tracking (`experiment_tracking_service.py`) | `run`, `run_step` | start, append, complete, fail | read-then-write under READ COMMITTED, row locks | numbering, frozen ended runs, whole batches |
| SDK run context (`run_context.py`, `client.py`) | `_run`, `_terminal` | the `with` statement, `log_batch`, `complete`, `fail` | timeouts and lost answers; killed scripts | a clean exit leaves an ended run |
| Run dashboards (`experiment_tracking_service.py`, `grafana.py`) | `dashboard`, `run_dashboard`, Grafana | create, update, reorder, delete | two stores without a common transaction; compensation | the stores agree, but for failures; order and limit |
| Deployment dashboards (`deployment_service.py`) | `deployment_dashboard`, Grafana | list (creates the defaults), create, delete | a GET that writes, no compensation | defaults exist once |
| Model registry (`model_registry_service.py`) | `model`, MinIO objects | create, upload URL, confirm by client and by webhook, download | confirmations and new uploads overlap; lost webhooks | READY means that the object is there |
| Dataset registry (`dataset_service.py`) | `dataset`, MinIO objects | upload, webhook, latest version | versions computed from a read; lost webhooks | consecutive versions, READY means uploaded |
| SDK uploads and authentication (`client.py`) | token | `log_model`, `upload_dataset`, one retry after 401 | sequences of calls that stop halfway; commits after the answer; tokens that expire | no upload is reported that is not READY; a call runs once, whatever is retried |
| Artifact registry (`artifact_registry_service.py`, `gitea.py`) | configuration JSON, Gitea users and tokens | enable, create token, revoke | remote steps before the local commit; whole-JSON updates from old reads; passwords reset under one another | stored tokens work; what is listed is there; a lone request gets its token |
| API keys and users (`api_key_service.py`, `users.py`, fastapi-users) | `user`, `api_key`; tokens at the clients | register, log in, change address and password, issue, revoke, exchange | revocation beside use, addresses that change hands between two queries, tokens nobody can recall | a token acts for the key's owner; credentials fade out within a token's lifetime |
| Plot fields and Grafana panels (`deployment_service.py`, `grafana.py`) | none | the walk over a schema, the query of a panel | a path is written by one function and parsed by another | a panel shows values of its field and no others |
| Slugs, pagination | none | `slug_candidate`, `page_items` | each page is a listing of its own | names keep their slug; pages show every row once |

Components meet in the shared PostgreSQL database (deployment rows and tasks, runs, logs),
in Kubernetes objects (worker and gateway), in Grafana and MinIO, and over HTTP between
SDK, control plane and gateway. `PROJECT.json` lists the hazards found in the code, each at
its line and with the properties that cover it.

## Modules

| Module | Models |
|---|---|
| `DeploymentPipeline` | control plane requests, task table, NOTIFY, workers, Kubernetes, crashes |
| `TaskQueue` | abstract: what the task table promises; implemented by `DeploymentPipeline` for any number of workers |
| `DeploymentLifecycle` | abstract: what users and the gateway may rely on about one deployment; implemented by `DeploymentPipeline` with one worker; `EdgeGateway` runs over it |
| `DeploymentPipelineInvariant` | the inductive invariants of the pipeline with one worker |
| `DeploymentPipelineProofs` | theorems about the pipeline: for any number of workers, and for one |
| `EdgeGateway` | the predict handler, schema cache and its RWMutex, proxying, inference log |
| `EdgeGatewayProofs` | theorems about it |
| `ExperimentRuns` | SDK run contexts, HTTP calls, and the handlers' transactions |
| `ExperimentRunsProofs` | theorems about it |
| `RunDashboards` | saved plots of a run: handlers, transactions, row locks, Grafana, compensations |
| `RunDashboardsProofs` | theorems about it |
| `ArtifactVersions` | abstract: what users may rely on about the versions of an artifact; implemented by `DatasetRegistry` and by `ModelRegistry` |
| `DatasetRegistry` | `upload_dataset` and `download_dataset`, the upload handler's transaction, MinIO's bucket and webhook |
| `DatasetRegistryProofs` | theorems about it |
| `ModelRegistry` | `log_model` and replaced artifacts, the handlers' transactions, bucket, webhook, deletion of the repository |
| `ModelRegistryProofs` | theorems about it |
| `ArtifactRegistry` | custom images of a user: the service, its configuration row, the user's account and tokens at Gitea, image deployments |
| `ArtifactRegistryProofs` | theorems about it |
| `PlotFields` | what of a payload can be plotted: schemas, paths, the panels' queries, and the payloads a schema allows |
| `DeploymentDashboards` | panels of a deployment over `PlotFields`: list with defaults, create, delete, purge, with Grafana |
| `Accounts` | users, passwords, API keys, web sessions, and SDK clients with their tokens |
| `AccountsProofs` | theorems about it |
| `MC...` | instances for TLC |

Definitions named `Bug...` are not part of a specification. Each is a mapped definition with
a plausible programming error; replacing the definition by it must break the property that
`PROJECT.json` names beside it.

### DeploymentPipeline

`status` is `deployment.status_id` (with `"NONE"` before and `"PURGED"` after the row
exists), `endpoint` the rows whose `k8s_*` columns are set, `tasks` the `deployment_task`
rows in `created_at` order, `workload`/`service`/`secret` the Kubernetes objects by name and
the deployment their selector names. A worker is a program counter over the statements of
`run_forever` and `process_task`: one action per statement, so that requests, other workers,
crashes and failures fall between any two. A statement may proceed, raise without effect
(`StepRaises`), or take effect with its answer lost (`Proceed`), and what the `except` clause
then does is modelled too: a task that was COMPLETED may become FAILED.

Choices worth knowing:

- Commit order stands for `created_at`. Tasks of one deployment are inserted in that order
  anyway: the row a DELETE refers to is committed with its DEPLOY.
- `UpdateStatus` writes nothing when the status read was already DELETING, since SQLAlchemy
  emits no UPDATE for an attribute that keeps its value.
- An error outside the `try` block (a failing claim, an exception in the handler) ends the
  process: `Die`. A task held by a dead worker stays IN_PROGRESS; the eventing document
  describes the manual reset, which is not modelled.
- A purge removes the rows and leaves the objects in the cluster, as the code does.
- Exactly the deployments created from an image have a pull secret.
- Kubernetes is external: objects are created or replaced by name, the selector of a
  Deployment is immutable, and a Service reaches pods when its selector agrees with them.

### EdgeGateway

A request is a record: where the handler is, the target read once, whether its context is
live, and the answer. `shown` and `objects` change by any step of `DeploymentLifecycle`
(`Deploy`), so the gateway is checked against everything one worker may do: the run
`pipeline_one_worker` shows that the pipeline is such a lifecycle. 405 and 404 of the router
are merged with 401, 413 with 400: nothing has happened yet in any of them. The RWMutex is
modelled by `readers`; a writer needs them gone, and its critical section is one step.

### ExperimentRuns

`calls` holds the HTTP requests and the handlers that serve them, `ctx` the scripts. A
handler reads the run in one step and writes in another; the INSERT of a run is one step with
its commit, because a second INSERT of the same number waits for the first transaction and
then fails; an upsert locks its rows one by one in the order of the batch. Run tracking
commits explicitly before it answers. A call that times out in the SDK (30 seconds) leaves
its handler running. PostgreSQL's row locks and deadlock detector are external. Each run is
driven by the context that started it, in one thread.

`page` is a reader who goes through the pages of the experiment: `list_by_experiment` is one
statement, and the steps of every run are read by a statement each, so runs and rows change in
between (`ReadSteps`). `page_items` sorts and cuts (`ShowPage`); the runs are sorted by what is in
`Orders`, and the sort keeps the order of the query for equal keys, which is what makes pages
agree. `reads` keeps what each listing read, and `walk` what has been shown.

### RunDashboards

`config` and `order` are the committed rows, `req[r].config` and `req[r].order` what a
transaction has written: a written row is locked until the end. A statement reads committed
rows overlaid with its own transaction's writes (`Overlay`); an UPDATE waits for the lock and
raises when the row has been deleted; an UPDATE that would change nothing is not emitted.
Grafana is called outside the transaction; `Undo` is the compensation in the `except` clauses,
which can fail as well. Limit is 4 in the code and 2 in the runs: what matters is that the
limit can be reached and exceeded. Requests that the first query turns down (404, limit) change
nothing and are not steps.

### DatasetRegistry

`up[u]` is the handler that serves upload `u`: its locals and the row it inserts; `"inserted"`
and `"unsure"` rows are in the table and not committed, and others of the same key wait for
them. One action per SQL statement of `initiate_upload`, each on the rows committed when it
starts. `get_db` commits when the dependency is left, which is after the response has been
sent: `Answer` and `Commit` are two steps, the script can store its object in between, and an
answered transaction can still be lost (`"lost"`). `status` and `uri` are the columns that the
webhook changes; its transaction reads and writes one row, and is one step. Slugs are values:
`Candidates` gives for each name the sequence `slug_candidate` makes. All queries are for one
user's rows, so there is one user. `upload_dataset(wait=False)`, the one retry after a 401 and
listing are not modelled; an answer other than 2xx makes the script raise.

### ModelRegistry

The versions of one repository, whose slug and model name all have. `tx[i]` is the transaction
of request or webhook `i`: what it has read, and what it has written and not committed; another
UPDATE of the row waits for it (`Locked`). The ORM selects the row anew in every repository call
and emits no UPDATE for a value that is there already (`SameFile`). The file type is written
with the location and not modelled. `log_model` makes its requests in order; a script may also
begin with a request for an upload URL, which replaces the artifact of a version, or with a
confirmation. MinIO's report of an object that is stored twice is one report: `events` is a set.

### ArtifactRegistry

`req[r]` is a handler: the stage it has reached, and `seen`, the configuration it goes by. What it
does at Gitea (`password`, `live`) is done at once; what it writes to its row of
`user_feature_config` is committed by get_db after the answer (`Commit`), and until then locks the
row (`Locked`). A configuration is written as a whole from what was read at the start. `password`
names the request that last set the Gitea password: a call with an older one is refused (502). A
token is its name and who made it, so that a token made anew under an old name is another one.
`NeedsRefresh` is the check of the proxy token's scopes; a refreshed token has a random suffix,
which is the request itself here. `met` and `behind` are history: which requests overlapped, and
which went on with a configuration that another request had replaced. Image deployments use one
name, so that the name check, the unique constraint and the waiting between them are met. The user
has one row and one account: nothing is shared between users. Finding the slug of an image
deployment and the deployment's task are left out here (the first is as for datasets, the second in
`DeploymentPipeline`).

### PlotFields and DeploymentDashboards

A schema is a record of the JSON keys that the code looks at; a text is a sequence of which letters
may be one element, so that ".", "[" and "]" are characters of their own. `Fields` is the recursive
walk `_extract_schema_fields`, with references, unions, fixed arrays and matrices; `JsonPath` parses
a field's path again as `grafana.py` does, and `Select` evaluates it as PostgreSQL's lax mode does.
`Payloads` gives all payloads a schema allows up to `MaxItems` items, as the gateway's validator
lets through: it is what the two functions are compared over (`Readable`).

In `DeploymentDashboards` a request is a list of panels to make (`todo`), or a panel to delete, or a
purge. Rows that a transaction has inserted are in `new`, rows it has deleted in `gone`; the
foreign key and the row locks decide who waits (`Insert`, `Drop`, `Purge`, `Cascade`). Grafana is
called in the middle of the transaction. Only a failing INSERT is compensated (`Unprovision`), and
only for the panel at hand. `broken` and `crossed` are history: panels a faulty request was about,
and whether two lists with defaults to create overlapped. The schemas are fixed per behaviour
(`schema`), one of five pairs.

### Accounts

Web requests are a query and a write: the query turns down what cannot be (so such requests are not
steps), the write is checked by the table's constraints. Keys are committed after the answer,
users before (`Commit` against `WriteEmail` and `WriteHash`): fastapi-users commits by itself. A
bearer token is a record at the client with an end: the server keeps nothing of it. A tab or client
executes something when its token has not expired (`Live`), whatever has become of the key or
password. `FindUser` and `Exchange` are the two queries of an exchange, between which addresses may
change hands. `Unauthorized` is the SDK's one retry. `ran` counts how often the endpoint behind a
call was executed. `hash` has a flag for parameters of the past: one of the
users was stored so, and a login replaces the hash by one of the password it has verified (`AskLogin`,
`WriteHash`).

## Runs

| Run | Question | Result |
|---|---|---|
| `pipeline_one_worker` | With one worker and names of their own, may an ACTIVE deployment lack its workload, or an undeployed one keep or regain something? | no; it refines `DeploymentLifecycle` |
| `pipeline_two_workers` | Does the table stay a queue with two workers and one name for two deployments? | yes; it refines `TaskQueue`; noticed tasks are claimed, claimed tasks are let go (`TasksMoveOn`) |
| `pipeline_lost_wakeup` | Is every task claimed, as the eventing document says? | no, violated |
| `gateway_requests` | What may two concurrent requests see while a deployment comes and goes? | vetted payloads, explained 502s, logged answers, no hang |
| `runs_scripts` | Two scripts, opposite batches, timeout, failure, kills, and a reader of the pages | numbering, frozen runs, whole batches, clean exits, served calls; pages show every run once |
| `dashboards_editors` | Two requests at a time on the plots of a run, with a failure | compensation exact, order and limit kept by sole editors, stores agree but for failures, no request hangs |
| `datasets_uploads` | Overlapping uploads of one name and of two names with one slug, downloads, a failure | consecutive versions, one slug for a name, READY and downloads get the right object, reported uploads become READY, no request hangs |
| `models_uploads` | Two scripts on two versions, with webhooks, a failure or a deletion | downloads are stored, a confirmed artifact is served, requests settle |
| `models_shared_file` | The same when versions are logged with one file name | no, violated |
| `registry_tokens` | Three requests of a user at once, two of which break | stored proxy tokens work, what is listed is live, whoever is alone gets a token |
| `deployment_plots` | Two requests at a time on the panels of a deployment, one purge, a fault, five pairs of schemas | panels and rows agree, defaults are doubled only by overlaps, a panel shows its field |
| `accounts_keys` | Two users, two tabs and an SDK client, with the clock, address and password changes, revocation | calls run once, tokens act for the key's owner, credentials fade out, denials are explained |

Configurations that are not among the runs, to be run by hand:

| Configuration | Module | Shows |
|---|---|---|
| `plots_ends`, `registry_ends`, `accounts_ends` | `MCDeploymentDashboards`, `MCArtifactRegistry`, `MCAccounts` | under `FairSpec` every request of these services ends; the first two check `TypeOK` too |
| `datasets_versions`, `models_versions` | `MCDatasetRegistry`, `MCModelRegistry` | the two registries implement `ArtifactVersions`; with the file names of `models_uploads` or of `models_shared_file` the second does not |
| `pipeline_overlap` | `MCDeploymentPipeline` | counterexample: two workers on one deployment |
| `pipeline_shared_name` | `MCDeploymentPipeline` | counterexample: truncated names |
| `datasets_slugs` | `MCDatasetRegistry` | counterexample: two names, one slug |
| `registry_lost_tokens` | `MCArtifactRegistry` | counterexample: a live token that is not listed |
| `plots_purge` | `MCDeploymentDashboards` | counterexample: what a purge leaves |
| `accounts_rehash` | `MCAccounts` | counterexample: a login undoes a new password |

The runs list the properties that say something of the code. `TypeOK` of every module and
the inductive invariants of the proof modules are invariants of the same instances: TLC checked each
there before it was proved (add the line to the configuration, over the proof module without its
theorems). For the panels of deployments `TypeOK` is only model-checked; for the other modules it is
proved.

The properties are stated with comments in the modules. Several count: `CrashesStrandTasks`,
`UnavailabilityIsExplained`, `AnswersAreLogged` and `StoresAgree` say
that bad outcomes never outnumber the failures of the environment, so a bad outcome that the
code causes by itself would show. Others allow a bad outcome only with its explanation, which is kept
as history: `PanelsFollowRows`, `DefaultsAreDoubledOnlyByOverlaps`, `LoneRequestsGetTheirToken`,
`DenialsAreExplained`. What is explained so is what the code really does, and the list of
explanations is complete.

### What the counterexamples say

- **Lost wake-up** (`worker.py:25`): the table is drained before LISTEN is issued and not
  looked at again, so a task committed between the two waits for the next notification.
- **Two workers** (`db.py:61`): a claim skips a locked task and takes the next one, also when
  that is of the same deployment; the DELETE overtakes the DEPLOY. One replica is configured,
  but a rolling update runs two processes for a while.
- **Shared names** (`kubernetes_resources.py:41`): truncation removes the id that makes a name
  unique; undeploying one deployment removes the objects of another.
- **Two names, one slug** (`dataset_service.py:46`): a slug is found free by one statement and
  counted by the next; a version of another name committed in between makes the new dataset its
  version 2, past both unique constraints.
- **Shared model files** (`model_registry_service.py:222`): the object name has no version; a
  second version logged with the same file name replaces the bytes of the first.
- **Lost tokens** (`artifact_registry_service.py:131`): two requests that overlap write the
  configuration each from its own read; the token of the first is live and no longer listed, although
  `docs/custom_image_deployment_worklog.md:72` says that tokens can be listed later.
- **Purge** (`deployment_service.py:171`): the docstring says that dependent observability data is
  removed; the cascade takes `deployment_dashboard`, and leaves the rows of `dashboard` and Grafana.
- **Rehash** (`fastapi_users.py:69`): a login that finds an outdated hash writes the new hash of
  the password it has verified over whatever the row holds; a password changed in between is undone.
  It needs hashes with parameters of the past, which exist only after the library changes them.

More consequences of the code follow from the modules, and the properties are stated so as
to allow them:

- An inference whose request has timed out is not logged, because the INSERT runs
  under the request's context (`server.go:257`); `AnswersAreLogged` counts these.
- A `complete()` that times out in the SDK and the `fail()` that follows can both find the run
  RUNNING and overwrite one another (`experiment_tracking_service.py:235`); `EndedRunsAreFrozen` is
  about scripts that do not give up on calls.
- The second of two deletes of a plot finds no row and compensates by creating the Grafana
  dashboard again (`experiment_tracking_service.py:423`); `StoresAgree` is about requests that do not
  overlap.
- A default panel that overlapping lists have doubled is locked and can never be deleted.
- After an enable that broke between Gitea and its commit, every later enable fails over the name
  of the proxy token (`LoneRequestsGetTheirToken` names this exception).
- A user is shown a key whose commit may still fail: it never works. The name of a revoked key cannot
  be used again. A revocation is answered before it is committed, and tokens exchanged for the key
  go on for their lifetime, where `docs/architecture/security_and_iam.md:22` says that the key is
  marked inactive immediately.
- `access_token()` (`client.py:99`) returns the token kept, expired or not.
- Repositories and models are listed without ORDER BY (`repositories.py:692`, `:811`): for them the
  agreement of pages that `PagesShowTheRuns` shows for runs rests on the order the database finds
  rows in.

### Bounds, and why they are enough

Every bound is a constant named `Max...`. The pipeline has two deployments (one of each kind),
three tasks, which give DEPLOY, DELETE and a second DELETE or another deployment, and one
crash, one failing call and one broken connection: the orders that matter concern the tasks of
one deployment and one neighbour. Two workers are checked without failures of calls, with a
crash, and with one name for both deployments, so that each interferes with the other's
objects. The gateway has one deployment, because requests share only the schema map (keyed by
deployment) and the lock, and two users, so that the wrong user exists; the schema is none,
good or broken from the start. Runs have two scripts and three calls, enough for a call that
is given up and one that overlaps it; safety was also checked once with four calls. Dashboards
have two requests at a time and four in all, which give two plots and two overlapping changes
of them, or three creates against the limit of two; the run was also made once with two
failures. Datasets have three uploads, which give two versions of one name, the collision of two
names and a slug with more than one version; two file types, so that an object of a lost
transaction can stand beside that of its successor; and one failure, which is what makes a version
be given away twice. Models have two scripts and two versions: two requests for one version
overlap in every way, or each has its own; three file names give every version one of its own and
one of them a replacement. The deletion of the repository counts as the failure of that run. The page
reader goes through pages of one run, sorted by status, where two runs can be tied. The artifact
registry has three requests, so that a third finds what two that overlapped have left, two names of
which one has a token from before, and two transactions that break; liveness was checked with the same
three. The panels have two requests at a time, three in all and four panels: two lists that double the
defaults, or a list, a create and a delete or purge; the five pairs of schemas have each kind of field
that the walk can offer, and payloads up to two items tell one item from each. Accounts have two users
who can take over one another's address, two tabs of which one can act beside the other for the same
user, one client, which shares nothing with others but the tables, two keys of one name, and a
lifetime of one tick within two: a credential can end, a token outlive it, and expire. Four web
requests write: registration or issue, a change, a revocation and one in between.
`CHECK_DEADLOCK` is off everywhere: users stop asking, and bounds run out.

### Fairness, and why the code justifies it

- Pipeline: weak fairness of each worker's own steps. A started process runs; Kubernetes
  restarts one that died; polls have timeouts. Nothing makes users act, and no notification is
  assumed to arrive on a broken connection.
- Gateway: weak fairness of a goroutine's steps once the payload has arrived and of the
  request's timer. Nothing makes a client send its payload, or a model answer.
- Runs: weak fairness of the handlers. Nothing makes a script act.
- Registries: weak fairness of the handlers, and for datasets of MinIO's reports, which it sends
  as long as the webhook can be reached; `LoseEvent` is the report that is not. Nothing makes a
  script ask, upload or poll.
- Artifact registry, deployment dashboards, accounts (in the configurations `..._ends`): weak fairness
  of the handlers. Both the Gitea and the Grafana client have timeouts; a statement waits only for a
  transaction, which is a handler itself. Nothing makes users ask.
- Dashboards: weak fairness of the handlers and of PostgreSQL's deadlock detector; the Grafana
  client has a timeout.

## Proofs

For every number of deployments, workers, clients, tasks and failures:

- `TypeCorrect`: `Spec => []TypeOK`.
- `StrandedOnlyByCrashes`: `Spec => []CrashesStrandTasks`. It needs the types only: each step lets
  go of as many tasks as it counts crashes.
- `TasksClaimedOnce`: `Spec => TasksAreClaimedOnce`, that is, the pipeline implements `TaskQueue`.
  The initial state maps to an empty queue, and `QueueStep` maps each step to an insertion, a claim,
  a settlement, a release, a purge or a stutter. The invariant is `QueueInv`: a task is held by one
  worker, it is not PENDING while it is held, and it was not settled before the statement that settles
  it. Without that a second claim, or a settlement by someone else, could be the image of a step.

With `OneWorker` (all workers are equal) and `OwnName` (`WorkloadName` is injective):

- `InvariantCorrect`: `Spec => []PipelineInvariant`.
- `RoutableCorrect`: `Spec => []RoutableHasWorkload`.
- `UndeployCorrect`: `Spec => []UndeployedMeansGone`.
- `LifecycleCorrect`: `Spec => StatusFollowsWorkload`, that is, the pipeline implements
  `DeploymentLifecycle`. `StatusInvariant` adds what the status can be when a statement is reached
  (`Expected`): a rollout finds PENDING, or DELETING if an undeploy came first, and nothing else
  changes the status of a deployment whose task waits. The gateway is proved over any
  `DeploymentLifecycle`, so what is proved of it holds over the pipeline.

Both assumptions are needed: `pipeline_overlap` and `pipeline_shared_name` are counterexamples
without them. `RoutableHasWorkload` by itself is not inductive: that the worker may set ACTIVE
follows from what it achieved at each statement (`WorkerProgress`) and, since a DELETE must not
be undone by an older DEPLOY, from the order of the tasks (`TaskTable`, `DeployIsOver`).
`DeployIsOver` is preserved because tasks are claimed oldest first by the only worker, a
DELETE is inserted after its DEPLOY, and nothing becomes PENDING again.

The proof modules have one lemma per group of statements, and in it one step per action and
per conjunct the action can disturb; facts about rows of a function of records (`EXCEPT`)
are stated once and cited.

For every number of deployments, users, slugs, requests, restarts and failing calls of the gateway:

- `GatewayCorrect`: `Spec => []GatewayInvariant`, with the types.
- `PayloadsAreVetted`: `Spec => []ModelsGetVettedPayloads`. Where a handler is says what its payload
  has passed (`Vetted`); a target stays the owner's deployment of that slug whatever becomes of the
  deployment (`Targeted`).
- `OutagesAreExplained`, `InferencesAreLogged`: `UnavailabilityIsExplained` and `AnswersAreLogged`
  compare the number of bad outcomes with the number of failing calls. Each step adds at most one
  request to the set of unexplained ones, and one only when it counts a fault (`GrowsWithCounter`): a
  deployment that is ACTIVE has a complete workload (`ActiveIsComplete`), so a request that has seen
  none leave ACTIVE finds its pods, and its log row is written once (`Recorded`).

For every number of runs, steps, batches, scripts, calls and failures of run tracking:

- `RunsCorrect`: `Spec => []RunsInvariant`.
- `NumbersStayConsecutive`: `Spec => []NumbersAreConsecutive`. A number is computed before the
  INSERT and may be taken by then, but it never leaves a gap (`Numbered`).
- `CleanExitsEnd`: `Spec => []CleanExitsEndTheRun`. A script is told that its run has ended only by a
  call that ended it (`Informed`), of a run that only it drives (`Separate`).
- `BatchesStayApart`: `Spec => []BatchesDoNotMix`. A commit writes all rows of its batch at once, and
  rows are rows of their batch's steps (`Placed`).
- `EndedStaysEnded`: `Spec => EndedRunsAreFrozen`, an action property. As long as no script has given
  up on a call a run has one call at a time (`Sequential`), so the status it has read is the status
  when it writes.

- `TypeCorrect`: `Spec => []TypeOK`, and `PagesShow`: `Spec => []PagesShowTheRuns`. The invariant is
  `PagesInvariant`. A page reads the rows of the runs by one statement and the metrics of each run by
  one more, while calls are served, so none of it need be of one state. What a listing has found is
  still so, but for runs that have ended since (`Found`); a listing half built holds every run it has
  found once, by number (`Built`); a run shown to have ended has logged its last metrics before its
  row was read, so they are read whole (`Finals`). That the pages of one walk are pieces of one
  order, although each is sorted by itself, is said by counting: the k-th run shown has k - 1 runs
  ahead of it (`Walking`). `Ranks` shows that in a finite total order there is exactly one such run for
  every k, without an induction; ties in status are broken by the number, which is the order that the
  listing has and that the sort keeps.

The assumptions are those of `RunsAssumption`: what the constants are, that the page size is positive,
and that steps are finitely many, which they are since their column holds 32 bits.

For every number of versions, file names, scripts and faults of the model registry:

- `ModelsCorrect`: `Spec => []ModelsInvariant`, with the types. What a transaction has written fits
  where it is (`Shaped`); what it has read is still so (`Based`), because a committed row is never
  taken back, never loses its location and never becomes PENDING again; writers of one version exclude
  one another (`OneWriter`); and a location was asked for by somebody (`Located`).
- `DownloadsAreStored`: `Spec => []DownloadableIsStored`.
- `ConfirmationsAreServed`: `Spec => []ConfirmedIsServed`, and `OwnNamesKeepVersionsApart`:
  `Spec => []DownloadsAreOfTheVersion`, both with `OwnFiles` (versions have file names of their own).
  The assumption is needed: `models_shared_file` is the counterexample without it. What it adds to the
  invariant is that nobody but a version's askers writes its object (`Undisturbed`, `Bytes`).
- `ModelsAreArtifacts`: `Spec => VersionsAreArtifacts`, that is, the registry implements
  `ArtifactVersions`, with `OwnFiles` and `OneName` (an artifact is replaced under its own name). A
  version's bytes are those of the object its row names, if it names one. The commit of a location
  makes bytes that are there the version's (`Store`), or changes nothing; the commit of READY is
  `Confirm`, because the object that was checked is the one that the row names by then (`OneObject`).
  Without `OneName` a READY version can be given a location at which nothing is stored yet.

For every number of uploads, names, slugs, versions and failures of the dataset registry:

- `TypeCorrect`: `Spec => []TypeOK`.
- `VersionsConsecutive`, `NamesKeepSlug`: the inductive invariant is `TableInv`. `Unique` says
  that rows in the table, committed or not, do not violate a constraint, which needs the INSERT to
  wait; `Grounded` that below a computed version every version is committed, which needs rows to
  stay. Two slugs of one name would each have a version 1 of that name.
- `ReadyHoldsUpload`, `DownloadsGetVersion`: the inductive invariant is `BucketInv`. An object was
  stored under the key of an answered request, whose slug and version no longer change; a location
  is set only to a stored object; what a download has seen READY stays so. With `Unique`, a row
  that has the object's slug and version, and was not lost, is the row of the upload itself.
- `DatasetsAreArtifacts`: `Spec => VersionsAreArtifacts`, that is, the registry implements
  `ArtifactVersions`. A version is a slug and a number, its row the only one that has them (`OneRow`,
  from `Unique`); an upload is given a version by the answer, before the row is committed, and may
  have stored its bytes by then, so that a version can appear with bytes. A report of an object of
  another file type than the row's makes the row name that object, which is `Store` again.

For every number of requests, token names and failures of the artifact registry:

- `InvariantCorrect`, `TypeCorrect`, `ProxyTokenWorks`: `Spec => []StoredProxyTokenWorks`. By itself
  it is not inductive, since a commit writes what a request has read or made. `RegistryInv` says that
  the token of every configuration, committed or held by a request (`Sound`), is live and has a name
  that users cannot choose. It stays live (`LiveStays`): Gitea makes a token only under a name not
  in use, and only tokens of names that users choose are revoked, which rests on the check of
  reserved names in create and revoke. The assumptions are those of `RegistryAssumption`: names,
  requests and the proxy's name are different things.
- `LoneRequestsServed`: `Spec => []LoneRequestsGetTheirToken`. The invariant is `AloneInv`. A request
  that has met no other one has the password it has just set, and the configuration it has read is the
  stored one (`Lone`). What it finds in its way at Gitea has a reason that stays (`Excused`): a proxy
  token of no configuration is that of an enable that has not committed (`Provision`), hence one that
  broke.
- `ListedTokensLive`: `Spec => []ListShowsLiveTokens`. The invariant is `ListInv`: the configuration a
  request holds is the stored one but for its own token, until another commit leaves it behind
  (`Current`); and the list and Gitea differ in a name only while one request that knows the stored
  configuration is about to record it (`Agrees`), which is the case that neither of the two states alone
  tells from a lost update.

For every number of requests, plots, display orders asked for and failures of run dashboards:

- `TypeCorrect`: `Spec => []TypeOK`. What a transaction has written fits where it is (`ConfigDrafts`,
  `OrderDrafts`, `Progress`), a row has one writer, and a create's plot is nobody else's (`Apart`).
- `FailuresAreClean`: `Spec => []FailedRequestsChangeNothing`. The invariant is `CleanInv`: as long as
  a request remembers the state before it, that is, while no other one has been there and no second
  failure has come, the stores differ from that state only in what the request itself has done so far
  (`Clean`), and what its compensation will undo is just that.
- `StoresStayTogether`: `Spec => []StoresAgree`. The property speaks of moments at which nobody is
  served; the invariant `StoresInv` counts at every moment the plots whose stores differ for good or
  will when somebody's compensation has run (`Lost`, `Astray`). A step adds at most the plot of its
  request, and only when it counts a failure; a crash counts each request it ends. That nothing else
  is added rests on the order of the statements: a create commits only after Grafana shows its plot
  (`Backed`), and an update's commit and call carry the same configuration (`SeesWanted`).
- `OrderIsKept`: `Spec => []PlotsKeepTheirOrder`. The invariant is `OrderInv`: a request writes its
  display orders row by row, in between they are not 0, 1, 2, ..., but what remains of its plan always
  leads there (`Planned`). That the lists the plans come from hold each plot once, with the plot moved to
  its place, is proved of `Reordered` and `Reindexed`.

The assumptions are those of `DashboardsAssumption`: requests are finitely many, and the markers are
no configurations.

For every number of users, tabs, clients, keys, calls and ticks of the accounts:

- `InvariantCorrect`, `TypeCorrect`, `CallsRunOnceCorrect`, `KeyOwnersCorrect`,
  `CredentialsFadeOutCorrect` and `DenialsAreExplainedCorrect`: every property of `accounts_keys`.
  The inductive invariant is `AccountsInv`. A waiting call has not been executed (`CallsAreFresh`),
  which is what makes sending it again safe. A token was made for the owner of its key
  (`TokensAreOfKeys`), since a key is found by what only the user who made it was shown
  (`KeysAreOwned`), and the user found by address must be its owner. A token of a revoked key was made
  before the revocation and ends a lifetime after it was made (`TokensAreOfKeys`,
  `SessionsAreOfPasswords`); the clock does not go back (`PastIsPast`). The token that a retry sends
  was made during its call (`RetriesAreRenewed`), so that only a call longer than a lifetime can find
  it expired. The assumptions are those of `AccountsAssumption`: what the constants are, and that
  the users registered at the start have addresses of their own.

The assumptions for datasets are those of `DatasetsAssumption`: what the constants are, and that a name has
candidates enough. `StepShape` says once what a step can do to the record of an upload; the lemmas
that preserve the invariants use only that.

Only model-checked:

- Liveness, under fairness.
- `PlotFields`, and with it `DeploymentDashboards`: RECURSIVE operators, since the walk over a schema is
  recursive in data, are out of the prover's reach.

## Not modelled

- The manual reset of stuck tasks, and reading endpoints, which change nothing, but for the pages of
  an experiment. Search filters compare texts.
- Contents: payloads beyond what panels select, metrics, wording and layout of Grafana panels, image
  builds. A response longer than the gateway's limit is passed on cut off; sizes are not modelled.
  The SDK's serialization of frames and arrays is data.
- Of schemas: property names that hold dots or brackets, a scalar and a composite in one union at one
  path, recursive references.
- The web dashboard. It keeps a token in localStorage and caches answers, and what it does with them is
  its own: a late 401 for an old session removes a new session's token, cached answers survive a
  logout, tabs share the token. The server's side of a session is in `Accounts`.
- Deactivated users: no code sets `is_active`. Password reset and verification are the fastapi-users
  library's and not routed.
- The model images are stateless; Kubernetes manifests and scripts are configuration, of which one
  replica and rolling updates are assumptions of the runs.
- The loops that look for a free slug of an experiment, repository or deployment, which are those of
  datasets.

## Plan

Done, in this order: the pipeline with its abstract specifications and proofs, the gateway over
the lifecycle, runs with the SDK's context and the pages, run dashboards, the two registries, the
artifact registry with a proof, panels of deployments over plot fields, accounts with proofs, the
refinements of the pipeline and the safety of gateway, runs, models, artifact registry and run
dashboards proved, the pages of runs proved, the versions of both registries shown to implement one
abstract specification. Next, by importance:

1. Image deployments as the requests of the pipeline, over the artifact registry's pull secrets.
2. Theorems about the panels of deployments (`DefaultsAreDoubledOnlyByOverlaps`, `PanelsFollowRows`,
   `FailuresAreExplained`): the transactions apart from `PlotFields`, with what a schema offers as a
   parameter, since they do not depend on how a schema is walked.
