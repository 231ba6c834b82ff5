---------------------------- MODULE EdgeGateway ----------------------------
(***************************************************************************)
(* The Go edge gateway: concurrent handlers of POST {slug}:predict, which  *)
(* authenticate the caller, look the deployment up, validate the payload   *)
(* against a cached compiled schema, proxy it to the model's Service, log  *)
(* the inference and answer.                                               *)
(*                                                                         *)
(* It runs beside the deployment pipeline and knows of it only the status  *)
(* in the shared database and the objects in the cluster; both change here *)
(* as DeploymentLifecycle allows, which DeploymentPipeline implements.     *)
(*                                                                         *)
(* Definitions named Bug... are not part of the specification: each is the *)
(* definition below it with a plausible programming error.                 *)
(***************************************************************************)
EXTENDS Naturals, Sequences, FiniteSets

CONSTANTS
    Deployments, Users, Slugs,
    Owner,          \* [Deployments -> Users]
    Slug,           \* [Deployments -> Slugs]
    Requests,       \* identities of HTTP requests
    Nothing,        \* what a request has not determined yet
    MaxFaults,      \* bound: database calls and model connections that fail
    MaxRestarts     \* bound: gateway processes that die

ASSUME GatewayAssumption ==
    /\ Owner \in [Deployments -> Users]
    /\ Slug \in [Deployments -> Slugs]
    /\ Nothing \notin Deployments \union Users \union Slugs
    /\ MaxFaults \in Nat /\ MaxRestarts \in Nat

VARIABLES
    shown,      \* [Deployments -> ...] deployment.status_id
    objects,    \* [Deployments -> SUBSET ...] what exists in the cluster
    schema,     \* [Deployments -> ...] deployment.input_schema, which nothing updates
    req,        \* [Requests -> Request] the handlers' local state
    schemas,    \* deployments whose compiled schema is in Server.schemas
    readers,    \* requests that hold Server.schemasMu for reading
    logged,     \* [Requests -> Seq(Codes)] rows of inference_log, by request
    faults, restarts    \* environment events so far

cluster == <<shown, objects, schema>>
server  == <<schemas, readers>>
vars == <<shown, objects, schema, req, schemas, readers, logged, faults, restarts>>

\* Image pull secrets make no difference to the gateway.
Lifecycle == INSTANCE DeploymentLifecycle WITH Extras <- {}

Codes   == {200, 400, 401, 404, 422, 500, 502}
Reading == {"rlock", "peek", "store"}
\* Where a handler is, once the payload has been read.
Handling == Reading \union {"forward", "await", "log"}
Ended    == {"done", "lost"}

Request == [at    : {"idle", "lookup", "body"} \union Handling \union Ended,
            user  : Users \union {Nothing}, slug : Slugs \union {Nothing},
            dep   : Deployments \union {Nothing},   \* target.ID
            valid : BOOLEAN,    \* the payload satisfies the deployment's schema
            live  : BOOLEAN,    \* ctx is neither expired nor cancelled
            left  : BOOLEAN,    \* dep has been seen not ACTIVE since the lookup (history)
            sent  : BOOLEAN,    \* a pod has received the payload (history)
            code  : Codes \union {0}]               \* statusCode

TypeOK ==
    /\ shown \in [Deployments -> {"NONE", "PENDING", "DEPLOYING", "ACTIVE", "FAILED",
                                  "DELETING", "DELETED", "PURGED"}]
    /\ objects \in [Deployments -> SUBSET {"workload", "service"}]
    /\ schema \in [Deployments -> {"none", "good", "broken"}]
    /\ req \in [Requests -> Request]
    /\ \A r \in Requests :
         /\ req[r].at \in Handling \union {"body"} => req[r].dep # Nothing
         /\ req[r].at \in {"log", "done"} => req[r].code # 0
    /\ schemas \subseteq Deployments
    /\ readers = {r \in Requests : req[r].at = "peek"}
    /\ logged \in [Requests -> Seq(Codes)]
    /\ faults \in 0..MaxFaults /\ restarts \in 0..MaxRestarts

Exists(d) == shown[d] \notin {"NONE", "PURGED"}

\* UNIQUE (user_id, slug) of the deployment table.
UniqueSlugs ==
    \A d, e \in Deployments :
        Exists(d) /\ Exists(e) /\ Owner[d] = Owner[e] /\ Slug[d] = Slug[e] => d = e

Fresh == [at |-> "idle", user |-> Nothing, slug |-> Nothing, dep |-> Nothing,
          valid |-> FALSE, live |-> TRUE, left |-> FALSE, sent |-> FALSE, code |-> 0]

Init ==
    /\ Lifecycle!Init
    /\ schema \in [Deployments -> {"none", "good", "broken"}]
    /\ req = [r \in Requests |-> Fresh]
    /\ schemas = {} /\ readers = {}
    /\ logged = [r \in Requests |-> <<>>]
    /\ faults = 0 /\ restarts = 0

-----------------------------------------------------------------------------
(* The handler, predict.                                                   *)

Goto(r, step) == req' = [req EXCEPT ![r].at = step]

\* writeJSON before there is a target: answered and not logged.
Refuse(r, code) == req' = [req EXCEPT ![r].at = "done", ![r].code = code]

\* A rejected payload answered without a row in inference_log.
BugRejectUnlogged(r, code) == Refuse(r, code)

\* respondAndLog
Reject(r, code) == req' = [req EXCEPT ![r].at = "log", ![r].code = code]

Quiet == UNCHANGED <<cluster, server, logged, restarts>>

\* A call fails for a reason of its own.
Fault == faults < MaxFaults /\ faults' = faults + 1

\* authenticate reads the user off the token, or answers 401; a wrong method (405) or
\* path (404) is turned away in the same manner.
Receive(r) ==
    /\ req[r].at = "idle"
    /\ \/ \E u \in Users, s \in Slugs :
            req' = [req EXCEPT ![r].at = "lookup", ![r].user = u, ![r].slug = s]
       \/ Refuse(r, 401)
    /\ Quiet /\ UNCHANGED faults

\* d.user_id = $1 forgotten in the lookup.
BugAnyOwner(r, d) == Slug[d] = req[r].slug /\ shown[d] = "ACTIVE"

\* ds.name = 'ACTIVE' forgotten in the lookup: FAILED rows keep their columns.
BugAnyStatus(r, d) ==
    /\ Owner[d] = req[r].user /\ Slug[d] = req[r].slug
    /\ shown[d] \in {"ACTIVE", "FAILED"}

\* The WHERE clause of LookupDeployment; an ACTIVE row has its k8s columns.
Matches(r, d) ==
    /\ Owner[d] = req[r].user /\ Slug[d] = req[r].slug
    /\ shown[d] = "ACTIVE"

LookupDeployment(r) ==
    /\ req[r].at = "lookup"
    /\ \/ /\ req[r].live
          /\ \E d \in Deployments :
               Matches(r, d) /\ req' = [req EXCEPT ![r].at = "body", ![r].dep = d]
          /\ UNCHANGED faults
       \/ /\ req[r].live
          /\ ~\E d \in Deployments : Matches(r, d)
          /\ Refuse(r, 404) /\ UNCHANGED faults
       \/ ~req[r].live /\ Refuse(r, 500) /\ UNCHANGED faults
       \/ Fault /\ Refuse(r, 500)
    /\ Quiet

\* The body is read and parsed: 400 when it cannot be (413 when it is too large).  A
\* payload goes straight on when its deployment has no schema.
ReadBody(r) ==
    /\ req[r].at = "body"
    /\ \/ Reject(r, 400)
       \/ \E valid \in BOOLEAN :
            req' = [req EXCEPT
                      ![r].at = IF schema[req[r].dep] = "none" THEN "forward" ELSE "rlock",
                      ![r].valid = valid]
    /\ Quiet /\ UNCHANGED faults

\* validate, with the compiled schema.
Validate(r) == IF req[r].valid THEN Goto(r, "forward") ELSE Reject(r, 422)

RLock(r) ==
    /\ req[r].at = "rlock"
    /\ Goto(r, "peek")
    /\ readers' = readers \union {r}
    /\ UNCHANGED <<cluster, schemas, logged, faults, restarts>>

\* The lock kept until the compiled schema is stored (RUnlock deferred).
BugDeferredUnlock(r) ==
    /\ req[r].at = "peek"
    /\ \/ /\ req[r].dep \in schemas
          /\ Validate(r) /\ readers' = readers \ {r}
       \/ /\ req[r].dep \notin schemas
          /\ IF schema[req[r].dep] = "good"
             THEN Goto(r, "store") /\ UNCHANGED readers
             ELSE Reject(r, 422) /\ readers' = readers \ {r}
    /\ UNCHANGED <<cluster, schemas, logged, faults, restarts>>

\* compiledSchema: read the map, unlock, and compile on a miss.
Peek(r) ==
    /\ req[r].at = "peek"
    /\ readers' = readers \ {r}
    /\ \/ req[r].dep \in schemas /\ Validate(r)
       \/ req[r].dep \notin schemas /\ schema[req[r].dep] = "good" /\ Goto(r, "store")
       \/ req[r].dep \notin schemas /\ schema[req[r].dep] = "broken" /\ Reject(r, 422)
    /\ UNCHANGED <<cluster, schemas, logged, faults, restarts>>

\* Lock waits for the readers; the write and the Unlock follow at once.
StoreSchema(r) ==
    /\ req[r].at = "store"
    /\ readers = {}
    /\ schemas' = schemas \union {req[r].dep}
    /\ Validate(r)
    /\ UNCHANGED <<cluster, readers, logged, faults, restarts>>

\* What the request's Service routes to.
Reachable(d) == Lifecycle!Complete \subseteq objects[d]

\* proxy: Do gives up when ctx is done, and fails when nothing answers at the address.
Forward(r) ==
    /\ req[r].at = "forward"
    /\ \/ /\ req[r].live /\ Reachable(req[r].dep)
          /\ req' = [req EXCEPT ![r].at = "await", ![r].sent = TRUE]
          /\ UNCHANGED faults
       \/ /\ ~req[r].live \/ ~Reachable(req[r].dep)
          /\ Reject(r, 502) /\ UNCHANGED faults
       \/ Fault /\ Reject(r, 502)
    /\ Quiet

\* The model answers, or fails, while ctx is live.
Answered(r) ==
    /\ req[r].at = "await" /\ req[r].live
    /\ \/ Reachable(req[r].dep) /\ UNCHANGED faults
          /\ \E code \in {200, 500} : Reject(r, code)
       \/ Fault /\ Reject(r, 502)
    /\ Quiet

\* ctx expires, or the pods are removed, before the answer is complete.
GiveUp(r) ==
    /\ req[r].at = "await"
    /\ ~req[r].live \/ ~Reachable(req[r].dep)
    /\ Reject(r, 502)
    /\ Quiet /\ UNCHANGED faults

\* logInference: its context derives from ctx, the row refers to the deployment, and
\* the error is ignored.  What is left of predict writes the answer.
LogInference(r) ==
    /\ req[r].at = "log"
    /\ \/ /\ req[r].live /\ Exists(req[r].dep)
          /\ logged' = [logged EXCEPT ![r] = Append(@, req[r].code)]
          /\ UNCHANGED faults
       \/ /\ ~req[r].live \/ ~Exists(req[r].dep)
          /\ UNCHANGED <<logged, faults>>
       \/ Fault /\ UNCHANGED logged
    /\ Goto(r, "done")
    /\ UNCHANGED <<cluster, server, restarts>>

\* Everything a handler does of itself, once the payload has arrived.
Handle(r) ==
    \/ LookupDeployment(r) \/ RLock(r) \/ Peek(r) \/ StoreSchema(r) \/ Forward(r)
    \/ GiveUp(r) \/ LogInference(r)

-----------------------------------------------------------------------------
(* The environment.                                                        *)

\* REQUEST_TIMEOUT_SECONDS pass, or the client hangs up.
Expire(r) ==
    /\ req[r].at \in {"lookup", "body"} \union Handling
    /\ req[r].live
    /\ req' = [req EXCEPT ![r].live = FALSE]
    /\ Quiet /\ UNCHANGED faults

\* The process dies: the clients see a broken connection.
Restart ==
    /\ restarts < MaxRestarts
    /\ restarts' = restarts + 1
    /\ req' = [r \in Requests |-> IF req[r].at \in {"idle"} \union Ended THEN req[r]
                                  ELSE [Fresh EXCEPT !.at = "lost"]]
    /\ schemas' = {} /\ readers' = {}
    /\ UNCHANGED <<cluster, logged, faults>>

\* The control plane, a worker or the cluster moves on: a purge cascades to
\* inference_log.
Deploy ==
    /\ Lifecycle!Next
    /\ UniqueSlugs'
    /\ req' = [r \in Requests |->
                 IF req[r].at \in {"body"} \union Handling /\ shown'[req[r].dep] # "ACTIVE"
                 THEN [req[r] EXCEPT !.left = TRUE] ELSE req[r]]
    /\ logged' = [r \in Requests |->
                    IF req[r].dep # Nothing /\ shown'[req[r].dep] = "PURGED"
                    THEN <<>> ELSE logged[r]]
    /\ UNCHANGED <<schema, server, faults, restarts>>

Next ==
    \/ \E r \in Requests :
         Receive(r) \/ ReadBody(r) \/ Handle(r) \/ Answered(r) \/ Expire(r)
    \/ Restart \/ Deploy

Spec == Init /\ [][Next]_vars

\* A goroutine that can run does, and the timer of a request fires.  Nothing makes a
\* client send its payload, or a model answer.
FairSpec ==
    /\ Spec
    /\ \A r \in Requests : WF_vars(Handle(r)) /\ WF_vars(Expire(r))

-----------------------------------------------------------------------------
(* Properties.                                                             *)

\* A model receives only what its owner asked of it by its slug, and only payloads its
\* schema accepts, however the deployments, the cache and the handlers interleave.
ModelsGetVettedPayloads ==
    \A r \in Requests : req[r].sent =>
        /\ Owner[req[r].dep] = req[r].user /\ Slug[req[r].dep] = req[r].slug
        /\ schema[req[r].dep] = "none" \/ (schema[req[r].dep] = "good" /\ req[r].valid)

\* Requests that were told the model is unavailable although neither their time was up
\* nor their deployment was ever seen to leave ACTIVE.
Unexplained == {r \in Requests : req[r].code = 502 /\ req[r].live /\ ~req[r].left}

\* "Model endpoint unavailable" is the model's fault, the clock's or an undeployment's,
\* never the gateway's: the lookup gives no address without a workload behind it.
UnavailabilityIsExplained == Cardinality(Unexplained) <= faults

Unlogged == {r \in Requests :
    /\ req[r].at = "done" /\ req[r].dep # Nothing
    /\ logged[r] # <<req[r].code>>
    /\ req[r].live /\ Exists(req[r].dep)}

\* An inference answered in time, of a deployment that was not purged, has one row in
\* inference_log, with the status the client was given, unless the database failed.
AnswersAreLogged == Cardinality(Unlogged) <= faults

\* A payload that has been read is answered or its connection breaks: no handler
\* waits for ever on the schema lock, on a vanished model or on the database.
PayloadsAreAnswered ==
    \A r \in Requests : (req[r].at \in Handling) ~> (req[r].at \in Ended)
=============================================================================
