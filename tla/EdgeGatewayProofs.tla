-------------------------- MODULE EdgeGatewayProofs --------------------------
(***************************************************************************)
(* Theorems about EdgeGateway, for any sets of deployments, users, slugs   *)
(* and requests and any bounds, whatever the pipeline does meanwhile       *)
(* within DeploymentLifecycle.                                             *)
(***************************************************************************)
EXTENDS EdgeGateway, TLAPS, FiniteSetTheorems

-----------------------------------------------------------------------------
(* The inductive invariant.                                                *)

\* What the gateway may rely on in the life cycle.
ActiveIsComplete ==
    \A d \in Deployments : shown[d] = "ACTIVE" => Lifecycle!Complete \subseteq objects[d]

\* A request's target is the owner's deployment of that slug; it was there at the lookup,
\* so a row of it exists or was purged, and unless it was seen to leave ACTIVE it is.
Targeted(r) ==
    /\ req[r].at \in {"idle", "lookup", "lost"} => req[r].dep = Nothing
    /\ req[r].dep # Nothing =>
         /\ Owner[req[r].dep] = req[r].user /\ Slug[req[r].dep] = req[r].slug
         /\ shown[req[r].dep] # "NONE"
    /\ req[r].at \in {"body"} \union Handling /\ ~req[r].left => shown[req[r].dep] = "ACTIVE"

Accepted(r) ==
    \/ schema[req[r].dep] = "none"
    \/ schema[req[r].dep] = "good" /\ req[r].valid

\* Where a handler is says what its payload has passed.
Vetted(r) ==
    /\ req[r].at \in Reading => schema[req[r].dep] # "none"
    /\ req[r].at = "store" => schema[req[r].dep] = "good"
    /\ req[r].at \in {"forward", "await"} \/ req[r].sent => Accepted(r)
    /\ req[r].sent => req[r].dep # Nothing /\ req[r].at \in {"await", "log", "done"}

\* The row is written by the last statement of the handler.
Recorded(r) == req[r].at # "done" => logged[r] = <<>>

Handled(r) == Targeted(r) /\ Vetted(r) /\ Recorded(r)

GatewayInvariant ==
    /\ TypeOK
    /\ ActiveIsComplete
    /\ \A d \in schemas : schema[d] = "good"
    /\ \A r \in Requests : Handled(r)
-----------------------------------------------------------------------------
(* What the operators of the model do to one request.                      *)

Stages == {"idle", "lookup", "body"} \union Handling \union Ended

Others(r) == \A q \in Requests : q # r => req'[q] = req[q]

Moved(r, at, code) ==
    /\ req' \in [Requests -> Request] /\ Others(r)
    /\ req'[r].at = at /\ req'[r].code = code
    /\ req'[r].user = req[r].user /\ req'[r].slug = req[r].slug
    /\ req'[r].dep = req[r].dep /\ req'[r].valid = req[r].valid
    /\ req'[r].live = req[r].live /\ req'[r].left = req[r].left
    /\ req'[r].sent = req[r].sent

LEMMA RequestTypes ==
    ASSUME req \in [Requests -> Request], NEW r \in Requests
    PROVE  /\ req[r].at \in Stages /\ req[r].code \in Codes \union {0}
           /\ req[r].user \in Users \union {Nothing}
           /\ req[r].slug \in Slugs \union {Nothing}
           /\ req[r].dep \in Deployments \union {Nothing}
           /\ req[r].valid \in BOOLEAN /\ req[r].live \in BOOLEAN
           /\ req[r].left \in BOOLEAN /\ req[r].sent \in BOOLEAN
BY DEF Request, Stages

\* Goto, Refuse and Reject move a handler and may set the code of its answer.
LEMMA MoveShape ==
    ASSUME req \in [Requests -> Request], NEW r \in Requests,
           NEW at \in Stages, NEW code \in Codes \union {0},
           \/ Goto(r, at) /\ code = req[r].code
           \/ req' = [req EXCEPT ![r].at = at, ![r].code = code]
    PROVE  Moved(r, at, code)
<1> DEFINE q == [req[r] EXCEPT !.at = at, !.code = code]
<1>1. req[r] \in Request
  OBVIOUS
<1>2. q \in Request
  BY <1>1 DEF Request, Stages
<1>3. /\ q.at = at /\ q.code = code
      /\ q.user = req[r].user /\ q.slug = req[r].slug /\ q.dep = req[r].dep
      /\ q.valid = req[r].valid /\ q.live = req[r].live /\ q.left = req[r].left
      /\ q.sent = req[r].sent
  BY <1>1 DEF Request
<1>4. req' = [req EXCEPT ![r] = q]
  <2>1. CASE Goto(r, at) /\ code = req[r].code
    <3>1. q = [req[r] EXCEPT !.at = at]
      BY <1>1, <2>1 DEF Request
    <3> QED
      BY <2>1, <3>1 DEF Goto
  <2>2. CASE req' = [req EXCEPT ![r].at = at, ![r].code = code]
    BY <2>2
  <2> QED
    BY <2>1, <2>2
<1> HIDE DEF q
<1> QED
  BY <1>2, <1>3, <1>4 DEF Others, Moved

LEMMA RefuseShape ==
    ASSUME TypeOK, NEW r \in Requests, NEW code \in Codes, Refuse(r, code)
    PROVE  Moved(r, "done", code) /\ code # 0
<1>1. "done" \in Stages /\ code \in Codes \union {0} /\ code # 0
  BY DEF Stages, Ended, Codes
<1> QED
  BY <1>1, MoveShape DEF Refuse, TypeOK

LEMMA RejectShape ==
    ASSUME TypeOK, NEW r \in Requests, NEW code \in Codes, Reject(r, code)
    PROVE  Moved(r, "log", code) /\ code # 0
<1>1. "log" \in Stages /\ code \in Codes \union {0} /\ code # 0
  BY DEF Stages, Handling, Codes
<1> QED
  BY <1>1, MoveShape DEF Reject, TypeOK

LEMMA GotoShape ==
    ASSUME TypeOK, NEW r \in Requests, NEW at \in Stages, Goto(r, at)
    PROVE  Moved(r, at, req[r].code)
<1>1. req \in [Requests -> Request]
  BY DEF TypeOK
<1>2. req[r].code \in Codes \union {0}
  BY <1>1, RequestTypes
<1> QED
  BY <1>1, <1>2, MoveShape

\* Any other assignment to a request is one of a whole record.
LEMMA AssignShape ==
    ASSUME req \in [Requests -> Request], NEW r \in Requests, NEW q \in Request,
           req' = [req EXCEPT ![r] = q]
    PROVE  req' \in [Requests -> Request] /\ Others(r) /\ req'[r] = q
BY DEF Others

-----------------------------------------------------------------------------
(* The statements of a handler.                                            *)

\* What remains to be shown of a step of one handler.
LEMMA HandlerKeeps ==
    ASSUME GatewayInvariant, NEW r \in Requests,
           UNCHANGED <<shown, objects, schema, restarts>>,
           req' \in [Requests -> Request], Others(r),
           req'[r].at \in Handling \union {"body"} => req'[r].dep # Nothing,
           req'[r].at \in {"log", "done"} => req'[r].code # 0,
           readers' = IF req'[r].at = "peek" THEN readers \union {r} ELSE readers \ {r},
           schemas' \subseteq Deployments, \A d \in schemas' : schema[d] = "good",
           logged' \in [Requests -> Seq(Codes)],
           \A q \in Requests : q # r => logged'[q] = logged[q],
           faults' \in 0..MaxFaults,
           Handled(r)'
    PROVE  GatewayInvariant'
<1>1. TypeOK'
  <2>1. readers' = {q \in Requests : req'[q].at = "peek"}
    BY DEF GatewayInvariant, TypeOK, Others
  <2>2. \A q \in Requests :
          /\ req'[q].at \in Handling \union {"body"} => req'[q].dep # Nothing
          /\ req'[q].at \in {"log", "done"} => req'[q].code # 0
    BY DEF GatewayInvariant, TypeOK, Others
  <2> QED
    BY <2>1, <2>2 DEF GatewayInvariant, TypeOK
<1>2. \A q \in Requests : Handled(q)'
  <2> SUFFICES ASSUME NEW q \in Requests, q # r PROVE Handled(q)'
    OBVIOUS
  <2>1. Handled(q) /\ req'[q] = req[q] /\ logged'[q] = logged[q]
    BY DEF GatewayInvariant, Others
  <2> QED
    BY <2>1 DEF Handled, Targeted, Vetted, Accepted, Recorded
<1>3. ActiveIsComplete'
  BY DEF GatewayInvariant, ActiveIsComplete
<1> QED
  BY <1>1, <1>2, <1>3 DEF GatewayInvariant

LEMMA MoveKeeps ==
    ASSUME GatewayInvariant, NEW r \in Requests, NEW at \in Stages, NEW code,
           Moved(r, at, code),
           UNCHANGED <<shown, objects, schema, restarts, schemas, logged>>,
           at \in Handling \union {"body"} => req[r].dep # Nothing,
           at \in {"log", "done"} => code # 0,
           readers' = IF at = "peek" THEN readers \union {r} ELSE readers \ {r},
           faults' \in 0..MaxFaults,
           Handled(r)'
    PROVE  GatewayInvariant'
<1>1. /\ req' \in [Requests -> Request] /\ Others(r)
      /\ req'[r].at = at /\ req'[r].code = code /\ req'[r].dep = req[r].dep
  BY DEF Moved
<1>2. /\ schemas' \subseteq Deployments /\ \A d \in schemas' : schema[d] = "good"
      /\ logged' \in [Requests -> Seq(Codes)]
      /\ \A q \in Requests : q # r => logged'[q] = logged[q]
  BY DEF GatewayInvariant, TypeOK
<1> QED
  BY <1>1, <1>2, HandlerKeeps

LEMMA ReceiveKeeps ==
    ASSUME GatewayInvariant, NEW r \in Requests, Receive(r)
    PROVE  GatewayInvariant'
<1>1. TypeOK /\ Handled(r) /\ req[r].at = "idle" /\ req[r] \in Request
  BY DEF GatewayInvariant, Receive, TypeOK
<1>2. /\ UNCHANGED <<shown, objects, schema, restarts, schemas, readers, logged, faults>>
      /\ readers = readers \ {r} /\ faults \in 0..MaxFaults
  BY <1>1 DEF Receive, Quiet, cluster, server, TypeOK
<1>3. CASE Refuse(r, 401)
  <2>1. Moved(r, "done", 401) /\ 401 # 0
    BY <1>1, <1>3, RefuseShape DEF Codes
  <2>2. Handled(r)'
    BY <1>1, <1>2, <2>1
       DEF Moved, Handled, Targeted, Vetted, Recorded, Reading, Handling
  <2>3. "done" \in Stages /\ "done" \notin Handling \union {"body"}
    BY DEF Stages, Ended, Handling, Reading
  <2> QED
    BY <1>1, <1>2, <2>1, <2>2, <2>3, MoveKeeps
<1>4. ASSUME NEW u \in Users, NEW s \in Slugs,
             req' = [req EXCEPT ![r].at = "lookup", ![r].user = u, ![r].slug = s]
      PROVE  GatewayInvariant'
  <2> DEFINE q == [req[r] EXCEPT !.at = "lookup", !.user = u, !.slug = s]
  <2>1. q \in Request
    BY <1>1 DEF Request
  <2>2. /\ q.at = "lookup" /\ q.dep = req[r].dep /\ q.sent = req[r].sent
        /\ q.valid = req[r].valid
    BY <1>1 DEF Request
  <2>3. req' = [req EXCEPT ![r] = q]
    BY <1>4
  <2> HIDE DEF q
  <2>4. req' \in [Requests -> Request] /\ Others(r) /\ req'[r] = q
    BY <1>1, <2>1, <2>3, AssignShape DEF TypeOK
  <2>5. Handled(r)'
    BY <1>1, <1>2, <2>2, <2>4 DEF Handled, Targeted, Vetted, Recorded, Reading, Handling
  <2> QED
    BY <1>1, <1>2, <2>2, <2>4, <2>5, HandlerKeeps
       DEF GatewayInvariant, TypeOK, Reading, Handling
<1> QED
  BY <1>3, <1>4 DEF Receive

LEMMA LookupKeeps ==
    ASSUME GatewayInvariant, NEW r \in Requests, LookupDeployment(r)
    PROVE  GatewayInvariant'
<1>1. TypeOK /\ Handled(r) /\ req[r].at = "lookup" /\ req[r] \in Request
  BY DEF GatewayInvariant, LookupDeployment, TypeOK
<1>2. /\ UNCHANGED <<shown, objects, schema, restarts, schemas, readers, logged>>
      /\ readers = readers \ {r} /\ faults' \in 0..MaxFaults
  BY <1>1, GatewayAssumption
     DEF LookupDeployment, Quiet, cluster, server, TypeOK, Fault, GatewayAssumption
<1>3. ASSUME NEW code \in {404, 500}, Refuse(r, code)
      PROVE  GatewayInvariant'
  <2>1. Moved(r, "done", code) /\ code # 0
    BY <1>1, <1>3, RefuseShape DEF Codes
  <2>2. Handled(r)'
    BY <1>1, <1>2, <2>1
       DEF Moved, Handled, Targeted, Vetted, Recorded, Reading, Handling
  <2>3. "done" \in Stages /\ "done" \notin Handling \union {"body"}
    BY DEF Stages, Ended, Handling, Reading
  <2> QED
    BY <1>1, <1>2, <2>1, <2>2, <2>3, MoveKeeps
<1>4. ASSUME NEW d \in Deployments, Matches(r, d),
             req' = [req EXCEPT ![r].at = "body", ![r].dep = d]
      PROVE  GatewayInvariant'
  <2> DEFINE q == [req[r] EXCEPT !.at = "body", !.dep = d]
  <2>1. q \in Request
    BY <1>1 DEF Request
  <2>2. /\ q.at = "body" /\ q.dep = d /\ q.sent = req[r].sent
        /\ q.user = req[r].user /\ q.slug = req[r].slug
    BY <1>1 DEF Request
  <2>3. req' = [req EXCEPT ![r] = q]
    BY <1>4
  <2> HIDE DEF q
  <2>4. req' \in [Requests -> Request] /\ Others(r) /\ req'[r] = q
    BY <1>1, <2>1, <2>3, AssignShape DEF TypeOK
  <2>5. d # Nothing
    BY GatewayAssumption DEF GatewayAssumption
  <2>6. Handled(r)'
    BY <1>1, <1>2, <1>4, <2>2, <2>4
       DEF Handled, Targeted, Vetted, Recorded, Reading, Handling, Matches
  <2> QED
    BY <1>1, <1>2, <2>2, <2>4, <2>5, <2>6, HandlerKeeps
       DEF GatewayInvariant, TypeOK, Reading, Handling
<1> QED
  BY <1>3, <1>4 DEF LookupDeployment

\* A handler that has its target goes on: what the payload has to have passed is all that
\* depends on the statement.
LEMMA GoOn ==
    ASSUME GatewayInvariant, NEW r \in Requests, req[r].at \in {"body"} \union Handling,
           NEW at \in Handling, NEW code, Moved(r, at, code),
           at = "log" => code # 0,
           at \in Reading => schema[req[r].dep] # "none",
           at = "store" => schema[req[r].dep] = "good",
           at \in {"forward", "await"} => Accepted(r),
           req[r].sent => at \in {"await", "log"},
           UNCHANGED <<shown, objects, schema, restarts, logged>>,
           \A d \in schemas' : d \in Deployments /\ schema[d] = "good",
           readers' = IF at = "peek" THEN readers \union {r} ELSE readers \ {r},
           faults' \in 0..MaxFaults
    PROVE  GatewayInvariant'
<1>1. /\ req' \in [Requests -> Request] /\ Others(r)
      /\ req'[r].at = at /\ req'[r].code = code /\ req'[r].dep = req[r].dep
  BY DEF Moved
<1>2. /\ TypeOK /\ Handled(r) /\ req[r].dep # Nothing
      /\ logged' \in [Requests -> Seq(Codes)]
  BY DEF GatewayInvariant, TypeOK
<1>3. req[r].at # "done" /\ at \notin {"idle", "lookup", "lost", "done"}
  BY DEF Handling, Reading
<1>4. Handled(r)'
  BY <1>2, <1>3 DEF Moved, Handled, Targeted, Vetted, Accepted, Recorded
<1> QED
  BY <1>1, <1>2, <1>3, <1>4, HandlerKeeps

LEMMA HandlingFacts ==
    ASSUME GatewayInvariant, NEW r \in Requests, req[r].at \in {"body"} \union Handling
    PROVE  /\ TypeOK /\ Targeted(r) /\ Vetted(r) /\ Recorded(r)
           /\ req[r] \in Request /\ req[r].dep \in Deployments
           /\ req[r].sent => req[r].at \in {"await", "log"}
           /\ \A d \in schemas : d \in Deployments /\ schema[d] = "good"
           /\ schema[req[r].dep] \in {"none", "good", "broken"}
           /\ faults \in 0..MaxFaults
           /\ req[r].at # "peek" => readers = readers \ {r}
<1>1. TypeOK /\ Handled(r)
  BY DEF GatewayInvariant
<1>2. req[r] \in Request /\ req[r].dep # Nothing /\ req[r].at # "done"
  BY <1>1 DEF TypeOK, Handling, Reading
<1>3. req[r].dep \in Deployments
  BY <1>2 DEF Request
<1> QED
  BY <1>1, <1>2, <1>3 DEF TypeOK, Handled, Vetted, GatewayInvariant

LEMMA FaultType ==
    ASSUME TypeOK, Fault
    PROVE  faults' \in 0..MaxFaults
BY GatewayAssumption DEF TypeOK, Fault, GatewayAssumption

LEMMA ReadBodyKeeps ==
    ASSUME GatewayInvariant, NEW r \in Requests, ReadBody(r)
    PROVE  GatewayInvariant'
<1>1. req[r].at = "body" /\ req[r].at \in {"body"} \union Handling
  BY DEF ReadBody
<1>2. /\ UNCHANGED <<shown, objects, schema, restarts, schemas, readers, logged, faults>>
      /\ readers = readers \ {r} /\ ~req[r].sent
  BY <1>1, HandlingFacts DEF ReadBody, Quiet, cluster, server
<1>3. CASE Reject(r, 400)
  <2>1. Moved(r, "log", 400) /\ 400 # 0
    BY <1>1, <1>3, RejectShape, HandlingFacts DEF Codes
  <2>2. "log" \in Handling /\ "log" \notin Reading
    BY DEF Handling, Reading
  <2> QED
    BY <1>1, <1>2, <2>1, <2>2, GoOn, HandlingFacts
<1>4. ASSUME NEW valid \in BOOLEAN, NEW at \in {"forward", "rlock"},
             at = "forward" <=> schema[req[r].dep] = "none",
             req' = [req EXCEPT ![r].at = at, ![r].valid = valid]
      PROVE  GatewayInvariant'
  <2> DEFINE q == [req[r] EXCEPT !.at = at, !.valid = valid]
  <2>1. req[r] \in Request
    BY <1>1, HandlingFacts
  <2>2. /\ q \in Request
        /\ q.at = at /\ q.dep = req[r].dep /\ q.sent = req[r].sent
        /\ q.user = req[r].user /\ q.slug = req[r].slug /\ q.left = req[r].left
    BY <2>1 DEF Request, Handling, Reading
  <2>3. req' = [req EXCEPT ![r] = q]
    BY <1>4
  <2> HIDE DEF q
  <2>4. req' \in [Requests -> Request] /\ Others(r) /\ req'[r] = q
    BY <1>1, <2>2, <2>3, AssignShape, HandlingFacts DEF TypeOK
  <2>5. Handled(r)'
    BY <1>1, <1>2, <1>4, <2>2, <2>4, HandlingFacts
       DEF Handled, Targeted, Vetted, Accepted, Recorded, Reading, Handling
  <2>6. req[r].dep # Nothing /\ logged' \in [Requests -> Seq(Codes)]
    BY <1>1, <1>2 DEF GatewayInvariant, TypeOK
  <2> QED
    BY <1>1, <1>2, <2>2, <2>4, <2>5, <2>6, HandlerKeeps, HandlingFacts
       DEF Handling, Reading
<1>5. \/ Reject(r, 400)
      \/ \E valid \in BOOLEAN, at \in {"forward", "rlock"} :
            /\ at = "forward" <=> schema[req[r].dep] = "none"
            /\ req' = [req EXCEPT ![r].at = at, ![r].valid = valid]
  BY DEF ReadBody
<1> QED
  BY <1>3, <1>4, <1>5

\* The cached compiled schema, or the one just compiled, accepts the payload or not.
LEMMA ValidateKeeps ==
    ASSUME GatewayInvariant, NEW r \in Requests, req[r].at \in {"peek", "store"},
           schema[req[r].dep] = "good", Validate(r),
           UNCHANGED <<shown, objects, schema, restarts, logged, faults>>,
           \A d \in schemas' : d \in Deployments /\ schema[d] = "good",
           readers' = readers \ {r}
    PROVE  GatewayInvariant'
<1>1. req[r].at \in {"body"} \union Handling
  BY DEF Handling, Reading
<1>2. TypeOK /\ ~req[r].sent /\ faults' \in 0..MaxFaults
  BY <1>1, HandlingFacts
<1>3. CASE req[r].valid
  <2>1. "forward" \in Stages /\ "forward" \in Handling /\ "forward" \notin Reading
    BY DEF Stages, Handling, Reading
  <2>2. Moved(r, "forward", req[r].code)
    BY <1>2, <1>3, <2>1, GotoShape DEF Validate
  <2> QED
    BY <1>1, <1>2, <1>3, <2>1, <2>2, GoOn DEF Accepted
<1>4. CASE ~req[r].valid
  <2>1. "log" \in Handling /\ "log" \notin Reading /\ 422 \in Codes
    BY DEF Handling, Reading, Codes
  <2>2. Moved(r, "log", 422) /\ 422 # 0
    BY <1>2, <1>4, <2>1, RejectShape DEF Validate
  <2> QED
    BY <1>1, <1>2, <2>1, <2>2, GoOn
<1> QED
  BY <1>3, <1>4

LEMMA SchemaKeeps ==
    ASSUME GatewayInvariant, NEW r \in Requests, RLock(r) \/ Peek(r) \/ StoreSchema(r)
    PROVE  GatewayInvariant'
<1>1. /\ req[r].at \in {"rlock", "peek", "store"}
      /\ req[r].at \in {"body"} \union Handling
      /\ UNCHANGED <<shown, objects, schema, logged, faults, restarts>>
  BY DEF RLock, Peek, StoreSchema, Handling, Reading, cluster
<1>2. /\ TypeOK /\ ~req[r].sent /\ faults' \in 0..MaxFaults
      /\ schema[req[r].dep] # "none" /\ req[r].dep \in Deployments
      /\ \A d \in schemas : d \in Deployments /\ schema[d] = "good"
  BY <1>1, HandlingFacts DEF Vetted, Reading
<1>3. CASE RLock(r)
  <2>1. /\ "peek" \in Stages /\ "peek" \in Handling
        /\ readers' = readers \union {r} /\ schemas' = schemas
    BY <1>3 DEF RLock, Stages, Handling, Reading
  <2>2. Moved(r, "peek", req[r].code)
    BY <1>2, <1>3, <2>1, GotoShape DEF RLock
  <2> QED
    BY <1>1, <1>2, <2>1, <2>2, GoOn
<1>4. CASE Peek(r)
  <2>1. req[r].at = "peek" /\ readers' = readers \ {r} /\ schemas' = schemas
    BY <1>4 DEF Peek
  <2>2. CASE req[r].dep \in schemas /\ Validate(r)
    BY <1>1, <1>2, <2>1, <2>2, ValidateKeeps
  <2>3. CASE schema[req[r].dep] = "good" /\ Goto(r, "store")
    <3>1. "store" \in Stages /\ "store" \in Handling /\ "store" \in Reading
      BY DEF Stages, Handling, Reading
    <3>2. Moved(r, "store", req[r].code)
      BY <1>2, <2>3, <3>1, GotoShape
    <3> QED
      BY <1>1, <1>2, <2>1, <2>3, <3>1, <3>2, GoOn
  <2>4. CASE Reject(r, 422)
    <3>1. "log" \in Handling /\ "log" \notin Reading /\ 422 \in Codes
      BY DEF Handling, Reading, Codes
    <3>2. Moved(r, "log", 422) /\ 422 # 0
      BY <1>2, <2>4, <3>1, RejectShape
    <3> QED
      BY <1>1, <1>2, <2>1, <3>1, <3>2, GoOn
  <2> QED
    BY <1>4, <2>2, <2>3, <2>4 DEF Peek
<1>5. CASE StoreSchema(r)
  <2>1. schema[req[r].dep] = "good"
    BY <1>1, <1>5, HandlingFacts DEF StoreSchema, Vetted
  <2>2. req[r].at = "store" /\ readers' = readers \ {r} /\ Validate(r)
    BY <1>1, <1>5, HandlingFacts DEF StoreSchema
  <2>3. \A d \in schemas' : d \in Deployments /\ schema[d] = "good"
    BY <1>2, <1>5, <2>1 DEF StoreSchema
  <2> QED
    BY <1>1, <2>1, <2>2, <2>3, ValidateKeeps
<1> QED
  BY <1>3, <1>4, <1>5

LEMMA ForwardKeeps ==
    ASSUME GatewayInvariant, NEW r \in Requests, Forward(r)
    PROVE  GatewayInvariant'
<1>1. req[r].at = "forward" /\ req[r].at \in {"body"} \union Handling
  BY DEF Forward, Handling
<1>2. /\ UNCHANGED <<shown, objects, schema, restarts, schemas, readers, logged>>
      /\ readers = readers \ {r} /\ ~req[r].sent /\ Accepted(r) /\ TypeOK
      /\ faults' \in 0..MaxFaults
      /\ \A d \in schemas : d \in Deployments /\ schema[d] = "good"
  BY <1>1, HandlingFacts, FaultType DEF Forward, Quiet, cluster, server, Vetted
<1>3. CASE Reject(r, 502)
  <2>1. "log" \in Handling /\ "log" \notin Reading /\ 502 \in Codes
    BY DEF Handling, Reading, Codes
  <2>2. Moved(r, "log", 502) /\ 502 # 0
    BY <1>2, <1>3, <2>1, RejectShape
  <2> QED
    BY <1>1, <1>2, <2>1, <2>2, GoOn
<1>4. CASE req' = [req EXCEPT ![r].at = "await", ![r].sent = TRUE]
  <2> DEFINE q == [req[r] EXCEPT !.at = "await", !.sent = TRUE]
  <2>1. req[r] \in Request
    BY <1>1, HandlingFacts
  <2>2. /\ q \in Request
        /\ q.at = "await" /\ q.dep = req[r].dep /\ q.valid = req[r].valid
        /\ q.user = req[r].user /\ q.slug = req[r].slug /\ q.left = req[r].left
    BY <2>1 DEF Request, Handling, Reading
  <2>3. req' = [req EXCEPT ![r] = q]
    BY <1>4
  <2> HIDE DEF q
  <2>4. req' \in [Requests -> Request] /\ Others(r) /\ req'[r] = q
    BY <1>1, <2>2, <2>3, AssignShape, HandlingFacts DEF TypeOK
  <2>5. req[r].dep # Nothing /\ logged' \in [Requests -> Seq(Codes)]
    BY <1>1, <1>2 DEF GatewayInvariant, TypeOK
  <2>6. Handled(r)'
    BY <1>1, <1>2, <2>2, <2>4, <2>5, HandlingFacts
       DEF Handled, Targeted, Vetted, Accepted, Recorded, Reading, Handling
  <2>7. "await" \notin {"log", "done", "peek"} /\ schemas' \subseteq Deployments
    BY <1>2
  <2> QED
    BY <1>2, <2>2, <2>4, <2>5, <2>6, <2>7, HandlerKeeps
<1> QED
  BY <1>3, <1>4 DEF Forward

\* The model's answer, or that there will be none.
LEMMA AwaitKeeps ==
    ASSUME GatewayInvariant, NEW r \in Requests, Answered(r) \/ GiveUp(r)
    PROVE  GatewayInvariant'
<1>1. req[r].at = "await" /\ req[r].at \in {"body"} \union Handling
  BY DEF Answered, GiveUp, Handling
<1>2. /\ UNCHANGED <<shown, objects, schema, restarts, schemas, readers, logged>>
      /\ readers = readers \ {r} /\ TypeOK /\ faults' \in 0..MaxFaults
      /\ \A d \in schemas : d \in Deployments /\ schema[d] = "good"
  BY <1>1, HandlingFacts, FaultType DEF Answered, GiveUp, Quiet, cluster, server
<1>3. PICK code \in {200, 500, 502} : Reject(r, code)
  BY DEF Answered, GiveUp
<1>4. "log" \in Handling /\ "log" \notin Reading /\ code \in Codes
  BY DEF Handling, Reading, Codes
<1>5. Moved(r, "log", code) /\ code # 0
  BY <1>2, <1>3, <1>4, RejectShape
<1> QED
  BY <1>1, <1>2, <1>4, <1>5, GoOn

LEMMA LogShape ==
    ASSUME GatewayInvariant, NEW r \in Requests, LogInference(r)
    PROVE  /\ req[r].at = "log" /\ Moved(r, "done", req[r].code)
           /\ req[r].code \in Codes /\ req[r].code # 0
           /\ logged' \in [Requests -> Seq(Codes)]
           /\ \A q \in Requests : q # r => logged'[q] = logged[q]
           /\ logged' # logged => logged'[r] = <<req[r].code>>
<1>1. TypeOK /\ req[r].at = "log" /\ Handled(r)
  BY DEF GatewayInvariant, LogInference
<1>2. req[r].code \in Codes /\ req[r].code # 0
  BY <1>1, RequestTypes DEF TypeOK
<1>3. Moved(r, "done", req[r].code)
  <2>1. "done" \in Stages
    BY DEF Stages, Ended
  <2> QED
    BY <1>1, <2>1, GotoShape DEF LogInference
<1>4. \/ logged' = logged
      \/ logged' = [logged EXCEPT ![r] = Append(logged[r], req[r].code)]
  BY DEF LogInference
<1>5. logged[r] = <<>> /\ logged \in [Requests -> Seq(Codes)]
  BY <1>1 DEF Handled, Recorded, TypeOK
<1>6. Append(logged[r], req[r].code) \in Seq(Codes)
  BY <1>2, <1>5
<1>7. Append(<<>>, req[r].code) = <<req[r].code>>
  OBVIOUS
<1> QED
  BY <1>1, <1>2, <1>3, <1>4, <1>5, <1>6, <1>7

LEMMA LogKeeps ==
    ASSUME GatewayInvariant, NEW r \in Requests, LogInference(r)
    PROVE  GatewayInvariant'
<1>1. /\ req[r].at = "log" /\ Moved(r, "done", req[r].code) /\ req[r].code # 0
      /\ req[r].at \in {"body"} \union Handling
      /\ logged' \in [Requests -> Seq(Codes)]
      /\ \A q \in Requests : q # r => logged'[q] = logged[q]
  BY LogShape DEF Handling
<1>2. /\ UNCHANGED <<shown, objects, schema, restarts, schemas, readers>>
      /\ readers = readers \ {r} /\ faults' \in 0..MaxFaults
      /\ schemas' \subseteq Deployments /\ \A d \in schemas' : schema[d] = "good"
  BY <1>1, HandlingFacts, FaultType DEF LogInference, cluster, server
<1>3. /\ req' \in [Requests -> Request] /\ Others(r)
      /\ req'[r].at = "done" /\ req'[r].code # 0
  BY <1>1 DEF Moved
<1>4. Handled(r)'
  BY <1>1, <1>2, HandlingFacts
     DEF Moved, Handled, Targeted, Vetted, Accepted, Recorded, Reading, Handling
<1>5. "done" \notin Handling \union {"body", "peek"}
  BY DEF Handling, Reading
<1> QED
  BY <1>1, <1>2, <1>3, <1>4, <1>5, HandlerKeeps

LEMMA ExpireKeeps ==
    ASSUME GatewayInvariant, NEW r \in Requests, Expire(r)
    PROVE  /\ GatewayInvariant' /\ Others(r)
           /\ req'[r].at = req[r].at /\ req'[r].code = req[r].code /\ ~req'[r].live
<1> DEFINE q == [req[r] EXCEPT !.live = FALSE]
<1>1. TypeOK /\ Handled(r) /\ req[r] \in Request
  BY DEF GatewayInvariant, TypeOK
<1>2. /\ q \in Request
      /\ q.at = req[r].at /\ q.dep = req[r].dep /\ q.valid = req[r].valid
      /\ q.user = req[r].user /\ q.slug = req[r].slug /\ q.left = req[r].left
      /\ q.sent = req[r].sent /\ q.code = req[r].code /\ ~q.live
  BY <1>1 DEF Request
<1>3. req' = [req EXCEPT ![r] = q]
  BY DEF Expire
<1> HIDE DEF q
<1>4. req' \in [Requests -> Request] /\ Others(r) /\ req'[r] = q
  BY <1>1, <1>2, <1>3, AssignShape DEF TypeOK
<1>5. /\ UNCHANGED <<shown, objects, schema, restarts, schemas, readers, logged, faults>>
      /\ readers' = IF req[r].at = "peek" THEN readers \union {r} ELSE readers \ {r}
  BY <1>1 DEF Expire, Quiet, cluster, server, TypeOK
<1>6. Handled(r)'
  BY <1>1, <1>2, <1>4, <1>5 DEF Handled, Targeted, Vetted, Accepted, Recorded
<1>7. /\ req[r].at \in Handling \union {"body"} => req[r].dep # Nothing
      /\ req[r].at \in {"log", "done"} => req[r].code # 0
      /\ schemas' \subseteq Deployments /\ logged' \in [Requests -> Seq(Codes)]
      /\ faults' \in 0..MaxFaults /\ \A d \in schemas' : schema[d] = "good"
  BY <1>1, <1>5 DEF GatewayInvariant, TypeOK
<1>8. GatewayInvariant'
  BY <1>2, <1>4, <1>5, <1>6, <1>7, HandlerKeeps
<1> QED
  BY <1>2, <1>4, <1>8

-----------------------------------------------------------------------------
(* The environment.                                                        *)

LEMMA RestartKeeps ==
    ASSUME GatewayInvariant, Restart
    PROVE  /\ GatewayInvariant' /\ UNCHANGED <<shown, logged, faults>>
           /\ \A r \in Requests :
                \/ req'[r] = req[r]
                \/ req'[r].code = 0 /\ req'[r].at = "lost"
<1> DEFINE Lost == [Fresh EXCEPT !.at = "lost"]
<1>1. TypeOK /\ UNCHANGED <<shown, objects, schema, logged, faults>>
  BY DEF GatewayInvariant, Restart, cluster
<1>2. /\ Lost \in Request
      /\ Lost.at = "lost" /\ Lost.dep = Nothing /\ Lost.code = 0 /\ ~Lost.sent
  BY DEF Fresh, Request, Ended
<1>3. \A r \in Requests :
         req'[r] = IF req[r].at \in {"idle"} \union Ended THEN req[r] ELSE Lost
  BY DEF Restart
<1>4. req' \in [Requests -> Request]
  BY <1>1, <1>2 DEF Restart, TypeOK
<1> HIDE DEF Lost
<1>5. \A r \in Requests :
        /\ req'[r].at \in {"idle"} \union Ended
        /\ \/ req'[r] = req[r]
           \/ req'[r] = Lost /\ req[r].at # "done"
  BY <1>2, <1>3 DEF Ended
<1>6. TypeOK'
  <2>1. \A r \in Requests :
          /\ req'[r].at \notin Handling \union {"body", "peek"}
          /\ req'[r].at \in {"log", "done"} => req'[r].code # 0
    BY <1>1, <1>2, <1>5 DEF TypeOK, Ended, Handling, Reading
  <2>2. restarts' \in 0..MaxRestarts /\ schemas' = {} /\ readers' = {}
    BY <1>1, GatewayAssumption DEF Restart, TypeOK, GatewayAssumption
  <2> QED
    BY <1>1, <1>4, <2>1, <2>2 DEF TypeOK
<1>7. \A r \in Requests : Handled(r)'
  <2> SUFFICES ASSUME NEW r \in Requests PROVE Handled(r)'
    OBVIOUS
  <2>1. Handled(r)
    BY DEF GatewayInvariant
  <2>2. CASE req'[r] = req[r]
    BY <1>1, <2>1, <2>2 DEF Handled, Targeted, Vetted, Accepted, Recorded
  <2>3. CASE req'[r] = Lost /\ req[r].at # "done"
    BY <1>1, <1>2, <2>1, <2>3
       DEF Handled, Targeted, Vetted, Recorded, Handling, Reading
  <2> QED
    BY <1>5, <2>2, <2>3
<1>8. ActiveIsComplete' /\ \A d \in schemas' : schema'[d] = "good"
  BY <1>1 DEF GatewayInvariant, ActiveIsComplete, Restart
<1> QED
  BY <1>1, <1>2, <1>5, <1>6, <1>7, <1>8 DEF GatewayInvariant

\* What the life cycle guarantees the gateway: ACTIVE means complete, rows appear once and
\* a purge is final.
LEMMA LifecycleShape ==
    ASSUME TypeOK, ActiveIsComplete, Lifecycle!Next
    PROVE  /\ shown' \in [Deployments -> {"NONE", "PENDING", "DEPLOYING", "ACTIVE",
                                          "FAILED", "DELETING", "DELETED", "PURGED"}]
           /\ objects' \in [Deployments -> SUBSET {"workload", "service"}]
           /\ ActiveIsComplete'
           /\ \A d \in Deployments : /\ shown[d] # "NONE" => shown'[d] # "NONE"
                                     /\ shown[d] = "PURGED" => shown'[d] = "PURGED"
<1> USE DEF TypeOK, ActiveIsComplete, Lifecycle!Complete
<1>1. PICK d \in Deployments :
        \/ Lifecycle!Request(d) \/ Lifecycle!Rollout(d) \/ Lifecycle!Announce(d)
        \/ Lifecycle!Undeploy(d) \/ Lifecycle!Fail(d) \/ Lifecycle!Retire(d)
        \/ Lifecycle!Purge(d)
        \/ \E o \in {"workload", "service"} : Lifecycle!Create(d, o) \/ Lifecycle!Remove(d, o)
  BY DEF Lifecycle!Next
<1>2. CASE \E o \in {"workload", "service"} : Lifecycle!Create(d, o) \/ Lifecycle!Remove(d, o)
  <2>1. PICK o \in {"workload", "service"} : Lifecycle!Create(d, o) \/ Lifecycle!Remove(d, o)
    BY <1>2
  <2>2. shown' = shown /\ shown[d] # "ACTIVE"
    BY <2>1 DEF Lifecycle!Create, Lifecycle!Remove
  <2>3. \E s \in SUBSET {"workload", "service"} : objects' = [objects EXCEPT ![d] = s]
    BY <2>1 DEF Lifecycle!Create, Lifecycle!Remove
  <2> QED
    BY <2>2, <2>3
<1>3. ASSUME NEW s \in {"PENDING", "DEPLOYING", "ACTIVE", "FAILED", "DELETING", "DELETED",
                        "PURGED"},
             Lifecycle!Show(d, s),
             s = "ACTIVE" => Lifecycle!Complete \subseteq objects[d],
             shown[d] = "PURGED" => s = "PURGED"
      PROVE  /\ shown' \in [Deployments -> {"NONE", "PENDING", "DEPLOYING", "ACTIVE",
                                            "FAILED", "DELETING", "DELETED", "PURGED"}]
             /\ objects' \in [Deployments -> SUBSET {"workload", "service"}]
             /\ ActiveIsComplete'
             /\ \A e \in Deployments : /\ shown[e] # "NONE" => shown'[e] # "NONE"
                                       /\ shown[e] = "PURGED" => shown'[e] = "PURGED"
  BY <1>3 DEF Lifecycle!Show
<1> QED
  BY <1>1, <1>2, <1>3
     DEF Lifecycle!Request, Lifecycle!Rollout, Lifecycle!Announce, Lifecycle!Undeploy,
         Lifecycle!Fail, Lifecycle!Retire, Lifecycle!Purge, Lifecycle!Exists

LEMMA DeployShape ==
    ASSUME TypeOK, Deploy
    PROVE  /\ req' \in [Requests -> Request]
           /\ \A r \in Requests :
                /\ req'[r].at = req[r].at /\ req'[r].code = req[r].code
                /\ req'[r].user = req[r].user /\ req'[r].slug = req[r].slug
                /\ req'[r].dep = req[r].dep /\ req'[r].valid = req[r].valid
                /\ req'[r].live = req[r].live /\ req'[r].sent = req[r].sent
                /\ req[r].left => req'[r].left
                /\ req[r].at \in {"body"} \union Handling /\ ~req'[r].left
                     => shown'[req[r].dep] = "ACTIVE"
<1> DEFINE gone(r) == /\ req[r].at \in {"body"} \union Handling
                      /\ shown'[req[r].dep] # "ACTIVE"
           next(r) == IF gone(r) THEN [req[r] EXCEPT !.left = TRUE] ELSE req[r]
<1>1. req' = [r \in Requests |-> next(r)]
  BY DEF Deploy
<1>2. \A r \in Requests : req[r] \in Request
  BY DEF TypeOK
<1>3. ASSUME NEW r \in Requests
      PROVE  /\ next(r) \in Request
             /\ next(r).at = req[r].at /\ next(r).code = req[r].code
             /\ next(r).user = req[r].user /\ next(r).slug = req[r].slug
             /\ next(r).dep = req[r].dep /\ next(r).valid = req[r].valid
             /\ next(r).live = req[r].live /\ next(r).sent = req[r].sent
             /\ req[r].left => next(r).left
             /\ gone(r) => next(r).left
  <2>1. CASE gone(r)
    BY <1>2, <2>1 DEF Request
  <2>2. CASE ~gone(r)
    BY <1>2, <2>2 DEF Request
  <2> QED
    BY <2>1, <2>2
<1>4. \A r \in Requests : gone(r) <=> /\ req[r].at \in {"body"} \union Handling
                                      /\ shown'[req[r].dep] # "ACTIVE"
  OBVIOUS
<1> HIDE DEF next, gone
<1>5. \A r \in Requests : req'[r] = next(r)
  BY <1>1
<1>6. req' \in [Requests -> Request]
  BY <1>1, <1>3
<1> QED
  BY <1>3, <1>4, <1>5, <1>6

LEMMA DeployKeeps ==
    ASSUME GatewayInvariant, Deploy
    PROVE  GatewayInvariant'
<1>1. TypeOK /\ UNCHANGED <<schema, schemas, readers, faults, restarts>>
  BY DEF GatewayInvariant, Deploy, server
<1>2. /\ shown' \in [Deployments -> {"NONE", "PENDING", "DEPLOYING", "ACTIVE",
                                     "FAILED", "DELETING", "DELETED", "PURGED"}]
      /\ objects' \in [Deployments -> SUBSET {"workload", "service"}]
      /\ ActiveIsComplete'
      /\ \A d \in Deployments : shown[d] # "NONE" => shown'[d] # "NONE"
  BY LifecycleShape DEF GatewayInvariant, Deploy
<1>3. \A r \in Requests :
        logged'[r] = IF req[r].dep # Nothing /\ shown'[req[r].dep] = "PURGED"
                     THEN <<>> ELSE logged[r]
  BY DEF Deploy
<1>4. logged' \in [Requests -> Seq(Codes)]
  BY <1>1 DEF Deploy, TypeOK
<1>5. TypeOK'
  <2>1. readers' = {r \in Requests : req'[r].at = "peek"}
    BY <1>1, DeployShape DEF TypeOK
  <2>2. \A r \in Requests :
          /\ req'[r].at \in Handling \union {"body"} => req'[r].dep # Nothing
          /\ req'[r].at \in {"log", "done"} => req'[r].code # 0
    BY <1>1, DeployShape DEF TypeOK
  <2> QED
    BY <1>1, <1>2, <1>4, <2>1, <2>2, DeployShape DEF TypeOK
<1>6. \A r \in Requests : Handled(r)'
  <2> SUFFICES ASSUME NEW r \in Requests PROVE Handled(r)'
    OBVIOUS
  <2>1. Handled(r) /\ req[r].dep \in Deployments \union {Nothing}
    BY <1>1, RequestTypes DEF GatewayInvariant, TypeOK
  <2>2. Targeted(r)'
    BY <1>1, <1>2, <2>1, DeployShape DEF Handled, Targeted
  <2>3. Vetted(r)'
    BY <1>1, <2>1, DeployShape DEF Handled, Vetted, Accepted
  <2>4. Recorded(r)'
    BY <1>1, <1>3, <2>1, DeployShape DEF Handled, Recorded
  <2> QED
    BY <2>2, <2>3, <2>4 DEF Handled
<1> QED
  BY <1>1, <1>2, <1>5, <1>6 DEF GatewayInvariant

-----------------------------------------------------------------------------

Handler(r) == Receive(r) \/ ReadBody(r) \/ Handle(r) \/ Answered(r) \/ Expire(r)

LEMMA GatewayStep ==
    ASSUME GatewayInvariant, [Next]_vars
    PROVE  GatewayInvariant'
<1>1. ASSUME NEW r \in Requests, Handler(r)
      PROVE  GatewayInvariant'
  BY <1>1, ReceiveKeeps, LookupKeeps, ReadBodyKeeps, SchemaKeeps, ForwardKeeps, AwaitKeeps,
     LogKeeps, ExpireKeeps DEF Handler, Handle
<1>2. CASE UNCHANGED vars
  BY <1>2
     DEF vars, GatewayInvariant, TypeOK, ActiveIsComplete, Handled, Targeted, Vetted,
         Accepted, Recorded
<1> QED
  BY <1>1, <1>2, RestartKeeps, DeployKeeps DEF Next, Handler

LEMMA GatewayInit == Init => GatewayInvariant
<1> SUFFICES ASSUME Init PROVE GatewayInvariant
  OBVIOUS
<1>1. Fresh \in Request
  BY DEF Fresh, Request
<1>2. /\ \A d \in Deployments : shown[d] = "NONE"
      /\ shown = [d \in Deployments |-> "NONE"] /\ objects = [d \in Deployments |-> {}]
  BY DEF Init, Lifecycle!Init
<1>3. \A r \in Requests : /\ req[r] = Fresh /\ req[r].at = "idle" /\ req[r].dep = Nothing
                          /\ ~req[r].sent
  BY DEF Init, Fresh
<1>4. TypeOK
  <2>1. readers = {r \in Requests : req[r].at = "peek"}
    BY <1>3 DEF Init
  <2>2. logged \in [Requests -> Seq(Codes)]
    BY DEF Init
  <2>3. faults \in 0..MaxFaults /\ restarts \in 0..MaxRestarts
    BY GatewayAssumption DEF Init, GatewayAssumption
  <2> QED
    BY <1>1, <1>2, <1>3, <2>1, <2>2, <2>3 DEF Init, TypeOK, Handling, Reading
<1>5. \A r \in Requests : Handled(r)
  BY <1>3 DEF Init, Handled, Targeted, Vetted, Recorded, Handling, Reading
<1> QED
  BY <1>2, <1>4, <1>5 DEF GatewayInvariant, ActiveIsComplete, Init

\* Whatever the pipeline, the other handlers, restarts and failing calls do between two
\* statements of a handler, its target, its payload and its log row are in order.
THEOREM GatewayCorrect == Spec => []GatewayInvariant
<1>1. GatewayInvariant /\ [Next]_vars => GatewayInvariant'
  BY GatewayStep
<1> QED
  BY GatewayInit, <1>1, PTL DEF Spec

\* A pod receives only what the owner of its deployment sent to its slug, and what the
\* deployment's schema accepts.
THEOREM PayloadsAreVetted == Spec => []ModelsGetVettedPayloads
<1>1. GatewayInvariant => ModelsGetVettedPayloads
  BY DEF GatewayInvariant, Handled, Targeted, Vetted, Accepted, ModelsGetVettedPayloads
<1> QED
  BY GatewayCorrect, <1>1, PTL

-----------------------------------------------------------------------------
(* What goes wrong without an explanation goes wrong by a fault.           *)

\* A set that grows by one element at most, and only when a counter does, is no larger than
\* the counter.
LEMMA GrowsWithCounter ==
    ASSUME NEW S, NEW T, NEW r, NEW m \in Nat, NEW n \in Nat,
           IsFiniteSet(S), Cardinality(S) <= m,
           \/ T \subseteq S /\ n = m
           \/ T \subseteq S \union {r} /\ n = m + 1
    PROVE  IsFiniteSet(T) /\ Cardinality(T) <= n
<1>1. Cardinality(S) \in Nat
  BY FS_CardinalityType
<1>2. CASE T \subseteq S /\ n = m
  <2>1. IsFiniteSet(T) /\ Cardinality(T) <= Cardinality(S) /\ Cardinality(T) \in Nat
    BY <1>2, FS_Subset, FS_CardinalityType
  <2> QED
    BY <1>1, <1>2, <2>1
<1>3. CASE T \subseteq S \union {r} /\ n = m + 1
  <2> DEFINE R == S \union {r}
  <2>1. IsFiniteSet(R) /\ Cardinality(R) \in {Cardinality(S), Cardinality(S) + 1}
    BY FS_AddElement
  <2>2. IsFiniteSet(T) /\ Cardinality(T) <= Cardinality(R) /\ Cardinality(T) \in Nat
    BY <1>3, <2>1, FS_Subset, FS_CardinalityType
  <2> QED
    BY <1>1, <1>3, <2>1, <2>2
<1> QED
  BY <1>2, <1>3

Unavailable(r) == req[r].code = 502 /\ req[r].live /\ ~req[r].left

Missing(r) ==
    /\ req[r].at = "done" /\ req[r].dep # Nothing
    /\ logged[r] # <<req[r].code>>
    /\ req[r].live /\ Exists(req[r].dep)

\* A statement that no fault disturbs does not add to either.
Blameless(r) ==
    /\ Others(r) /\ \A q \in Requests : q # r => logged'[q] = logged[q]
    /\ shown' = shown
    /\ \/ faults' = faults + 1
       \/ /\ faults' = faults
          /\ Unavailable(r)' => Unavailable(r)
          /\ Missing(r)' => Missing(r)

LEMMA MoveIsBlameless ==
    ASSUME TypeOK, NEW r \in Requests, NEW at, NEW code, Moved(r, at, code),
           UNCHANGED <<shown, logged>>,
           \/ /\ faults' = faults
              /\ at # "done" \/ req[r].dep = Nothing
              /\ code \in {req[r].code} \union (Codes \ {502})
           \/ faults' = faults + 1
    PROVE  Blameless(r)
BY DEF Moved, Blameless, Unavailable, Missing

LEMMA EarlyIsBlameless ==
    ASSUME GatewayInvariant, NEW r \in Requests, Receive(r) \/ LookupDeployment(r)
    PROVE  Blameless(r)
<1>1. TypeOK /\ Handled(r) /\ req[r].at \in {"idle", "lookup"} /\ req[r] \in Request
  BY DEF GatewayInvariant, Receive, LookupDeployment, TypeOK
<1>2. /\ UNCHANGED <<shown, logged>> /\ req[r].dep = Nothing
      /\ faults' = faults \/ faults' = faults + 1
  BY <1>1 DEF Receive, LookupDeployment, Quiet, cluster, server, Fault, Handled, Targeted
<1>3. CASE \E code \in {401, 404, 500} : Refuse(r, code)
  <2>1. PICK code \in {401, 404, 500} : Moved(r, "done", code)
    BY <1>1, <1>3, RefuseShape DEF Codes
  <2> QED
    BY <1>1, <1>2, <2>1, MoveIsBlameless DEF Codes
<1>4. ASSUME NEW q \in Request, req' = [req EXCEPT ![r] = q],
             q.at \in {"lookup", "body"}, q.code = req[r].code, q.live = req[r].live,
             q.left = req[r].left
      PROVE  Blameless(r)
  <2>1. Others(r) /\ req'[r] = q
    BY <1>1, <1>4, AssignShape DEF TypeOK
  <2> QED
    BY <1>2, <1>4, <2>1 DEF Blameless, Unavailable, Missing, Others
<1>5. ASSUME NEW u \in Users, NEW s \in Slugs,
             req' = [req EXCEPT ![r].at = "lookup", ![r].user = u, ![r].slug = s]
      PROVE  Blameless(r)
  <2> DEFINE q == [req[r] EXCEPT !.at = "lookup", !.user = u, !.slug = s]
  <2>1. /\ q \in Request /\ q.at = "lookup" /\ q.code = req[r].code
        /\ q.live = req[r].live /\ q.left = req[r].left
    BY <1>1 DEF Request
  <2>2. req' = [req EXCEPT ![r] = q]
    BY <1>5
  <2> HIDE DEF q
  <2> QED
    BY <1>4, <2>1, <2>2
<1>6. ASSUME NEW d \in Deployments, req' = [req EXCEPT ![r].at = "body", ![r].dep = d]
      PROVE  Blameless(r)
  <2> DEFINE q == [req[r] EXCEPT !.at = "body", !.dep = d]
  <2>1. /\ q \in Request /\ q.at = "body" /\ q.code = req[r].code
        /\ q.live = req[r].live /\ q.left = req[r].left
    BY <1>1 DEF Request
  <2>2. req' = [req EXCEPT ![r] = q]
    BY <1>6
  <2> HIDE DEF q
  <2> QED
    BY <1>4, <2>1, <2>2
<1>7. CASE Receive(r)
  <2>1. CASE Refuse(r, 401)
    BY <1>3, <2>1
  <2>2. CASE ~Refuse(r, 401)
    <3>1. PICK u \in Users, s \in Slugs :
             req' = [req EXCEPT ![r].at = "lookup", ![r].user = u, ![r].slug = s]
      BY <1>7, <2>2 DEF Receive
    <3> QED
      BY <1>5, <3>1
  <2> QED
    BY <2>1, <2>2
<1>8. CASE LookupDeployment(r)
  <2>1. CASE Refuse(r, 404) \/ Refuse(r, 500)
    BY <1>3, <2>1
  <2>2. CASE ~Refuse(r, 404) /\ ~Refuse(r, 500)
    <3>1. PICK d \in Deployments : req' = [req EXCEPT ![r].at = "body", ![r].dep = d]
      BY <1>8, <2>2 DEF LookupDeployment
    <3> QED
      BY <1>6, <3>1
  <2> QED
    BY <2>1, <2>2
<1> QED
  BY <1>7, <1>8

LEMMA BodyIsBlameless ==
    ASSUME GatewayInvariant, NEW r \in Requests, ReadBody(r)
    PROVE  Blameless(r)
<1>1. req[r].at = "body" /\ TypeOK /\ req[r] \in Request
  BY DEF GatewayInvariant, ReadBody, TypeOK
<1>2. UNCHANGED <<shown, logged, faults>>
  BY DEF ReadBody, Quiet, cluster, server
<1>3. CASE Reject(r, 400)
  <2>1. Moved(r, "log", 400)
    BY <1>1, <1>3, RejectShape DEF Codes
  <2> QED
    BY <1>1, <1>2, <2>1, MoveIsBlameless DEF Codes
<1>4. ASSUME NEW valid \in BOOLEAN, NEW at \in {"forward", "rlock"},
             req' = [req EXCEPT ![r].at = at, ![r].valid = valid]
      PROVE  Blameless(r)
  <2> DEFINE q == [req[r] EXCEPT !.at = at, !.valid = valid]
  <2>1. /\ q \in Request /\ q.at = at /\ q.code = req[r].code
        /\ q.live = req[r].live /\ q.left = req[r].left
    BY <1>1 DEF Request, Handling, Reading
  <2>2. req' = [req EXCEPT ![r] = q]
    BY <1>4
  <2> HIDE DEF q
  <2>3. Others(r) /\ req'[r] = q
    BY <1>1, <2>1, <2>2, AssignShape DEF TypeOK
  <2> QED
    BY <1>2, <2>1, <2>3 DEF Blameless, Unavailable, Missing, Others
<1>5. \/ Reject(r, 400)
      \/ \E valid \in BOOLEAN, at \in {"forward", "rlock"} :
            req' = [req EXCEPT ![r].at = at, ![r].valid = valid]
  BY DEF ReadBody
<1> QED
  BY <1>3, <1>4, <1>5

LEMMA SchemaIsBlameless ==
    ASSUME GatewayInvariant, NEW r \in Requests, RLock(r) \/ Peek(r) \/ StoreSchema(r)
    PROVE  Blameless(r)
<1>1. TypeOK /\ UNCHANGED <<shown, logged, faults>>
  BY DEF GatewayInvariant, RLock, Peek, StoreSchema, cluster
<1>2. CASE \E at \in {"peek", "store", "forward"} : Goto(r, at)
  <2>1. {"peek", "store", "forward"} \subseteq Stages
    BY DEF Stages, Handling, Reading
  <2>2. PICK at \in {"peek", "store", "forward"} : Moved(r, at, req[r].code)
    BY <1>1, <1>2, <2>1, GotoShape
  <2> QED
    BY <1>1, <2>2, MoveIsBlameless
<1>3. CASE Reject(r, 422)
  <2>1. Moved(r, "log", 422)
    BY <1>1, <1>3, RejectShape DEF Codes
  <2> QED
    BY <1>1, <2>1, MoveIsBlameless DEF Codes
<1> QED
  BY <1>2, <1>3 DEF RLock, Peek, StoreSchema, Validate

\* While its deployment has not been seen to leave ACTIVE, a handler's model is there.
LEMMA TargetIsReachable ==
    ASSUME GatewayInvariant, NEW r \in Requests, req[r].at \in Handling, ~req[r].left
    PROVE  Reachable(req[r].dep)
<1>1. shown[req[r].dep] = "ACTIVE" /\ req[r].dep \in Deployments
  BY HandlingFacts DEF Targeted
<1> QED
  BY <1>1 DEF GatewayInvariant, ActiveIsComplete, Reachable

LEMMA ModelIsBlameless ==
    ASSUME GatewayInvariant, NEW r \in Requests, Forward(r) \/ Answered(r) \/ GiveUp(r)
    PROVE  Blameless(r)
<1>1. /\ TypeOK /\ UNCHANGED <<shown, logged>> /\ req[r].at \in Handling
      /\ req[r] \in Request /\ req[r].at \in {"forward", "await"}
      /\ faults' = faults \/ faults' = faults + 1
  BY DEF GatewayInvariant, Forward, Answered, GiveUp, Quiet, cluster, server, Handling,
         Fault, TypeOK
<1>2. CASE faults' = faults + 1 /\ Reject(r, 502)
  <2>1. Moved(r, "log", 502)
    BY <1>1, <1>2, RejectShape DEF Codes
  <2> QED
    BY <1>1, <1>2, <2>1, MoveIsBlameless
<1>3. CASE \E code \in {200, 500} : faults' = faults /\ Reject(r, code)
  <2>1. PICK code \in {200, 500} : Moved(r, "log", code)
    BY <1>1, <1>3, RejectShape DEF Codes
  <2> QED
    BY <1>1, <1>3, <2>1, MoveIsBlameless DEF Codes
<1>4. CASE /\ faults' = faults /\ Reject(r, 502)
           /\ ~req[r].live \/ ~Reachable(req[r].dep)
  <2>1. Moved(r, "log", 502)
    BY <1>1, <1>4, RejectShape DEF Codes
  <2>2. ~req[r].live \/ req[r].left
    BY <1>1, <1>4, TargetIsReachable
  <2> QED
    BY <1>1, <1>4, <2>1, <2>2 DEF Moved, Blameless, Unavailable, Missing
<1>5. CASE faults' = faults /\ req' = [req EXCEPT ![r].at = "await", ![r].sent = TRUE]
  <2> DEFINE q == [req[r] EXCEPT !.at = "await", !.sent = TRUE]
  <2>1. /\ q \in Request /\ q.at = "await" /\ q.code = req[r].code
        /\ q.live = req[r].live /\ q.left = req[r].left
    BY <1>1 DEF Request, Handling, Reading
  <2>2. req' = [req EXCEPT ![r] = q]
    BY <1>5
  <2> HIDE DEF q
  <2>3. Others(r) /\ req'[r] = q
    BY <1>1, <2>1, <2>2, AssignShape DEF TypeOK
  <2> QED
    BY <1>1, <1>5, <2>1, <2>3 DEF Blameless, Unavailable, Missing, Others
<1> QED
  BY <1>2, <1>3, <1>4, <1>5 DEF Forward, Answered, GiveUp, Fault

LEMMA LogIsBlameless ==
    ASSUME GatewayInvariant, NEW r \in Requests, LogInference(r)
    PROVE  Blameless(r)
<1>1. /\ Moved(r, "done", req[r].code)
      /\ \A q \in Requests : q # r => logged'[q] = logged[q]
      /\ logged' # logged => logged'[r] = <<req[r].code>>
  BY LogShape
<1>2. /\ shown' = shown
      /\ \/ faults' = faults + 1
         \/ faults' = faults /\ (~req[r].live \/ ~Exists(req[r].dep))
         \/ faults' = faults /\ logged'[r] = <<req[r].code>>
  <2>1. logged' = [logged EXCEPT ![r] = Append(logged[r], req[r].code)]
          => logged'[r] = <<req[r].code>>
    BY <1>1 DEF GatewayInvariant, TypeOK, LogInference, Handled, Recorded
  <2> QED
    BY <2>1 DEF LogInference, Fault, cluster
<1> QED
  BY <1>1, <1>2 DEF Moved, Blameless, Unavailable, Missing, Exists

LEMMA HandlerIsBlameless ==
    ASSUME GatewayInvariant, NEW r \in Requests, Handler(r)
    PROVE  Blameless(r)
<1>1. CASE Expire(r)
  <2>1. /\ req[r].at # "done" /\ UNCHANGED <<shown, logged, faults>>
        /\ Others(r) /\ req'[r].at = req[r].at /\ ~req'[r].live
    BY <1>1, ExpireKeeps
       DEF Expire, Handling, Reading, Quiet, cluster, server
  <2> QED
    BY <2>1 DEF Blameless, Unavailable, Missing
<1> QED
  BY <1>1, EarlyIsBlameless, BodyIsBlameless, SchemaIsBlameless, ModelIsBlameless,
     LogIsBlameless DEF Handler, Handle

\* Neither a restart, nor the pipeline, nor a stutter adds to either.
LEMMA EnvironmentIsBlameless ==
    ASSUME GatewayInvariant, Restart \/ Deploy \/ UNCHANGED vars
    PROVE  /\ Unexplained' \subseteq Unexplained /\ Unlogged' \subseteq Unlogged
           /\ faults' = faults
<1>1. CASE Restart
  BY <1>1, RestartKeeps DEF Unexplained, Unlogged, Exists
<1>2. CASE Deploy
  <2>1. TypeOK /\ faults' = faults
    BY <1>2 DEF GatewayInvariant, Deploy
  <2>2. Unexplained' \subseteq Unexplained
    BY <1>2, <2>1, DeployShape DEF Unexplained
  <2>3. ASSUME NEW r \in Requests, Missing(r)'
        PROVE  Missing(r)
    <3>1. req[r].at = "done" /\ req[r].dep # Nothing /\ req[r].live
      BY <1>2, <2>1, <2>3, DeployShape DEF Missing
    <3>2. req[r].dep \in Deployments /\ shown[req[r].dep] # "NONE"
      BY <2>1, <3>1, RequestTypes DEF GatewayInvariant, Handled, Targeted, TypeOK
    <3>3. shown'[req[r].dep] # "PURGED" /\ Exists(req[r].dep)
      BY <1>2, <2>1, <2>3, <3>2, DeployShape, LifecycleShape
         DEF Missing, Exists, GatewayInvariant, Deploy
    <3>4. logged'[r] = logged[r]
      BY <1>2, <3>3 DEF Deploy
    <3> QED
      BY <1>2, <2>1, <2>3, <3>1, <3>3, <3>4, DeployShape DEF Missing
  <2>4. Unlogged' \subseteq Unlogged
    BY <2>3 DEF Unlogged, Missing
  <2> QED
    BY <2>1, <2>2, <2>4
<1>3. CASE UNCHANGED vars
  BY <1>3 DEF vars, Unexplained, Unlogged, Exists
<1> QED
  BY <1>1, <1>2, <1>3

Explained == IsFiniteSet(Unexplained) /\ Cardinality(Unexplained) <= faults
Written   == IsFiniteSet(Unlogged) /\ Cardinality(Unlogged) <= faults

LEMMA BlameStep ==
    ASSUME GatewayInvariant, [Next]_vars
    PROVE  /\ Explained => Explained'
           /\ Written => Written'
<1>1. faults \in Nat /\ faults' \in Nat
  <2>1. TypeOK /\ TypeOK'
    BY GatewayStep DEF GatewayInvariant
  <2> QED
    BY <2>1, GatewayAssumption DEF TypeOK, GatewayAssumption
<1>2. ASSUME NEW r \in Requests, Handler(r)
      PROVE  /\ Explained => Explained'
             /\ Written => Written'
  <2>1. Blameless(r)
    BY <1>2, HandlerIsBlameless
  <2>2. \/ Unexplained' \subseteq Unexplained /\ faults' = faults
        \/ Unexplained' \subseteq Unexplained \union {r} /\ faults' = faults + 1
    BY <2>1 DEF Blameless, Others, Unexplained, Unavailable
  <2>3. \/ Unlogged' \subseteq Unlogged /\ faults' = faults
        \/ Unlogged' \subseteq Unlogged \union {r} /\ faults' = faults + 1
    BY <2>1 DEF Blameless, Others, Unlogged, Missing, Exists
  <2> QED
    BY <1>1, <2>2, <2>3, GrowsWithCounter DEF Explained, Written
<1>3. CASE Restart \/ Deploy \/ UNCHANGED vars
  BY <1>1, <1>3, EnvironmentIsBlameless, GrowsWithCounter DEF Explained, Written
<1> QED
  BY <1>2, <1>3 DEF Next, Handler

LEMMA BlameInit == Init => Explained /\ Written
<1> SUFFICES ASSUME Init PROVE Explained /\ Written
  OBVIOUS
<1>1. Unexplained = {} /\ Unlogged = {}
  BY DEF Init, Fresh, Unexplained, Unlogged
<1> QED
  BY <1>1, FS_EmptySet DEF Init, Explained, Written

\* For any number of requests: those told "model unavailable" in time, of a deployment never
\* seen to leave ACTIVE, never outnumber the failed calls.
THEOREM OutagesAreExplained == Spec => []UnavailabilityIsExplained
<1>1. GatewayInvariant /\ Explained /\ [Next]_vars => Explained'
  BY BlameStep
<1>2. Explained => UnavailabilityIsExplained
  BY DEF Explained, UnavailabilityIsExplained
<1> QED
  BY GatewayCorrect, BlameInit, <1>1, <1>2, PTL DEF Spec

\* For any number of requests: the inferences answered in time without their row in
\* inference_log never outnumber the failed calls.
THEOREM InferencesAreLogged == Spec => []AnswersAreLogged
<1>1. GatewayInvariant /\ Written /\ [Next]_vars => Written'
  BY BlameStep
<1>2. Written => AnswersAreLogged
  BY DEF Written, AnswersAreLogged
<1> QED
  BY GatewayCorrect, BlameInit, <1>1, <1>2, PTL DEF Spec
=============================================================================
