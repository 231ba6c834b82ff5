------------------------ MODULE DeploymentDashboards ------------------------
(***************************************************************************)
(* The panels of one deployment: rows of dashboard and deployment_dashboard  *)
(* in PostgreSQL and a Grafana dashboard for each.  GET creates the two      *)
(* default panels that it does not find, POST one of a field that the        *)
(* schemas offer, DELETE removes one, and a purge removes the deployment.    *)
(*                                                                         *)
(* Grafana is called in the middle of the request's transaction, which       *)
(* get_db commits after the answer is sent.  Statements run under READ       *)
(* COMMITTED; an INSERT of a deployment_dashboard row locks the deployment's *)
(* row against a purge, and waits for one that is not committed.             *)
(*                                                                         *)
(* Definitions named Bug... are not part of the specification: each is the *)
(* definition below it with a plausible programming error.                 *)
(***************************************************************************)
EXTENDS PlotFields, FiniteSets, FiniteSetsExt

CONSTANTS
    Schemas,        \* a sequence of pairs of schemas that a deployment may have
    Requests,       \* requests served at the same time
    Gone,           \* in place of a row that does not exist
    MaxPanels,      \* bound: Grafana dashboards ever asked for
    MaxAsked,       \* bound: requests ever made
    MaxFaults       \* bound: calls and commits that fail, requests that die

\* grafana_uid and the id of the rows: both new for each panel, and one here.
Panels  == 1..MaxPanels
Sources == {"input", "output"}

VARIABLES
    schema,     \* which are its input_schema and output_schema: never changed
    offers,     \* what a POST can create for them: never changed
    present,    \* the deployment's row is there
    row,        \* [Panels -> Plot or Gone] committed rows of dashboard
    link,       \* the panels with a committed deployment_dashboard row
    grafana,    \* the panels Grafana has a dashboard for
    source,     \* Grafana has the data source
    made,       \* panels so far
    asked,      \* requests so far
    req,        \* [Requests -> Request] the handlers' local state
    broken,     \* panels that a request with a fault was about (history)
    crossed,    \* lists that both had defaults to create overlapped (history)
    faults      \* faults so far

tables == <<present, row, link>>
vars == <<schema, offers, tables, grafana, source, made, asked, req, broken, crossed, faults>>

-----------------------------------------------------------------------------
(* Plots.                                                                  *)

Plot(from, type, field) == [source |-> from, type |-> type, field |-> field]

\* The defaults: is_system_locked, and no others are.
System(type)   == Plot("system", type, Gone)
DefaultTypes   == <<"latency", "status_code">>
Locked(plot)   == plot.source = "system"

Both(i) == UNION {PlotFields(Schemas[i][from]) : from \in Sources}

\* _get_plot_field_or_raise: there is at most one.
FieldsAt(i, from, path) == {f \in PlotFields(Schemas[i][from]) : f.path = path}

\* What a POST can ask for of the schemas number i; on other paths there is never a field.
Posts(i) == [from : Sources, path : {f.path : f \in Both(i)},
             type : {"time_series", "distribution", "category_time_series"}]

\* What create_deployment_dashboard makes of it: nothing (422) for a field or a type that is
\* not available.
Plots(i, post) ==
    {Plot(post.from, post.type, f) :
        f \in {g \in FieldsAt(i, post.from, post.path) : post.type \in PlotTypes(g.type)}}

Creatable(i) == UNION {Plots(i, post) : post \in Posts(i)}

-----------------------------------------------------------------------------
Busy == {"look", "declare", "panel", "insert", "undo", "cut", "find", "drop",
         "purge", "cascade", "commit"}

Idle == [at |-> "idle", kind |-> "list", todo |-> <<>>, panel |-> 0,
         new |-> {}, gone |-> {}, hit |-> FALSE]

Serving(r)  == req[r].at \in Busy
Added(r)    == {x[1] : x \in req[r].new}
About(r)    == Added(r) \union ({req[r].panel} \cap Panels)
Joined      == {p \in link : row[p] # Gone}

\* A purge that has deleted the deployment's row and is not committed.
Purging(r)  == req[r].kind = "purge" /\ req[r].at \in {"cascade", "commit"}

TypeOK ==
    /\ schema \in DOMAIN Schemas /\ present \in BOOLEAN /\ source \in BOOLEAN
    /\ \A p \in Panels : row[p] = Gone \/ row[p] \in offers
                         \/ \E i \in 1..2 : row[p] = System(DefaultTypes[i])
    /\ link \subseteq {p \in 1..made : row[p] # Gone} /\ grafana \subseteq 1..made
    /\ broken \subseteq 1..made /\ crossed \in BOOLEAN
    /\ ~present => link = {}
    /\ \A r \in Requests :
         /\ req[r].at \in Busy \union {"idle", "failed"}
         /\ req[r].at \notin Busy => req[r].new = {} /\ req[r].gone = {}
         /\ req[r].at \in {"look", "declare", "panel", "insert"} => req[r].todo # <<>>
         /\ Added(r) \subseteq grafana
    /\ made \in 0..MaxPanels /\ asked \in 0..MaxAsked /\ faults \in 0..MaxFaults

Init ==
    /\ schema \in DOMAIN Schemas /\ offers = Creatable(schema)
    /\ present = TRUE
    /\ row = [p \in Panels |-> Gone] /\ link = {}
    /\ grafana = {} /\ source = FALSE
    /\ made = 0 /\ asked = 0
    /\ req = [r \in Requests |-> Idle]
    /\ broken = {} /\ crossed = FALSE /\ faults = 0

-----------------------------------------------------------------------------
Goto(r, step) == req' = [req EXCEPT ![r].at = step]
End(r)        == req' = [req EXCEPT ![r] = Idle]

\* An exception reaches get_db, which rolls back.
Fail(r)       == req' = [req EXCEPT ![r] = [Idle EXCEPT !.at = "failed", !.kind = req[r].kind,
                                                        !.panel = req[r].panel, !.hit = req[r].hit]]

\* Panels that r has still to make.
Due(r) == Len(req[r].todo) - (IF req[r].at = "insert" THEN 1 ELSE 0)

\* r becomes the request q.  MaxPanels leaves room for all that is asked.
Begin(r, q) ==
    /\ ~Serving(r) /\ present /\ asked < MaxAsked
    /\ MapThenSumSet(Due, Requests) + made + Len(q.todo) <= MaxPanels
    /\ asked' = asked + 1
    /\ req' = [req EXCEPT ![r] = q]
    /\ UNCHANGED <<schema, offers, tables, grafana, source, made, broken, faults>>

\* Every default is missing: the rows are looked for by their title.
BugMissing(rows) == DefaultTypes

\* _ensure_default_deployment_dashboards: the defaults not among the rows.
Missing(rows) == SelectSeq(DefaultTypes, LAMBDA t : System(t) \notin {row[p] : p \in rows})

Adding(r) == Serving(r) /\ req[r].kind = "list"

\* GET: with nothing missing it changes nothing.
AskList(r) ==
    LET types == Missing(Joined) IN
    /\ types # <<>>
    /\ Begin(r, [Idle EXCEPT !.at = "look", !.todo = [i \in DOMAIN types |-> System(types[i])]])
    /\ crossed' = (crossed \/ \E q \in Requests : Adding(q))

\* POST: what is not offered is refused (422).
AskCreate(r, plot) ==
    /\ Begin(r, [Idle EXCEPT !.at = "look", !.kind = "create", !.todo = <<plot>>])
    /\ UNCHANGED crossed

\* DELETE: another id is refused (404), and so is a locked panel (422).
AskDelete(r, p) ==
    /\ p \in Joined /\ ~Locked(row[p])
    /\ Begin(r, [Idle EXCEPT !.at = "cut", !.kind = "delete", !.panel = p])
    /\ UNCHANGED crossed

AskPurge(r) ==
    /\ Begin(r, [Idle EXCEPT !.at = "purge", !.kind = "purge"])
    /\ UNCHANGED crossed

Ask(r) ==
    \/ AskList(r)
    \/ \E plot \in offers : AskCreate(r, plot)
    \/ \E p \in Panels : AskDelete(r, p)
    \/ AskPurge(r)

-----------------------------------------------------------------------------
(* _create_deployment_dashboard.                                           *)

Unfaulted == UNCHANGED <<schema, offers, asked, broken, crossed, faults>>

\* _ensure_postgres_datasource looks it up,
LookUp(r) ==
    /\ req[r].at = "look"
    /\ Goto(r, IF source THEN "panel" ELSE "declare")
    /\ UNCHANGED <<tables, grafana, source, made>> /\ Unfaulted

\* A conflict is an error.
BugDeclare(r) ==
    /\ req[r].at = "declare"
    /\ source' = TRUE
    /\ IF source THEN Fail(r) ELSE Goto(r, "panel")
    /\ UNCHANGED <<tables, grafana, made>> /\ Unfaulted

\* and creates it: that another request has just done so (409) is as good.
Declare(r) ==
    /\ req[r].at = "declare"
    /\ source' = TRUE
    /\ Goto(r, "panel")
    /\ UNCHANGED <<tables, grafana, made>> /\ Unfaulted

\* upsert_deployment_plot under a new uid.
Provision(r) ==
    /\ req[r].at = "panel"
    /\ made' = made + 1 /\ grafana' = grafana \union {made + 1}
    /\ req' = [req EXCEPT ![r].at = "insert", ![r].panel = made + 1]
    /\ UNCHANGED <<tables, source>> /\ Unfaulted

\* The compensation, of this panel and not of one made before it, and the rollback.
Unprovision(r) ==
    /\ req[r].at = "undo"
    /\ grafana' = grafana \ {req[r].panel}
    /\ Fail(r)
    /\ UNCHANGED <<tables, source, made>> /\ Unfaulted

\* INSERT of both rows.  The foreign key waits for an uncommitted purge, and fails when the
\* deployment is gone: the transaction is then no more.
Insert(r) ==
    /\ req[r].at = "insert" /\ \A q \in Requests : ~Purging(q)
    /\ req' = IF present
              THEN [req EXCEPT ![r].new = @ \union {<<req[r].panel, Head(req[r].todo)>>},
                               ![r].todo = Tail(@),
                               ![r].at = IF Len(req[r].todo) > 1 THEN "look" ELSE "commit"]
              ELSE [req EXCEPT ![r].new = {}, ![r].todo = <<>>, ![r].at = "undo"]
    /\ UNCHANGED <<tables, grafana, source, made>> /\ Unfaulted

-----------------------------------------------------------------------------
(* delete_deployment_dashboard and purge_deployment.                       *)

\* delete_dashboard: that it is not there (404) is as good.
Cut(r) ==
    /\ req[r].at = "cut"
    /\ grafana' = grafana \ {req[r].panel}
    /\ Goto(r, "find")
    /\ UNCHANGED <<tables, source, made>> /\ Unfaulted

\* The rows are read again: 404 when they are gone.
Find(r) ==
    /\ req[r].at = "find"
    /\ IF req[r].panel \in Joined THEN Goto(r, "drop") ELSE Fail(r)
    /\ UNCHANGED <<tables, grafana, source, made>> /\ Unfaulted

\* No other transaction has deleted one of these rows and is not committed.
Free(r, panels) == \A q \in Requests \ {r} : req[q].gone \cap panels = {}

\* DELETE of the dashboard row, which need not be there any more; the other one follows it.
Drop(r) ==
    /\ req[r].at = "drop" /\ Free(r, {req[r].panel})
    /\ req' = [req EXCEPT ![r].gone = {req[r].panel}, ![r].at = "commit"]
    /\ UNCHANGED <<tables, grafana, source, made>> /\ Unfaulted

\* DELETE of the deployment, which waits for the panels being added, and for another purge;
Purge(r) ==
    /\ req[r].at = "purge" /\ \A q \in Requests : req[q].new = {} /\ ~Purging(q)
    /\ Goto(r, "cascade")
    /\ UNCHANGED <<tables, grafana, source, made>> /\ Unfaulted

\* and of its deployment_dashboard rows, which waits for the panels being deleted.
Cascade(r) ==
    /\ req[r].at = "cascade" /\ Free(r, link)
    /\ req' = [req EXCEPT ![r].gone = link, ![r].at = "commit"]
    /\ UNCHANGED <<tables, grafana, source, made>> /\ Unfaulted

Publish(r) ==
    /\ present' = (present /\ req[r].kind # "purge")
    /\ row' = [p \in Panels |->
                 IF p \in Added(r) THEN (CHOOSE x \in req[r].new : x[1] = p)[2]
                 ELSE IF req[r].kind = "delete" /\ p \in req[r].gone THEN Gone ELSE row[p]]
    /\ link' = (link \union Added(r)) \ req[r].gone

\* get_db, after the answer.
Commit(r) ==
    /\ req[r].at = "commit"
    /\ Publish(r) /\ End(r)
    /\ UNCHANGED <<grafana, source, made>> /\ Unfaulted

-----------------------------------------------------------------------------
(* Faults.                                                                 *)

\* The request dies, a statement or the commit fails: all is rolled back but what Grafana did.
Break(r) ==
    /\ Serving(r)
    /\ faults < MaxFaults /\ faults' = faults + 1
    /\ req' = [req EXCEPT ![r] = [Idle EXCEPT !.at = "failed", !.kind = req[r].kind,
                                              !.panel = req[r].panel, !.hit = TRUE]]
    /\ broken' = broken \union About(r)
    /\ UNCHANGED <<schema, offers, tables, grafana, source, made, asked, crossed>>

\* An error from Grafana, after or before the effect, that is taken for an answer.
BugGrafanaFails(r) ==
    /\ req[r].at = "panel"
    /\ faults < MaxFaults /\ faults' = faults + 1
    /\ made' = made + 1 /\ grafana' \in {grafana, grafana \union {made + 1}}
    /\ req' = [req EXCEPT ![r].at = "insert", ![r].panel = made + 1, ![r].hit = TRUE]
    /\ broken' = broken \union Added(r)
    /\ UNCHANGED <<schema, offers, tables, source, asked, crossed>>

\* upsert_deployment_plot raises, outside of the try block, and the effect is there or not.
GrafanaFails(r) ==
    /\ req[r].at = "panel"
    /\ faults < MaxFaults /\ faults' = faults + 1
    /\ made' = made + 1 /\ grafana' \in {grafana, grafana \union {made + 1}}
    /\ req' = [req EXCEPT ![r] = [Idle EXCEPT !.at = "failed", !.kind = req[r].kind,
                                              !.panel = made + 1, !.hit = TRUE]]
    /\ broken' = broken \union Added(r) \union {made + 1}
    /\ UNCHANGED <<schema, offers, tables, source, asked, crossed>>

\* A statement fails in the try block: the transaction is no more, and the panel is taken back.
InsertFails(r) ==
    /\ req[r].at = "insert"
    /\ faults < MaxFaults /\ faults' = faults + 1
    /\ req' = [req EXCEPT ![r].new = {}, ![r].todo = <<>>, ![r].at = "undo", ![r].hit = TRUE]
    /\ broken' = broken \union Added(r)
    /\ UNCHANGED <<schema, offers, tables, grafana, source, made, asked, crossed>>

Step(r) ==
    \/ LookUp(r) \/ Declare(r) \/ Provision(r) \/ Insert(r) \/ Unprovision(r)
    \/ Cut(r) \/ Find(r) \/ Drop(r)
    \/ Purge(r) \/ Cascade(r)
    \/ Commit(r)

Next == \E r \in Requests : Ask(r) \/ Step(r) \/ Break(r) \/ GrafanaFails(r) \/ InsertFails(r)

Spec == Init /\ [][Next]_vars

\* A request that is served goes on: its statements wait only for those that do.
FairSpec == Spec /\ \A r \in Requests : WF_vars(Step(r))

-----------------------------------------------------------------------------
(* Properties.                                                             *)

\* A deployment has two panels of one default only if two lists that found it missing
\* overlapped, the end of a list being its commit and not its answer: nothing in the tables
\* forbids it, and a locked panel can never be deleted again.
DefaultsAreDoubledOnlyByOverlaps ==
    \A i \in DOMAIN DefaultTypes :
        Cardinality({p \in Joined : row[p] = System(DefaultTypes[i])}) > 1 => crossed

\* A panel that a list returns has its Grafana dashboard, unless a delete has taken it away
\* that has not come to its commit or that failed: the code does not restore it.
RowsHaveTheirPanel ==
    \A p \in Joined :
        \/ p \in grafana \union broken
        \/ \E r \in Requests : Serving(r) /\ req[r].kind = "delete" /\ req[r].panel = p

\* A Grafana dashboard that no row of the deployment leads to is being made, or a fault hit
\* the request that made or was to delete it, or the deployment has been purged.
OrphansAreExplained ==
    \A p \in grafana :
        \/ p \in Joined \union broken
        \/ row[p] # Gone /\ ~present
        \/ \E r \in Requests : Serving(r) /\ p \in About(r)

\* The rows of the deployment and the dashboards in Grafana agree, but for what is under way,
\* what a fault has hit, and what a purge leaves behind.
PanelsFollowRows == RowsHaveTheirPanel /\ OrphansAreExplained

\* A request that no fault has hit fails only because another one has taken away what it was
\* about: requests that race to create the data source or delete the same panel all succeed
\* or are told so.
FailuresAreExplained ==
    \A r \in Requests :
        req[r].at = "failed" /\ ~req[r].hit =>
            IF req[r].kind = "delete" THEN req[r].panel \notin Joined ELSE ~present

\* Every request comes to its end: those that wait for rows do not wait for each other.
RequestsEnd == \A r \in Requests : Serving(r) ~> ~Serving(r)

\* A panel that a user saves shows values of its field, and no others, whatever payloads the
\* schema lets through the gateway: what the walk over the schema writes down as a path is
\* what the query of the panel reads.  (The rows of a panel never change.)
PanelsShowTheirKind ==
    \A r \in Requests : req[r].kind = "create" /\ req[r].at = "commit" =>
        \A x \in req[r].new : Readable(x[2], Payloads(Schemas[schema][x[2].source]))

\* The purge's docstring: "Permanently remove a deployment record and dependent observability
\* data."  It leaves the rows of dashboard, to which nothing leads, and what Grafana has.
PurgesLeaveNothing ==
    ~present /\ (\A r \in Requests : ~Serving(r)) =>
        grafana \subseteq broken /\ \A p \in Panels : row[p] = Gone
=============================================================================
