---------------------------- MODULE RunDashboards ----------------------------
(***************************************************************************)
(* The saved plots of one run: rows of dashboard and run_dashboard in      *)
(* PostgreSQL, and a Grafana dashboard for each.  A request changes both   *)
(* stores one after the other: Grafana by an HTTP call outside the         *)
(* transaction, the rows in a transaction of several statements, and when  *)
(* the second one fails it takes back what it did in the first.            *)
(*                                                                         *)
(* Transactions run under READ COMMITTED: a statement reads what is        *)
(* committed and what its own transaction has written, and a write waits   *)
(* for the lock of its row.                                                *)
(*                                                                         *)
(* Definitions named Bug... are not part of the specification: each is the *)
(* definition below it with a plausible programming error.                 *)
(***************************************************************************)
EXTENDS SequencesExt

CONSTANTS
    Configs,        \* what a plot shows: its title, type and metrics
    Gone,           \* in place of a row or a dashboard that does not exist
    Kept,           \* in place of a row that a transaction has not written
    Requests,       \* requests served at the same time
    Targets,        \* display orders an update may ask for
    Limit,          \* saved plots a run may have: 4 in the code
    MaxPlots,       \* bound: plots ever created
    MaxAsked,       \* bound: requests ever made
    MaxFailures     \* bound: calls and statements that fail, requests that die

ASSUME DashboardsAssumption ==
    /\ IsFiniteSet(Requests) /\ Configs # {}
    /\ Gone # Kept /\ {Gone, Kept} \cap (Configs \union Nat) = {}
    /\ Targets \subseteq Nat
    /\ Limit \in Nat /\ MaxPlots \in Nat /\ MaxAsked \in Nat /\ MaxFailures \in Nat

\* A plot is named by its grafana_uid; created_at increases with it.
Plots == 1..MaxPlots

VARIABLES
    config,     \* [Plots -> ...] committed dashboard rows: name and config_data
    order,      \* [Plots -> ...] committed run_dashboard rows: display_order
    grafana,    \* [Plots -> ...] the dashboards Grafana has
    made,       \* plots created so far
    asked,      \* requests made so far
    req,        \* [Requests -> Request] the handlers' local state
    failures,   \* failures so far; a crash counts once for each request it ends
    overlapped  \* some request began while another was served (history)

tables == <<config, order>>
vars == <<config, order, grafana, made, asked, req, failures, overlapped>>

\* Steps inside the try block: an exception rolls back and compensates.
TrySteps == {"row", "write", "cascade", "list", "item", "move", "commit"}
Busy     == {"call", "undo"} \union TrySteps

Request == [at     : {"idle", "failed"} \union Busy,
            kind   : {"create", "update", "delete"},
            plot   : Plots \union {0},          \* 0 while a new one has no name
            want   : Configs,
            target : Nat \union {Gone},         \* display_order asked for, if any
            old    : Configs \union {Gone},     \* existing, as it was read
            count  : Nat,                       \* len(existing)
            todo   : Seq([plot : Plots, to : Nat]),     \* display orders to set
            config : [Plots -> Configs \union {Gone, Kept}],  \* uncommitted
            order  : [Plots -> Nat \union {Gone, Kept}],      \* writes and locks
            before : [config : [Plots -> Configs \union {Gone}],
                      order  : [Plots -> Nat \union {Gone}]] \union {Gone}]
            \* the tables when the request began, until it overlaps another or fails
            \* in a way that leaves open what took effect (history)

Untouched == [p \in Plots |-> Kept]

Serving(r) == req[r].at \in Busy
Nobody     == \A r \in Requests : ~Serving(r)
Saved      == {p \in Plots : config[p] # Gone}

TypeOK ==
    /\ config \in [Plots -> Configs \union {Gone}]
    /\ order \in [Plots -> Nat \union {Gone}]
    /\ \A p \in Plots : config[p] = Gone <=> order[p] = Gone
    /\ grafana \in [Plots -> Configs \union {Gone}]
    /\ made \in 0..MaxPlots /\ asked \in 0..MaxAsked
    /\ req \in [Requests -> Request]
    /\ \A r \in Requests :
         /\ req[r].plot \in 0..made
         /\ req[r].at \in TrySteps \union {"undo"} => req[r].plot # 0
         /\ req[r].at \notin TrySteps => req[r].config = Untouched /\ req[r].order = Untouched
         /\ req[r].at = "move" => req[r].todo # <<>>
    /\ failures \in 0..MaxFailures /\ overlapped \in BOOLEAN

Fresh == [at |-> "idle", kind |-> "create", plot |-> 0, want |-> CHOOSE c \in Configs : TRUE,
          target |-> Gone, old |-> Gone, count |-> 0, todo |-> <<>>,
          config |-> Untouched, order |-> Untouched, before |-> Gone]

Init ==
    /\ config = [p \in Plots |-> Gone]
    /\ order = [p \in Plots |-> Gone]
    /\ grafana = [p \in Plots |-> Gone]
    /\ made = 0 /\ asked = 0
    /\ req = [r \in Requests |-> Fresh]
    /\ failures = 0 /\ overlapped = FALSE

-----------------------------------------------------------------------------
(* Transactions.                                                           *)

Overlay(draft, table) == [p \in Plots |-> IF draft[p] # Kept THEN draft[p] ELSE table[p]]

\* What a statement of r reads.
SeesConfig(r) == Overlay(req[r].config, config)
SeesOrder(r)  == Overlay(req[r].order, order)
Visible(r)    == {p \in Plots : SeesConfig(r)[p] # Gone}

\* list_by_run: by display_order, then by created_at.
Before(r, p, q) ==
    \/ SeesOrder(r)[p] < SeesOrder(r)[q]
    \/ SeesOrder(r)[p] = SeesOrder(r)[q] /\ p < q

Listings(r) ==
    {l \in [1..Cardinality(Visible(r)) -> Visible(r)] :
        \A i, j \in DOMAIN l : i < j => Before(r, l[i], l[j])}

ConfigFree(r, p) == \A q \in Requests \ {r} : req[q].config[p] = Kept
OrderFree(r, p)  == \A q \in Requests \ {r} : req[q].order[p] = Kept

Goto(r, step) == req' = [req EXCEPT ![r].at = step]

\* A request ends or rolls back: its writes and locks are no more.
Release(r, step) ==
    req' = [req EXCEPT ![r].at = step, ![r].config = Untouched, ![r].order = Untouched,
                       ![r].todo = <<>>]

Reading == UNCHANGED <<tables, grafana, made, asked, failures, overlapped>>

-----------------------------------------------------------------------------
(* The handlers: create_run_dashboard, update_run_dashboard,               *)
(* delete_run_dashboard.                                                   *)

\* The run to itself, and the stores agree.
Snapshot == IF Nobody /\ grafana = config THEN [config |-> config, order |-> order] ELSE Gone

\* r becomes the request q; the others are no longer alone.
Begin(r, q) ==
    /\ req' = [s \in Requests |-> IF s = r THEN q ELSE [req[s] EXCEPT !.before = Gone]]
    /\ overlapped' = (overlapped \/ ~Nobody)
    /\ asked < MaxAsked /\ asked' = asked + 1
    /\ UNCHANGED <<tables, grafana, made, failures>>

\* A create that has no uid yet.
Creating(r) == req[r].at = "call" /\ req[r].kind = "create"

\* A request begins with a query.  One that this query turns down, at the limit (400) or
\* without its plot (404), ends there.
AskCreate(r, want) ==
    /\ ~Serving(r)
    /\ made + Cardinality({q \in Requests : Creating(q)}) < MaxPlots
    /\ Cardinality(Saved) < Limit
    /\ Begin(r, [Fresh EXCEPT !.at = "call", !.kind = "create", !.want = want,
                              !.count = Cardinality(Saved), !.before = Snapshot])

AskUpdate(r, p, want, target) ==
    /\ ~Serving(r) /\ p \in Saved
    /\ Begin(r, [Fresh EXCEPT !.at = IF want # config[p] THEN "call" ELSE "row",
                              !.kind = "update", !.plot = p, !.old = config[p],
                              !.want = want, !.target = target, !.before = Snapshot])

AskDelete(r, p) ==
    /\ ~Serving(r) /\ p \in Saved
    /\ Begin(r, [Fresh EXCEPT !.at = "call", !.kind = "delete", !.plot = p,
                              !.old = config[p], !.before = Snapshot])

Ask(r) ==
    \/ \E want \in Configs :
         \/ AskCreate(r, want)
         \/ \E p \in Plots, target \in Targets \union {Gone} : AskUpdate(r, p, want, target)
    \/ \E p \in Plots : AskDelete(r, p)

Changed(r) == req[r].want # req[r].old

\* An upsert of the existing configuration in place of the candidate.
BugUpsertExisting(r) ==
    CASE req[r].kind = "create" -> req[r].want
      [] req[r].kind = "update" -> req[r].old
      [] req[r].kind = "delete" -> Gone

\* What the call to Grafana leaves of a plot.
Wanted(r) == IF req[r].kind = "delete" THEN Gone ELSE req[r].want

Done(r) == req' = [req EXCEPT ![r] = Fresh]

\* An error is reported: all is clear but whether it left something open.
Fail(r, before) == req' = [req EXCEPT ![r] = [Fresh EXCEPT !.at = "failed", !.before = before]]

\* upsert_run_plot, with a new uid for a create, or delete_dashboard, for which a
\* missing dashboard (404) is as good.  The call succeeds, or takes effect and its
\* answer is lost; the try block begins after it.
CallGrafana(r) ==
    /\ req[r].at = "call"
    /\ \E p \in Plots :
         /\ IF req[r].kind = "create" THEN p = made + 1 ELSE p = req[r].plot
         /\ made' = IF req[r].kind = "create" THEN p ELSE made
         /\ grafana' = [grafana EXCEPT ![p] = Wanted(r)]
         /\ \/ /\ req' = [req EXCEPT ![r].at = "row", ![r].plot = p]
               /\ UNCHANGED failures
            \/ /\ Fail(r, Gone)
               /\ failures < MaxFailures /\ failures' = failures + 1
    /\ UNCHANGED <<tables, asked, overlapped>>

\* Roll back, then compensate.
Raise(r) == Release(r, "undo")

\* INSERT of the new rows; or the SELECT of the row to be updated or deleted.
Row(r) ==
    /\ req[r].at = "row"
    /\ \/ /\ req[r].kind = "create"
          /\ req' = [req EXCEPT ![r].at = "commit",
                                ![r].config[req[r].plot] = req[r].want,
                                ![r].order[req[r].plot] = req[r].count]
       \/ /\ req[r].kind # "create" /\ req[r].plot \notin Visible(r)
          /\ Raise(r)
       \/ /\ req[r].kind = "update" /\ req[r].plot \in Visible(r)
          /\ Goto(r, IF config[req[r].plot] # req[r].want THEN "write"
                     ELSE IF req[r].target # Gone THEN "list" ELSE "commit")
       \/ /\ req[r].kind = "delete" /\ req[r].plot \in Visible(r)
          /\ Goto(r, "write")
    /\ Reading

\* UPDATE of the dashboard row, which must still be there; or its DELETE, which need
\* not.
Write(r) ==
    LET p == req[r].plot IN
    /\ req[r].at = "write" /\ ConfigFree(r, p)
    /\ \/ /\ req[r].kind = "update" /\ config[p] # Gone
          /\ req' = [req EXCEPT ![r].config[p] = req[r].want,
                                ![r].at = IF req[r].target # Gone THEN "list" ELSE "commit"]
       \/ req[r].kind = "update" /\ config[p] = Gone /\ Raise(r)
       \/ /\ req[r].kind = "delete" /\ config[p] # Gone
          /\ req' = [req EXCEPT ![r].config[p] = Gone, ![r].at = "cascade"]
       \/ req[r].kind = "delete" /\ config[p] = Gone /\ Goto(r, "list")
    /\ Reading

\* The foreign key deletes the run_dashboard row.
Cascade(r) ==
    /\ req[r].at = "cascade" /\ OrderFree(r, req[r].plot)
    /\ req' = [req EXCEPT ![r].order[req[r].plot] = Gone, ![r].at = "list"]
    /\ Reading

\* The display orders a listing l gives to plots, from 0 upwards.
Places(l) == [i \in DOMAIN l |-> [plot |-> l[i], to |-> i - 1]]

AtMost(a, b) == IF a < b THEN a ELSE b

\* _reorder_run_dashboards: the plot moved to its target, clamped.
Reordered(l, p, target) ==
    LET at == CHOOSE i \in DOMAIN l : l[i] = p
    IN  Places(InsertAt(RemoveAt(l, at), AtMost(target, Len(l) - 1) + 1, p))

\* The other plots left as they are.
BugNoReindex(r, l) == {<<>>}

\* _reindex_run_dashboards: those whose display_order is not their index, in turn.
Reindexed(r, l) ==
    LET misplaced == {i \in DOMAIN l : SeesOrder(r)[l[i]] # i - 1}
    IN  {[k \in DOMAIN f |-> Places(l)[f[k]]] :
            f \in {f \in [1..Cardinality(misplaced) -> misplaced] :
                     \A i, j \in DOMAIN f : i < j => f[i] < f[j]}}

List(r) ==
    /\ req[r].at = "list"
    /\ \/ /\ req[r].kind = "update" /\ req[r].plot \notin Visible(r)
          /\ Raise(r)
       \/ /\ req[r].kind = "update" /\ req[r].plot \in Visible(r)
          /\ \E l \in Listings(r) :
               req' = [req EXCEPT ![r].at = "item",
                                  ![r].todo = Reordered(l, req[r].plot, req[r].target)]
       \/ /\ req[r].kind = "delete"
          /\ \E l \in Listings(r) : \E todo \in Reindexed(r, l) :
               req' = [req EXCEPT ![r].at = "item", ![r].todo = todo]
    /\ Reading

\* A plot that has been deleted is waited for.
BugAwaitDeleted(r) ==
    /\ req[r].at = "item"
    /\ \/ /\ req[r].todo # <<>>
          /\ Head(req[r].todo).plot \in Visible(r)
          /\ IF SeesOrder(r)[Head(req[r].todo).plot] # Head(req[r].todo).to
             THEN Goto(r, "move")
             ELSE req' = [req EXCEPT ![r].todo = Tail(@)]
       \/ /\ req[r].todo = <<>>
          /\ Goto(r, "commit")
    /\ Reading

\* SELECT of the next plot: one that has been deleted, or is in its place, needs no
\* UPDATE.  At the end a reorder reads its plot once more.
Item(r) ==
    /\ req[r].at = "item"
    /\ \/ /\ req[r].todo # <<>>
          /\ IF Head(req[r].todo).plot \in Visible(r)
                  /\ SeesOrder(r)[Head(req[r].todo).plot] # Head(req[r].todo).to
             THEN Goto(r, "move")
             ELSE req' = [req EXCEPT ![r].todo = Tail(@)]
       \/ /\ req[r].todo = <<>>
          /\ IF req[r].kind = "update" /\ req[r].plot \notin Visible(r)
             THEN Raise(r) ELSE Goto(r, "commit")
    /\ Reading

\* UPDATE of its display_order, which finds the row gone when another transaction has
\* deleted it since.
Move(r) ==
    LET p == Head(req[r].todo).plot IN
    /\ req[r].at = "move" /\ OrderFree(r, p)
    /\ IF SeesOrder(r)[p] # Gone
       THEN req' = [req EXCEPT ![r].order[p] = Head(req[r].todo).to,
                               ![r].todo = Tail(@), ![r].at = "item"]
       ELSE Raise(r)
    /\ Reading

Publish(r) == config' = SeesConfig(r) /\ order' = SeesOrder(r)

\* The commit succeeds, or takes effect and its answer is lost.
Commit(r) ==
    /\ req[r].at = "commit"
    /\ Publish(r)
    /\ \/ Done(r) /\ UNCHANGED failures
       \/ /\ req' = [req EXCEPT ![r].at = "undo", ![r].config = Untouched, ![r].order = Untouched,
                                ![r].todo = <<>>, ![r].before = Gone]
          /\ failures < MaxFailures /\ failures' = failures + 1
    /\ UNCHANGED <<grafana, made, asked, overlapped>>

\* An update that leaves the new dashboard beside the old rows.
BugUpdateUncompensated(r) ==
    CASE req[r].kind = "create" -> Gone
      [] req[r].kind = "update" -> grafana[req[r].plot]
      [] req[r].kind = "delete" -> req[r].old

\* The compensation in the except clauses, after the rollback.
Compensation(r) ==
    CASE req[r].kind = "create" -> Gone
      [] req[r].kind = "update" -> IF Changed(r) THEN req[r].old ELSE grafana[req[r].plot]
      [] req[r].kind = "delete" -> req[r].old

Undo(r) ==
    /\ req[r].at = "undo"
    /\ grafana' = [grafana EXCEPT ![req[r].plot] = Compensation(r)]
    /\ Fail(r, req[r].before)
    /\ UNCHANGED <<tables, made, asked, failures, overlapped>>

Handle(r) ==
    \/ CallGrafana(r) \/ Row(r) \/ Write(r) \/ Cascade(r) \/ List(r)
    \/ Item(r) \/ Move(r) \/ Commit(r) \/ Undo(r)

-----------------------------------------------------------------------------
(* What goes wrong.                                                        *)

\* A statement, or a call to Grafana, fails without effect: the compensation may be
\* that call.
Fails(r) ==
    /\ Serving(r) /\ failures < MaxFailures /\ failures' = failures + 1
    /\ \/ req[r].at = "call" /\ Fail(r, req[r].before)
       \/ req[r].at \in TrySteps /\ Raise(r)
       \/ req[r].at = "undo" /\ Fail(r, Gone)
    /\ UNCHANGED <<tables, grafana, made, asked, overlapped>>

\* The control plane dies, and every request with it.
Crash ==
    LET ended == {r \in Requests : Serving(r)} IN
    /\ ended # {} /\ failures + Cardinality(ended) <= MaxFailures
    /\ failures' = failures + Cardinality(ended)
    /\ req' = [r \in Requests |-> IF r \in ended THEN Fresh ELSE req[r]]
    /\ UNCHANGED <<tables, grafana, made, asked, overlapped>>

\* r's next write waits for the lock of q.
WaitsFor(r, q) ==
    \/ req[r].at = "write" /\ req[q].config[req[r].plot] # Kept
    \/ req[r].at = "cascade" /\ req[q].order[req[r].plot] # Kept
    \/ req[r].at = "move" /\ req[q].order[Head(req[r].todo).plot] # Kept

\* PostgreSQL aborts a transaction on a cycle of waiting transactions.
AbortDeadlocked(r) ==
    /\ \E S \in SUBSET Requests :
         /\ r \in S /\ Cardinality(S) > 1
         /\ \A q \in S : \E p \in S \ {q} : WaitsFor(q, p)
    /\ Raise(r)
    /\ Reading

Next ==
    \/ \E r \in Requests : Ask(r) \/ Handle(r) \/ AbortDeadlocked(r) \/ Fails(r)
    \/ Crash

Spec == Init /\ [][Next]_vars

\* Statements and calls come to an end: Grafana's client has a timeout of ten seconds,
\* and PostgreSQL looks for deadlocks.
FairSpec == Spec /\ \A r \in Requests : WF_vars(Handle(r) \/ AbortDeadlocked(r))

-----------------------------------------------------------------------------
(* Properties.                                                             *)

\* A request that had the run to itself and reports an error, after a failure that
\* left nothing open, has changed nothing in either store: its compensation undoes
\* exactly what it did.
FailedRequestsChangeNothing ==
    \A r \in Requests : req[r].at = "failed" /\ req[r].before # Gone =>
        /\ config = req[r].before.config /\ grafana = req[r].before.config
        /\ order = req[r].before.order

\* While requests come one after the other, whatever fails, a run has at most Limit
\* saved plots and their display orders are 0, 1, 2, ...
PlotsKeepTheirOrder ==
    ~overlapped =>
        /\ Cardinality(Saved) <= Limit
        /\ {order[p] : p \in Saved} = {i \in 0..MaxPlots : i < Cardinality(Saved)}

\* Every saved plot has a Grafana dashboard to show, but for one per failure, however
\* requests overlap, wait for one another and compensate; and while they come one after the
\* other, Grafana shows what the rows say and keeps no dashboard without a row, but for one
\* per failure.
StoresAgree == Nobody =>
    /\ Cardinality({p \in Saved : grafana[p] = Gone}) <= failures
    /\ ~overlapped => Cardinality({p \in Plots : grafana[p] # config[p]}) <= failures

\* Every request ends: requests that wait for one another's rows do not wait for ever.
RequestsEnd == \A r \in Requests : Serving(r) ~> ~Serving(r)
=============================================================================
