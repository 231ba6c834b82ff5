--------------------------- MODULE ExperimentRuns ---------------------------
(***************************************************************************)
(* Runs of one experiment: the SDK's RunContext in training scripts, the   *)
(* calls it makes, and the control plane's handlers, each a PostgreSQL     *)
(* transaction under READ COMMITTED that reads the run before it writes.   *)
(* A client that gave up waiting does not stop the handler, so the calls   *)
(* of one script can overlap.                                              *)
(*                                                                         *)
(* Every run is driven by the context that started it, in one thread: the  *)
(* dashboard has no operation that logs to or ends a run.  Its experiment  *)
(* page lists the runs, page by page, while the scripts go on.             *)
(*                                                                         *)
(* Definitions named Bug... are not part of the specification: each is the *)
(* definition below it with a plausible programming error.                 *)
(***************************************************************************)
EXTENDS Integers, Sequences, FiniteSets, SequencesExt

CONSTANTS
    Runs,           \* identities (UUIDs) a run row can be given
    Steps,          \* step numbers
    Batches,        \* metric batches a script logs
    StepsOf,        \* [Batches -> Seq(Steps)] their items, duplicates removed
    Contexts,       \* RunContext objects, one per training script
    Orders,         \* orders in which the page lists runs: [by, dir] records
    PageSize,       \* runs on a page
    None,
    MaxCalls,       \* bound: HTTP calls ever made
    MaxTimeouts,    \* bound: calls given up while the handler runs
    MaxFaults       \* bound: handlers that fail and answers that are lost

ASSUME RunsAssumption ==
    /\ StepsOf \in [Batches -> Seq(Steps)]
    /\ Steps \subseteq Nat /\ IsFiniteSet(Steps)     \* a column of 32 bits
    /\ Orders \subseteq [by : {"run_number", "status"}, dir : {"asc", "desc"}]
    /\ PageSize \in Nat \ {0}
    /\ None \notin Runs \union Batches
    /\ MaxCalls \in Nat /\ MaxTimeouts \in Nat /\ MaxFaults \in Nat

VARIABLES
    status,     \* [Runs -> ...] run.status_id, and no row yet
    number,     \* [Runs -> Nat] run.number, 0 while there is no row
    rows,       \* [Runs -> [Steps -> ...]] the batch each run_step row is from
    calls,      \* sequence of calls: requests, and the handlers that serve them
    ctx,        \* [Contexts -> Context] the scripts
    page,       \* Page: the experiment page, and the request that fills it
    timeouts, faults    \* environment events so far

tables == <<status, number, rows>>
budget == <<timeouts, faults>>
vars == <<status, number, rows, calls, ctx, page, timeouts, faults>>

Terminal == {"COMPLETED", "FAILED"}
Kinds    == {"start", "append", "complete", "fail"}
Finished == {"ok", "conflict", "error"}

Call == [kind  : Kinds, run : Runs,
         batch : Batches \union {None},
         at    : {"arrived", "write"} \union Finished,
         num   : Nat,       \* what get_next_number returned
         held  : Nat]       \* rows of the batch it has written and locked

Context == [at   : {"new", "body", "exit", "left", "dead"},
            run  : Runs \union {None},
            call : Nat,         \* the call it waits for, 0 for none
            terminal : BOOLEAN, \* _terminal
            told : {"RUNNING"} \union Terminal,     \* _run.status
            clean : BOOLEAN]    \* no call has raised out of the with statement

View == [run : Runs, status : {"RUNNING"} \union Terminal, latest : Batches \union {None}]

Page == [at     : {"closed", "asked", "building", "shown"},
         order  : Orders,
         offset : Nat,
         todo   : Seq(Runs),    \* runs whose steps are still to be read
         items  : Seq(View),    \* responses built, in the order of the rows
         total  : Nat,          \* of the page that is shown
         walk   : Seq(View),    \* what the pages up to this one have shown
         reads  : Seq([Runs -> {"none", "RUNNING"} \union Terminal])]
                                \* the rows each of its listings has found

TablesTypeOK ==
    /\ status \in [Runs -> {"none", "RUNNING"} \union Terminal]
    /\ number \in [Runs -> Nat]
    /\ rows \in [Runs -> [Steps -> Batches \union {None}]]
    /\ calls \in Seq(Call)
    /\ \A i \in DOMAIN calls :
         /\ calls[i].kind = "append" <=> calls[i].batch # None
         /\ calls[i].held # 0 => calls[i].kind = "append" /\ calls[i].at = "write"
    /\ ctx \in [Contexts -> Context]
    /\ \A c \in Contexts : ctx[c].call \in {0} \union DOMAIN calls
    /\ timeouts \in 0..MaxTimeouts /\ faults \in 0..MaxFaults

TypeOK == TablesTypeOK /\ page \in Page

Init ==
    /\ status = [r \in Runs |-> "none"]
    /\ number = [r \in Runs |-> 0]
    /\ rows = [r \in Runs |-> [s \in Steps |-> None]]
    /\ calls = <<>>
    /\ ctx = [c \in Contexts |-> [at |-> "new", run |-> None, call |-> 0,
                                  terminal |-> FALSE, told |-> "RUNNING", clean |-> TRUE]]
    /\ page \in [at : {"closed"}, order : Orders, offset : {0}, todo : {<<>>},
                 items : {<<>>}, total : {0}, walk : {<<>>}, reads : {<<>>}]
    /\ timeouts = 0 /\ faults = 0

Exists(r) == status[r] # "none"

-----------------------------------------------------------------------------
(* The script: RunContext as a context manager, in one thread.             *)

Waiting(c) == ctx[c].call # 0

\* An HTTP request leaves.
Send(kind, run, batch) ==
    /\ Len(calls) < MaxCalls
    /\ calls' = Append(calls, [kind |-> kind, run |-> run, batch |-> batch,
                               at |-> "arrived", num |-> 0, held |-> 0])

\* c waits for the answer to the request that has just left.
Await(c, at) == ctx' = [ctx EXCEPT ![c].call = Len(calls) + 1, ![c].at = at]

\* __enter__: _start_run.  The server gives the run an identity nobody has.
Enter(c) ==
    /\ ctx[c].at = "new" /\ ~Waiting(c)
    /\ \E r \in Runs :
         /\ ~Exists(r) /\ \A i \in DOMAIN calls : calls[i].run # r
         /\ Send("start", r, None)
    /\ Await(c, "new")
    /\ UNCHANGED <<tables, page, budget>>

InBody(c) == ctx[c].at = "body" /\ ~Waiting(c)

\* log_batch, which does not look at _terminal.
LogBatch(c) ==
    /\ InBody(c)
    /\ \E b \in Batches : Send("append", ctx[c].run, b)
    /\ Await(c, "body")
    /\ UNCHANGED <<tables, page, budget>>

\* _terminal set before the call in place of after it.
BugEndOnce(c, at) ==
    /\ ~ctx[c].terminal
    /\ \E kind \in {"complete", "fail"} : Send(kind, ctx[c].run, None)
    /\ ctx' = [ctx EXCEPT ![c].call = Len(calls) + 1, ![c].at = at, ![c].terminal = TRUE]

\* complete() and fail() call the server unless a call of theirs has succeeded.
EndOnce(c, at) ==
    /\ ~ctx[c].terminal
    /\ \E kind \in {"complete", "fail"} : Send(kind, ctx[c].run, None)
    /\ Await(c, at)

\* The script calls complete() or fail() itself.
EndInBody(c) ==
    /\ InBody(c)
    /\ EndOnce(c, "body")
    /\ UNCHANGED <<tables, page, budget>>

\* The end of the with statement, normally or with an exception: __exit__ completes or
\* fails the run.
Exit(c) ==
    /\ InBody(c)
    /\ \/ EndOnce(c, "exit")
       \/ /\ ctx[c].terminal
          /\ ctx' = [ctx EXCEPT ![c].at = "left"]
          /\ UNCHANGED calls
    /\ UNCHANGED <<tables, page, budget>>

\* What the script learns: c when the answer to call has been processed.  An error is
\* raised; in the body the script may catch it, in __enter__ and __exit__ it leaves.
Hear(c, call) ==
    LET ended == call.kind \in {"complete", "fail"} IN
    IF call.at = "ok"
    THEN CASE call.kind = "start" -> [c EXCEPT !.at = "body", !.run = call.run, !.call = 0]
           [] call.kind = "append" -> [c EXCEPT !.call = 0]
           [] ended -> [c EXCEPT !.call = 0, !.terminal = TRUE,
                          !.told = IF call.kind = "complete" THEN "COMPLETED" ELSE "FAILED",
                          !.at = IF @ = "exit" THEN "left" ELSE @]
    ELSE IF c.at = "body" THEN [c EXCEPT !.call = 0]
         ELSE [c EXCEPT !.call = 0, !.at = "left", !.clean = FALSE]

\* The answer arrives.
Deliver(c) ==
    /\ Waiting(c) /\ calls[ctx[c].call].at \in Finished
    /\ ctx' = [ctx EXCEPT ![c] = Hear(ctx[c], calls[ctx[c].call])]
    /\ UNCHANGED <<tables, calls, page, budget>>

Broken(call) == [call EXCEPT !.at = "error"]

\* The handler is done and its answer is lost, or building it fails after the commit.
LoseAnswer(c) ==
    /\ Waiting(c) /\ calls[ctx[c].call].at \in Finished
    /\ faults < MaxFaults /\ faults' = faults + 1
    /\ ctx' = [ctx EXCEPT ![c] = Hear(ctx[c], Broken(calls[ctx[c].call]))]
    /\ UNCHANGED <<tables, calls, page, timeouts>>

\* The client gives up while the handler goes on.
TimeOut(c) ==
    /\ Waiting(c) /\ calls[ctx[c].call].at \notin Finished
    /\ timeouts < MaxTimeouts /\ timeouts' = timeouts + 1
    /\ ctx' = [ctx EXCEPT ![c] = Hear(ctx[c], Broken(calls[ctx[c].call]))]
    /\ UNCHANGED <<tables, calls, page, faults>>

\* The script's process is killed, by the kernel for its memory for example.
Kill(c) ==
    /\ ctx[c].at \in {"new", "body", "exit"}
    /\ ctx' = [ctx EXCEPT ![c].at = "dead", ![c].call = 0]
    /\ UNCHANGED <<tables, calls, page, budget>>

-----------------------------------------------------------------------------
(* The control plane's handlers.                                           *)

Finish(i, outcome) == calls' = [calls EXCEPT ![i].at = outcome, ![i].held = 0]

SetMax(S) == CHOOSE n \in S : \A m \in S : m <= n
Numbers   == {number[r] : r \in {s \in Runs : Exists(s)}}

\* start_run: get_next_number reads the committed rows.
ReadNumber(i) ==
    /\ calls[i].kind = "start" /\ calls[i].at = "arrived"
    /\ calls' = [calls EXCEPT ![i].at = "write", ![i].num = SetMax(Numbers \union {0}) + 1]
    /\ UNCHANGED <<tables, ctx, page, budget>>

\* UNIQUE (experiment_id, number) left out of the schema.
BugNumberTaken(n) == FALSE

\* The unique constraint on (experiment_id, number).
NumberTaken(n) == n \in Numbers

\* INSERT and commit.  A second INSERT of a number waits for the first transaction and
\* fails when that commits.
InsertRun(i) ==
    /\ calls[i].kind = "start" /\ calls[i].at = "write"
    /\ \/ /\ NumberTaken(calls[i].num)
          /\ Finish(i, "error") /\ UNCHANGED tables
       \/ /\ ~NumberTaken(calls[i].num)
          /\ status' = [status EXCEPT ![calls[i].run] = "RUNNING"]
          /\ number' = [number EXCEPT ![calls[i].run] = calls[i].num]
          /\ Finish(i, "ok") /\ UNCHANGED rows
    /\ UNCHANGED <<ctx, page, budget>>

\* _ensure_run_is_running forgotten.
BugReadRun(i) ==
    /\ calls[i].kind # "start" /\ calls[i].at = "arrived"
    /\ calls' = [calls EXCEPT ![i].at = "write"]
    /\ UNCHANGED <<tables, ctx, page, budget>>

\* append_run_steps, complete_run, fail_run: read the run and _ensure_run_is_running.
ReadRun(i) ==
    /\ calls[i].kind # "start" /\ calls[i].at = "arrived"
    /\ \/ /\ status[calls[i].run] = "RUNNING"
          /\ calls' = [calls EXCEPT ![i].at = "write"]
       \/ /\ status[calls[i].run] # "RUNNING"
          /\ Finish(i, "conflict")
    /\ UNCHANGED <<tables, ctx, page, budget>>

\* update_status: UPDATE by id, whatever the row holds by now, and commit.
EndRun(i) ==
    /\ calls[i].kind \in {"complete", "fail"} /\ calls[i].at = "write"
    /\ status' = [status EXCEPT ![calls[i].run] =
                     IF calls[i].kind = "complete" THEN "COMPLETED" ELSE "FAILED"]
    /\ Finish(i, "ok")
    /\ UNCHANGED <<number, rows, ctx, page, budget>>

Items(i) == StepsOf[calls[i].batch]

\* Handler j has written the row of step s of the run and not committed.
Holds(j, r, s) ==
    /\ calls[j].run = r /\ calls[j].at = "write" /\ calls[j].kind = "append"
    /\ \E k \in 1..calls[j].held : Items(j)[k] = s

Appending(i) == calls[i].kind = "append" /\ calls[i].at = "write"

\* i's next row is locked by j.
WaitsFor(i, j) ==
    /\ Appending(i) /\ calls[i].held < Len(Items(i)) /\ j # i
    /\ Holds(j, calls[i].run, Items(i)[calls[i].held + 1])

\* The rows written without regard to those another transaction has locked.
BugUpsertRow(i) ==
    /\ Appending(i) /\ calls[i].held < Len(Items(i))
    /\ rows' = [rows EXCEPT ![calls[i].run][Items(i)[calls[i].held + 1]] = calls[i].batch]
    /\ calls' = [calls EXCEPT ![i].held = @ + 1]
    /\ UNCHANGED <<status, number, ctx, page, budget>>

\* upsert_batch: one INSERT ... ON CONFLICT DO UPDATE locks its rows one by one.
UpsertRow(i) ==
    /\ Appending(i) /\ calls[i].held < Len(Items(i))
    /\ ~\E j \in DOMAIN calls : WaitsFor(i, j)
    /\ calls' = [calls EXCEPT ![i].held = @ + 1]
    /\ UNCHANGED <<tables, ctx, page, budget>>

\* Commit: the rows become visible together and are unlocked.
CommitBatch(i) ==
    /\ Appending(i) /\ calls[i].held = Len(Items(i))
    /\ rows' = [rows EXCEPT ![calls[i].run] =
                  [s \in Steps |-> IF Holds(i, calls[i].run, s) THEN calls[i].batch ELSE @[s]]]
    /\ Finish(i, "ok")
    /\ UNCHANGED <<status, number, ctx, page, budget>>

\* i is on a cycle of transactions that wait for one another.
Deadlocked(i) ==
    \E S \in SUBSET {j \in DOMAIN calls : Appending(j)} :
        /\ i \in S
        /\ \A j \in S : \E k \in S : WaitsFor(j, k)
        /\ \A k \in S : \E j \in S : WaitsFor(j, k)

\* A failed transaction that is not rolled back.
BugKeepLocks(i) == calls' = [calls EXCEPT ![i].at = "write"]

\* get_db's except clause.
Rollback(i) == Finish(i, "error")

\* PostgreSQL aborts a transaction of the cycle.
AbortDeadlocked(i) ==
    /\ Deadlocked(i)
    /\ Rollback(i)
    /\ UNCHANGED <<tables, ctx, page, budget>>

\* The handler fails, or its process dies, before it commits.
HandlerFails(i) ==
    /\ calls[i].at \notin Finished
    /\ faults < MaxFaults /\ faults' = faults + 1
    /\ Rollback(i)
    /\ UNCHANGED <<tables, ctx, page, timeouts>>

Handle(i) ==
    \/ ReadNumber(i) \/ InsertRun(i) \/ ReadRun(i) \/ EndRun(i)
    \/ UpsertRow(i) \/ CommitBatch(i) \/ AbortDeadlocked(i)

-----------------------------------------------------------------------------
(* The experiment page: list_runs, and the pages cut from it.  Nothing is  *)
(* locked, and every statement reads what is committed when it runs.       *)

\* Rows in whatever order the database finds them.
BugListByExperiment == SetToSeqs({r \in Runs : Exists(r)})

\* list_by_experiment: the latest number first.
ListByExperiment ==
    {l \in SetToSeqs({r \in Runs : Exists(r)}) :
        \A i, j \in DOMAIN l : i < j => number[l[i]] > number[l[j]]}

\* _latest_metrics_from_steps: the last step's values win.
Latest(r) ==
    LET logged == {s \in Steps : rows[r][s] # None}
    IN IF logged = {} THEN None ELSE rows[r][SetMax(logged)]

\* The dashboard asks for the first page, or for the next one.
AskPage ==
    /\ \/ page.at = "closed" /\ page' = [page EXCEPT !.at = "asked"]
       \/ /\ page.at = "shown" /\ page.offset + PageSize < page.total
          /\ page' = [page EXCEPT !.at = "asked", !.offset = @ + PageSize]
    /\ UNCHANGED <<tables, calls, ctx, budget>>

\* list_by_experiment reads all rows of the experiment, with their status.
ListRuns ==
    /\ page.at = "asked"
    /\ \E runs \in ListByExperiment :
         page' = [page EXCEPT !.at = "building", !.todo = runs,
                              !.reads = Append(@, status)]
    /\ UNCHANGED <<tables, calls, ctx, budget>>

\* _build_run_response: the steps of one run, by a statement of their own.
ReadSteps ==
    /\ page.at = "building" /\ page.todo # <<>>
    /\ LET run == Head(page.todo)
       IN page' = [page EXCEPT !.todo = Tail(@),
              !.items = Append(@, [run |-> run, status |-> Last(page.reads)[run],
                                   latest |-> Latest(run)])]
    /\ UNCHANGED <<tables, calls, ctx, budget>>

\* The values sorted by: the names of the statuses sort as COMPLETED, FAILED, RUNNING.
Key(view) ==
    IF page.order.by = "run_number" THEN number[view.run]
    ELSE CHOOSE k \in 1..3 : <<"COMPLETED", "FAILED", "RUNNING">>[k] = view.status

\* page_items: a sort that keeps the order of equal items in both directions.  The k-th
\* item is the one that k - 1 items come ahead of.
Sorted(items) ==
    LET Before(i, j) == IF page.order.dir = "asc" THEN Key(items[i]) < Key(items[j])
                                                  ELSE Key(items[i]) > Key(items[j])
        Ahead(i) == {j \in DOMAIN items : Before(j, i) \/ (~Before(i, j) /\ j < i)}
    IN [k \in DOMAIN items |-> items[CHOOSE i \in DOMAIN items : Cardinality(Ahead(i)) = k - 1]]

\* page_items: the slice, and the answer.
ShowPage ==
    /\ page.at = "building" /\ page.todo = <<>>
    /\ page' = [page EXCEPT !.at = "shown", !.total = Len(page.items), !.items = <<>>,
                   !.walk = @ \o SubSeq(Sorted(page.items), page.offset + 1,
                                        Min({page.offset + PageSize, Len(page.items)}))]
    /\ UNCHANGED <<tables, calls, ctx, budget>>

Next ==
    \/ AskPage \/ ListRuns \/ ReadSteps \/ ShowPage
    \/ \E c \in Contexts :
         \/ Enter(c) \/ LogBatch(c) \/ EndInBody(c) \/ Exit(c)
         \/ Deliver(c) \/ LoseAnswer(c) \/ TimeOut(c) \/ Kill(c)
    \/ \E i \in DOMAIN calls : Handle(i) \/ HandlerFails(i)

Spec == Init /\ [][Next]_vars

\* The control plane runs its handlers; nothing makes scripts act or calls fail.
FairSpec == Spec /\ \A i \in 1..MaxCalls : WF_vars(i \in DOMAIN calls /\ Handle(i))

-----------------------------------------------------------------------------
(* Properties.                                                             *)

\* The runs of an experiment are numbered 1, 2, 3, ... without gaps or repetitions,
\* although their numbers are computed from what other transactions may be changing.
NumbersAreConsecutive ==
    LET existing == {r \in Runs : Exists(r)} IN
    /\ Numbers = 1..Cardinality(existing)
    /\ Cardinality(Numbers) = Cardinality(existing)

\* A script that leaves its with statement without an error of the SDK leaves a run
\* that has ended, and, unless it once gave up on a call, ended as it was told.
CleanExitsEndTheRun ==
    \A c \in Contexts : ctx[c].at = "left" /\ ctx[c].clean =>
        /\ status[ctx[c].run] \in Terminal
        /\ timeouts = 0 => status[ctx[c].run] = ctx[c].told

SameSteps(a, b) ==
    {StepsOf[a][i] : i \in DOMAIN StepsOf[a]} = {StepsOf[b][i] : i \in DOMAIN StepsOf[b]}

\* Batches of one set of steps replace one another whole: no reader ever sees rows of
\* two of them side by side, however their handlers interleave, deadlock or fail.
BatchesDoNotMix ==
    \A r \in Runs, s, t \in Steps :
        LET a == rows[r][s]
            b == rows[r][t]
        IN (a # None /\ b # None) => (SameSteps(a, b) => a = b)

\* The runs of an experiment that the pages of one walk have shown.
Walked == {page.walk[i].run : i \in DOMAIN page.walk}

\* Whoever goes through the pages of an experiment sees every run exactly once, provided
\* that no run has started or ended between the pages, although each page is a listing of
\* its own and runs of one status are tied; and a run that is shown to have ended is shown
\* with its final metrics, although its status was read before them.
PagesShowTheRuns ==
    LET steady == \A i \in DOMAIN page.reads : page.reads[i] = page.reads[1]
        last   == page.offset + PageSize >= page.total
    IN page.at = "shown" =>
        /\ steady => Cardinality(Walked) = Len(page.walk)
        /\ steady /\ last => Walked = {r \in Runs : page.reads[1][r] # "none"}
        /\ timeouts = 0 => \A i \in DOMAIN page.walk :
              page.walk[i].status \in Terminal => page.walk[i].latest = Latest(page.walk[i].run)

Frozen(r) == status'[r] = status[r] /\ rows'[r] = rows[r]

\* Once a run has ended nothing of it changes, as long as no script gives up on a call
\* that is still being served.
EndedRunsAreFrozen ==
    [][timeouts = 0 => \A r \in Runs : status[r] \in Terminal => Frozen(r)]_vars

\* Every call is served to its end: transactions that wait for one another's rows do
\* not wait for ever.
CallsAreServed ==
    \A i \in 1..MaxCalls : (i \in DOMAIN calls) ~> (i \in DOMAIN calls /\ calls[i].at \in Finished)
=============================================================================
