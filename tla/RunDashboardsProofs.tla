------------------------ MODULE RunDashboardsProofs ------------------------
EXTENDS RunDashboards, TLAPS, FiniteSetTheorems, SequenceTheorems

-----------------------------------------------------------------------------
(* What a transaction has written, and how transactions keep apart.        *)

Trying(r) == req[r].at \in TrySteps

\* The dashboard rows that r has written: its own plot's.
ConfigDrafts(r) ==
    \A q \in Plots : req[r].config[q] # Kept =>
        /\ q = req[r].plot
        /\ req[r].kind = "create" => req[r].at = "commit"
        /\ req[r].kind = "update" => req[r].config[q] = req[r].want /\ config[q] # Gone
        /\ req[r].kind = "delete" =>
             /\ req[r].config[q] = Gone /\ config[q] # Gone
             /\ req[r].at = "cascade" \/ req[r].order[q] = Gone

\* The run_dashboard rows that r has written: those of rows there are, but for its own plot.
OrderDrafts(r) ==
    \A q \in Plots : req[r].order[q] # Kept =>
        \/ req[r].kind = "create" /\ q = req[r].plot /\ req[r].order[q] # Gone /\ req[r].at = "commit"
        \/ req[r].kind # "create" /\ req[r].order[q] # Gone /\ order[q] # Gone
        \/ req[r].kind = "delete" /\ q = req[r].plot /\ req[r].order[q] = Gone /\ req[r].config[q] = Gone

\* What a request has found and written where it is.
Progress(r) ==
    /\ req[r].at \in {"row", "write"} => req[r].config = Untouched /\ req[r].order = Untouched
    /\ req[r].kind = "create" /\ Trying(r) =>
         req[r].at \in {"row", "commit"} /\ config[req[r].plot] = Gone
    /\ req[r].kind = "create" /\ req[r].at = "commit" =>
         /\ req[r].config[req[r].plot] = req[r].want
         /\ req[r].order[req[r].plot] = req[r].count
    /\ req[r].at = "cascade" => req[r].kind = "delete" /\ req[r].config[req[r].plot] = Gone
    /\ req[r].kind = "delete" /\ req[r].at \in {"list", "item", "move", "commit"} =>
         req[r].config[req[r].plot] = Gone \/ config[req[r].plot] = Gone
    /\ req[r].kind = "update" /\ req[r].at \in {"list", "item", "move"} => req[r].target # Gone
    /\ req[r].kind # "create" /\ Serving(r) => req[r].plot # 0 /\ req[r].old # Gone

\* A row has one writer, and the plot of a create is nobody else's until it is committed.
Apart(r, s) ==
    /\ \A q \in Plots : req[r].config[q] = Kept \/ req[s].config[q] = Kept
    /\ \A q \in Plots : req[r].order[q] = Kept \/ req[s].order[q] = Kept
    /\ req[r].kind = "create" /\ Trying(r) => req[s].plot # req[r].plot

\* Plots that have not been named do not exist.
Unnamed == \A p \in Plots : p > made => config[p] = Gone /\ grafana[p] = Gone

TablesInv ==
    /\ TypeOK
    /\ \A r \in Requests : ConfigDrafts(r) /\ OrderDrafts(r) /\ Progress(r)
    /\ \A r, s \in Requests : r # s => Apart(r, s)
    /\ Unnamed

-----------------------------------------------------------------------------
(* Types.                                                                  *)

LEMMA FreshParts ==
    /\ (CHOOSE c \in Configs : TRUE) \in Configs
    /\ Untouched \in [Plots -> Configs \union {Gone, Kept}]
    /\ Untouched \in [Plots -> Nat \union {Gone, Kept}]
    /\ <<>> \in Seq([plot : Plots, to : Nat])
<1>1. (CHOOSE c \in Configs : TRUE) \in Configs
  BY DashboardsAssumption DEF DashboardsAssumption
<1>2. Untouched \in [Plots -> Configs \union {Gone, Kept}]
      /\ Untouched \in [Plots -> Nat \union {Gone, Kept}]
  BY DEF Untouched
<1> QED
  BY <1>1, <1>2

LEMMA FreshType ==
    /\ Fresh \in Request
    /\ Fresh.at = "idle" /\ Fresh.kind = "create" /\ Fresh.plot = 0 /\ Fresh.todo = <<>>
    /\ Fresh.config = Untouched /\ Fresh.order = Untouched /\ Fresh.before = Gone
  BY FreshParts DEF Fresh, Request

\* The record of a request with another stage and other drafts.
LEMMA RequestWith ==
    ASSUME NEW x \in Request, NEW at \in {"idle", "failed"} \union Busy,
           NEW todo \in Seq([plot : Plots, to : Nat]),
           NEW cfg \in [Plots -> Configs \union {Gone, Kept}],
           NEW ord \in [Plots -> Nat \union {Gone, Kept}]
    PROVE  [x EXCEPT !.at = at, !.todo = todo, !.config = cfg, !.order = ord] \in Request
<1> DEFINE A == {"idle", "failed"} \union Busy
           B == {"create", "update", "delete"}
           C == Plots \union {0}
           D == Nat \union {Gone}
           E == Configs \union {Gone}
           F == Seq([plot : Plots, to : Nat])
           G == [Plots -> Configs \union {Gone, Kept}]
           H == [Plots -> Nat \union {Gone, Kept}]
           I == [config : [Plots -> Configs \union {Gone}],
                 order  : [Plots -> Nat \union {Gone}]] \union {Gone}
<1>1. Request = [at : A, kind : B, plot : C, want : Configs, target : D, old : E, count : Nat,
                 todo : F, config : G, order : H, before : I]
  BY DEF Request
<1>2. at \in A /\ todo \in F /\ cfg \in G /\ ord \in H
  OBVIOUS
<1> HIDE DEF A, B, C, D, E, F, G, H, I
<1> QED
  BY <1>1, <1>2

\* A step that leaves parts of the record alone.
LEMMA RequestKeeps ==
    ASSUME NEW x \in Request, NEW at, NEW cfg, NEW ord
    PROVE  /\ [x EXCEPT !.at = at, !.config = cfg, !.order = ord]
                = [x EXCEPT !.at = at, !.todo = x.todo, !.config = cfg, !.order = ord]
           /\ [x EXCEPT !.at = at, !.order = ord]
                = [x EXCEPT !.at = at, !.todo = x.todo, !.config = x.config, !.order = ord]
           /\ [x EXCEPT !.at = at, !.config = cfg]
                = [x EXCEPT !.at = at, !.todo = x.todo, !.config = cfg, !.order = x.order]
<1> DEFINE A == {"idle", "failed"} \union Busy
           B == {"create", "update", "delete"}
           C == Plots \union {0}
           D == Nat \union {Gone}
           E == Configs \union {Gone}
           F == Seq([plot : Plots, to : Nat])
           G == [Plots -> Configs \union {Gone, Kept}]
           H == [Plots -> Nat \union {Gone, Kept}]
           I == [config : [Plots -> Configs \union {Gone}],
                 order  : [Plots -> Nat \union {Gone}]] \union {Gone}
<1>1. Request = [at : A, kind : B, plot : C, want : Configs, target : D, old : E, count : Nat,
                 todo : F, config : G, order : H, before : I]
  BY DEF Request
<1> HIDE DEF A, B, C, D, E, F, G, H, I
<1> QED
  BY <1>1

\* A step of a request that goes on: what it keeps, and its new drafts.
Turns(r, at, todo, cfg, ord) ==
    /\ req'[r].at = at /\ req'[r].todo = todo /\ req'[r].config = cfg /\ req'[r].order = ord
    /\ req'[r].kind = req[r].kind /\ req'[r].plot = req[r].plot /\ req'[r].want = req[r].want
    /\ req'[r].target = req[r].target /\ req'[r].old = req[r].old
    /\ req'[r].count = req[r].count /\ req'[r].before = req[r].before
    /\ req'[r] \in Request
    /\ req' \in [Requests -> Request]
    /\ \A q \in Requests \ {r} : req'[q] = req[q]

LEMMA TurnsBy ==
    ASSUME TypeOK, NEW r \in Requests, NEW at \in Busy,
           NEW todo \in Seq([plot : Plots, to : Nat]),
           NEW cfg \in [Plots -> Configs \union {Gone, Kept}],
           NEW ord \in [Plots -> Nat \union {Gone, Kept}],
           req' = [req EXCEPT ![r] = [req[r] EXCEPT !.at = at, !.todo = todo,
                                                    !.config = cfg, !.order = ord]]
    PROVE  Turns(r, at, todo, cfg, ord)
<1> DEFINE rec == [req[r] EXCEPT !.at = at, !.todo = todo, !.config = cfg, !.order = ord]
<1>1. req[r] \in Request
  BY DEF TypeOK
<1>2. /\ rec \in Request
      /\ rec.at = at /\ rec.todo = todo /\ rec.config = cfg /\ rec.order = ord
      /\ rec.kind = req[r].kind /\ rec.plot = req[r].plot /\ rec.want = req[r].want
      /\ rec.target = req[r].target /\ rec.old = req[r].old
      /\ rec.count = req[r].count /\ rec.before = req[r].before
  <2>1. rec \in Request
    BY <1>1, RequestWith
  <2> QED
    BY <1>1, <2>1 DEF Request
<1> HIDE DEF rec
<1>3. req' = [req EXCEPT ![r] = rec]
  BY DEF rec
<1> QED
  BY <1>2, <1>3 DEF Turns, TypeOK

LEMMA GotoTurns ==
    ASSUME TypeOK, NEW r \in Requests, NEW at \in Busy, Goto(r, at)
    PROVE  Turns(r, at, req[r].todo, req[r].config, req[r].order)
<1> DEFINE rec == [req[r] EXCEPT !.at = at]
<1>1. req[r] \in Request
  BY DEF TypeOK
<1>2. rec \in Request
  BY <1>1 DEF Request, Busy
<1>3. /\ rec.at = at /\ rec.todo = req[r].todo
      /\ rec.config = req[r].config /\ rec.order = req[r].order
      /\ rec.kind = req[r].kind /\ rec.plot = req[r].plot /\ rec.want = req[r].want
      /\ rec.target = req[r].target /\ rec.old = req[r].old
      /\ rec.count = req[r].count /\ rec.before = req[r].before
  BY <1>1 DEF Request
<1>4. req' = [req EXCEPT ![r] = rec]
  BY DEF Goto
<1> HIDE DEF rec
<1> QED
  BY <1>2, <1>3, <1>4 DEF Turns, TypeOK

LEMMA RaiseTurns ==
    ASSUME TypeOK, NEW r \in Requests, Raise(r)
    PROVE  Turns(r, "undo", <<>>, Untouched, Untouched)
<1>1. /\ Untouched \in [Plots -> Configs \union {Gone, Kept}]
      /\ Untouched \in [Plots -> Nat \union {Gone, Kept}]
      /\ <<>> \in Seq([plot : Plots, to : Nat])
  BY DEF Untouched
<1>2. req' = [req EXCEPT ![r] = [req[r] EXCEPT !.at = "undo", !.todo = <<>>,
                                               !.config = Untouched, !.order = Untouched]]
  BY DEF TypeOK, Raise, Release, Request
<1> QED
  BY <1>1, <1>2, TurnsBy DEF Busy

\* A step that is seen by nobody else leaves the tables, and the other transactions, sound,
\* if its own drafts are and the rows it writes are free.
LEMMA QuietTables ==
    ASSUME TablesInv, NEW r \in Requests, Serving(r), NEW at, NEW todo, NEW cfg, NEW ord,
           Turns(r, at, todo, cfg, ord), Reading,
           req[r].plot # 0 \/ (at \notin TrySteps /\ at # "undo"),
           at \notin TrySteps => cfg = Untouched /\ ord = Untouched,
           at = "move" => todo # <<>>,
           ConfigDrafts(r)', OrderDrafts(r)', Progress(r)',
           \A q \in Plots : cfg[q] # Kept => ConfigFree(r, q),
           \A q \in Plots : ord[q] # Kept => OrderFree(r, q),
           req[r].kind = "create" /\ at \in TrySteps => Trying(r)
    PROVE  TablesInv'
<1>1. TypeOK'
  BY DEF TablesInv, TypeOK, Turns, Reading, tables
<1>0. \A s \in Requests : ConfigDrafts(s) /\ OrderDrafts(s) /\ Progress(s)
  BY DEF TablesInv
<1>2. ASSUME NEW s \in Requests \ {r}
      PROVE  ConfigDrafts(s)' /\ OrderDrafts(s)' /\ Progress(s)'
  <2>1. req'[s] = req[s] /\ config' = config /\ order' = order
    BY <1>2 DEF Turns, Reading, tables
  <2>2. ConfigDrafts(s)' /\ OrderDrafts(s)'
    BY <1>0, <1>2, <2>1 DEF ConfigDrafts, OrderDrafts
  <2>3. Progress(s)'
    BY <1>0, <1>2, <2>1 DEF Progress, Trying, Serving
  <2> QED
    BY <2>2, <2>3
<1>3. ASSUME NEW s \in Requests, NEW u \in Requests, s # u
      PROVE  Apart(s, u)'
  <2>1. Apart(s, u)
    BY <1>3 DEF TablesInv
  <2>2. CASE s # r /\ u # r
    BY <1>3, <2>1, <2>2 DEF Turns, Apart, Trying
  <2>3. CASE s = r
    <3>1. req'[u] = req[u] /\ req'[s].config = cfg /\ req'[s].order = ord
          /\ req'[s].plot = req[s].plot /\ req'[s].kind = req[s].kind /\ req'[s].at = at
      BY <1>3, <2>3 DEF Turns
    <3>2. \A q \in Plots : cfg[q] = Kept \/ req[u].config[q] = Kept
      BY <1>3, <2>3 DEF ConfigFree
    <3>3. \A q \in Plots : ord[q] = Kept \/ req[u].order[q] = Kept
      BY <1>3, <2>3 DEF OrderFree
    <3> QED
      BY <2>1, <2>3, <3>1, <3>2, <3>3 DEF Apart, Trying
  <2>4. CASE u = r
    <3>1. req'[s] = req[s] /\ req'[u].config = cfg /\ req'[u].order = ord
          /\ req'[u].plot = req[u].plot
      BY <1>3, <2>4 DEF Turns
    <3>2. \A q \in Plots : cfg[q] = Kept \/ req[s].config[q] = Kept
      BY <1>3, <2>4 DEF ConfigFree
    <3>3. \A q \in Plots : ord[q] = Kept \/ req[s].order[q] = Kept
      BY <1>3, <2>4 DEF OrderFree
    <3> QED
      BY <2>1, <2>4, <3>1, <3>2, <3>3 DEF Apart, Trying
  <2> QED
    BY <2>2, <2>3, <2>4
<1>4. Unnamed'
  BY DEF TablesInv, Unnamed, Reading, tables
<1> QED
  BY <1>1, <1>2, <1>3, <1>4 DEF TablesInv

\* A step that writes nothing ...
LEMMA QuietMove ==
    ASSUME TablesInv, NEW r \in Requests, Trying(r), NEW at \in TrySteps, NEW todo,
           Turns(r, at, todo, req[r].config, req[r].order), Reading,
           at = "move" => todo # <<>>, Progress(r)', req[r].at # "cascade"
    PROVE  TablesInv'
<1>1. Serving(r) /\ req[r].plot # 0 /\ req[r].kind \in {"create", "update", "delete"}
  BY DEF Trying, Serving, Busy, TablesInv, TypeOK, Request
<1>2. ConfigDrafts(r) /\ OrderDrafts(r) /\ Progress(r)
  BY DEF TablesInv
<1>3. config' = config /\ order' = order
  BY DEF Reading, tables
<1>4. req[r].kind = "create" => \A q \in Plots : req[r].config[q] # Kept \/ req[r].order[q] # Kept => at = "commit"
  BY <1>1, <1>2 DEF Progress, Trying, Turns, Untouched
<1>5. ConfigDrafts(r)'
  BY <1>2, <1>3, <1>4 DEF ConfigDrafts, Turns
<1>6. OrderDrafts(r)'
  BY <1>1, <1>2, <1>3, <1>4 DEF OrderDrafts, Turns
<1>7. \A q \in Plots : req[r].config[q] # Kept => ConfigFree(r, q)
  BY DEF TablesInv, Apart, ConfigFree
<1>8. \A q \in Plots : req[r].order[q] # Kept => OrderFree(r, q)
  BY DEF TablesInv, Apart, OrderFree
<1> QED
  BY <1>1, <1>5, <1>6, <1>7, <1>8, QuietTables

\* ... or rolls back.
LEMMA RaiseTables ==
    ASSUME TablesInv, NEW r \in Requests, Trying(r), Raise(r), Reading
    PROVE  TablesInv'
<1>1. Turns(r, "undo", <<>>, Untouched, Untouched)
  BY RaiseTurns DEF TablesInv
<1>2. Serving(r) /\ req[r].plot # 0
  BY DEF Trying, Serving, Busy, TablesInv, TypeOK
<1>3. ConfigDrafts(r)' /\ OrderDrafts(r)'
  BY <1>1 DEF ConfigDrafts, OrderDrafts, Turns, Untouched
<1>4. Progress(r)'
  BY <1>1, <1>2 DEF Progress, Turns, Trying, TrySteps, TablesInv
<1>5. \A q \in Plots : Untouched[q] = Kept
  BY DEF Untouched
<1> QED
  BY <1>1, <1>2, <1>3, <1>4, <1>5, QuietTables DEF TrySteps

-----------------------------------------------------------------------------
(* The statements of a transaction.                                        *)

LEMMA TypeFacts ==
    ASSUME TypeOK, NEW r \in Requests
    PROVE  /\ req[r] \in Request /\ req[r].kind \in {"create", "update", "delete"}
           /\ req[r].want \in Configs /\ req[r].count \in Nat
           /\ req[r].config \in [Plots -> Configs \union {Gone, Kept}]
           /\ req[r].order \in [Plots -> Nat \union {Gone, Kept}]
           /\ req[r].todo \in Seq([plot : Plots, to : Nat])
           /\ req[r].plot \in Plots \union {0}
           /\ Trying(r) => req[r].plot \in Plots /\ Serving(r)
  BY DEF TypeOK, Request, Trying, Serving, Busy

\* What statements read: their own drafts, else what is committed.
LEMMA Sees ==
    ASSUME NEW r \in Requests, NEW p \in Plots
    PROVE  /\ SeesConfig(r)[p] = IF req[r].config[p] # Kept THEN req[r].config[p] ELSE config[p]
           /\ SeesOrder(r)[p] = IF req[r].order[p] # Kept THEN req[r].order[p] ELSE order[p]
           /\ p \in Visible(r) <=> SeesConfig(r)[p] # Gone
  BY DEF SeesConfig, SeesOrder, Overlay, Visible

LEMMA InsertTurns ==
    ASSUME TablesInv, NEW r \in Requests, Row(r), req[r].kind = "create"
    PROVE  Turns(r, "commit", req[r].todo, [req[r].config EXCEPT ![req[r].plot] = req[r].want],
                 [req[r].order EXCEPT ![req[r].plot] = req[r].count])
<1> DEFINE cfg == [req[r].config EXCEPT ![req[r].plot] = req[r].want]
           ord == [req[r].order EXCEPT ![req[r].plot] = req[r].count]
<1>1. TypeOK /\ Trying(r)
  BY DEF TablesInv, Row, Trying, TrySteps
<1>2. /\ cfg \in [Plots -> Configs \union {Gone, Kept}]
      /\ ord \in [Plots -> Nat \union {Gone, Kept}]
      /\ req[r].todo \in Seq([plot : Plots, to : Nat])
  BY <1>1, TypeFacts
<1>3. req' = [req EXCEPT ![r].at = "commit", ![r].config[req[r].plot] = req[r].want,
                         ![r].order[req[r].plot] = req[r].count]
  BY DEF Row
<1>4. req' = [req EXCEPT ![r] = [req[r] EXCEPT !.at = "commit", !.todo = req[r].todo,
                                               !.config = cfg, !.order = ord]]
  <2>1. req' = [req EXCEPT ![r] = [req[r] EXCEPT !.at = "commit", !.config = cfg, !.order = ord]]
    BY <1>3
  <2> HIDE DEF cfg, ord
  <2>2. req[r] \in Request
    BY <1>1 DEF TypeOK
  <2> QED
    BY <2>1, <2>2, RequestKeeps
<1> HIDE DEF cfg, ord
<1>5. Turns(r, "commit", req[r].todo, cfg, ord)
  BY <1>1, <1>2, <1>4, TurnsBy DEF Busy, TrySteps
<1> QED
  BY <1>5 DEF cfg, ord

LEMMA RowTables ==
    ASSUME TablesInv, NEW r \in Requests, Row(r)
    PROVE  TablesInv'
<1>1. /\ TypeOK /\ req[r].at = "row" /\ Trying(r) /\ Reading /\ Progress(r)
      /\ req[r].kind \in {"create", "update", "delete"}
  BY TypeFacts DEF TablesInv, Row, Trying, TrySteps
<1>2. /\ req[r].config = Untouched /\ req[r].order = Untouched
      /\ req[r].plot \in Plots /\ req[r].want \in Configs /\ req[r].count \in Nat
      /\ Serving(r)
  BY <1>1, TypeFacts DEF Progress
<1>3. CASE req[r].kind = "create"
  <2> DEFINE cfg == [Untouched EXCEPT ![req[r].plot] = req[r].want]
             ord == [Untouched EXCEPT ![req[r].plot] = req[r].count]
  <2>1. Turns(r, "commit", req[r].todo, cfg, ord)
    BY <1>2, <1>3, InsertTurns
  <2>2. /\ cfg[req[r].plot] = req[r].want /\ ord[req[r].plot] = req[r].count
        /\ \A q \in Plots : q # req[r].plot => cfg[q] = Kept /\ ord[q] = Kept
    BY <1>2 DEF Untouched
  <2>3. req[r].want # Gone /\ req[r].count # Gone
    BY <1>2, DashboardsAssumption DEF DashboardsAssumption
  <2> HIDE DEF cfg, ord
  <2>4. ConfigDrafts(r)' /\ OrderDrafts(r)'
    BY <1>3, <2>1, <2>2, <2>3 DEF ConfigDrafts, OrderDrafts, Turns
  <2>5. Progress(r)'
    BY <1>1, <1>3, <2>1, <2>2 DEF Progress, Turns, Trying, TrySteps, Reading, tables
  <2>6. ASSUME NEW s \in Requests \ {r}
        PROVE  req[s].config[req[r].plot] = Kept /\ req[s].order[req[r].plot] = Kept
    <3>1. ConfigDrafts(s) /\ OrderDrafts(s) /\ req[s].plot # req[r].plot
      BY <1>1, <1>3 DEF TablesInv, Apart
    <3>2. config[req[r].plot] = Gone /\ order[req[r].plot] = Gone
      BY <1>1, <1>2, <1>3 DEF Progress, TypeOK
    <3> QED
      BY <1>2, <3>1, <3>2 DEF ConfigDrafts, OrderDrafts
  <2>7. \A q \in Plots : (cfg[q] # Kept => ConfigFree(r, q)) /\ (ord[q] # Kept => OrderFree(r, q))
    BY <2>2, <2>6 DEF ConfigFree, OrderFree
  <2>8. req[r].plot # 0 /\ "commit" \in TrySteps /\ "commit" # "move"
    BY <1>2 DEF Plots, TrySteps
  <2> QED
    BY <1>1, <1>2, <2>1, <2>4, <2>5, <2>7, <2>8, QuietTables
<1>4. CASE Raise(r)
  BY <1>1, <1>4, RaiseTables
<1>5. ASSUME req[r].kind # "create", NEW at \in {"write", "list", "commit"}, Goto(r, at),
             req[r].kind = "delete" => at = "write",
             at = "list" => req[r].target # Gone
      PROVE  TablesInv'
  <2>1. Turns(r, at, req[r].todo, req[r].config, req[r].order)
    BY <1>1, <1>5, GotoTurns DEF Busy, TrySteps
  <2>2. Progress(r)'
    BY <1>1, <1>2, <1>5, <2>1 DEF Progress, Turns, Trying, TrySteps, Serving, Busy, Reading, tables
  <2> QED
    BY <1>1, <1>5, <2>1, <2>2, QuietMove DEF TrySteps
<1> QED
  BY <1>1, <1>3, <1>4, <1>5 DEF Row

LEMMA WriteTurns ==
    ASSUME TablesInv, NEW r \in Requests, NEW c \in Configs \union {Gone}, NEW at \in TrySteps,
           Trying(r),
           req' = [req EXCEPT ![r].config[req[r].plot] = c, ![r].at = at]
    PROVE  Turns(r, at, req[r].todo, [req[r].config EXCEPT ![req[r].plot] = c], req[r].order)
<1> DEFINE cfg == [req[r].config EXCEPT ![req[r].plot] = c]
<1>1. TypeOK
  BY DEF TablesInv
<1>2. /\ cfg \in [Plots -> Configs \union {Gone, Kept}]
      /\ req[r].order \in [Plots -> Nat \union {Gone, Kept}]
      /\ req[r].todo \in Seq([plot : Plots, to : Nat])
  BY <1>1, TypeFacts
<1>3. req' = [req EXCEPT ![r] = [req[r] EXCEPT !.at = at, !.todo = req[r].todo,
                                               !.config = cfg, !.order = req[r].order]]
  <2>1. req' = [req EXCEPT ![r] = [req[r] EXCEPT !.at = at, !.config = cfg]]
    OBVIOUS
  <2> HIDE DEF cfg
  <2>2. req[r] \in Request
    BY <1>1 DEF TypeOK
  <2> QED
    BY <2>1, <2>2, RequestKeeps
<1> HIDE DEF cfg
<1>4. Turns(r, at, req[r].todo, cfg, req[r].order)
  BY <1>1, <1>2, <1>3, TurnsBy DEF Busy
<1> QED
  BY <1>4 DEF cfg

LEMMA WriteTables ==
    ASSUME TablesInv, NEW r \in Requests, Write(r)
    PROVE  TablesInv'
<1>1. /\ TypeOK /\ req[r].at = "write" /\ Trying(r) /\ Reading /\ Progress(r)
      /\ req[r].kind \in {"update", "delete"} /\ ConfigFree(r, req[r].plot)
  BY DEF TablesInv, Write, Trying, TrySteps
<1>2. /\ req[r].config = Untouched /\ req[r].order = Untouched
      /\ req[r].plot \in Plots /\ req[r].want \in Configs
      /\ Serving(r)
  BY <1>1, TypeFacts DEF Progress
<1>3. ASSUME NEW c \in Configs \union {Gone}, NEW at \in {"list", "commit", "cascade"},
             config[req[r].plot] # Gone,
             req' = [req EXCEPT ![r].config[req[r].plot] = c, ![r].at = at],
             req[r].kind = "update" => c = req[r].want /\ at # "cascade",
             req[r].kind = "delete" => c = Gone /\ at = "cascade",
             at = "list" => req[r].target # Gone
      PROVE  TablesInv'
  <2> DEFINE cfg == [Untouched EXCEPT ![req[r].plot] = c]
  <2>1. Turns(r, at, req[r].todo, cfg, req[r].order)
    BY <1>1, <1>2, <1>3, WriteTurns DEF TrySteps
  <2>2. /\ cfg[req[r].plot] = c
        /\ \A q \in Plots : q # req[r].plot => cfg[q] = Kept
        /\ \A q \in Plots : Untouched[q] = Kept
    BY <1>2 DEF Untouched
  <2> HIDE DEF cfg
  <2>3. ConfigDrafts(r)'
    BY <1>1, <1>2, <1>3, <2>1, <2>2 DEF ConfigDrafts, Turns, Reading, tables
  <2>4. OrderDrafts(r)'
    BY <1>1, <1>2, <1>3, <2>1, <2>2 DEF OrderDrafts, Turns, Reading, tables
  <2>5. Progress(r)'
    BY <1>1, <1>2, <1>3, <2>1, <2>2 DEF Progress, Turns, Trying, TrySteps, Reading, tables, Serving, Busy
  <2>6. \A q \in Plots : (cfg[q] # Kept => ConfigFree(r, q))
                         /\ (req[r].order[q] # Kept => OrderFree(r, q))
    BY <1>1, <1>2, <2>2
  <2>7. req[r].plot # 0 /\ at \in TrySteps /\ at # "move" /\ req[r].kind # "create"
    BY <1>1, <1>2, <1>3 DEF Plots, TrySteps
  <2> QED
    BY <1>1, <1>2, <2>1, <2>3, <2>4, <2>5, <2>6, <2>7, QuietTables
<1>4. CASE Raise(r)
  BY <1>1, <1>4, RaiseTables
<1>5. CASE req[r].kind = "delete" /\ config[req[r].plot] = Gone /\ Goto(r, "list")
  <2>1. Turns(r, "list", req[r].todo, req[r].config, req[r].order)
    BY <1>1, <1>5, GotoTurns DEF Busy, TrySteps
  <2>2. Progress(r)'
    BY <1>1, <1>2, <1>5, <2>1 DEF Progress, Turns, Trying, TrySteps, Serving, Busy, Reading, tables
  <2> QED
    BY <1>1, <1>5, <2>1, <2>2, QuietMove DEF TrySteps
<1>6. CASE /\ req[r].kind = "update" /\ config[req[r].plot] # Gone
           /\ req' = [req EXCEPT ![r].config[req[r].plot] = req[r].want,
                                 ![r].at = IF req[r].target # Gone THEN "list" ELSE "commit"]
  BY <1>2, <1>3, <1>6
<1>7. CASE /\ req[r].kind = "delete" /\ config[req[r].plot] # Gone
           /\ req' = [req EXCEPT ![r].config[req[r].plot] = Gone, ![r].at = "cascade"]
  BY <1>3, <1>7
<1> QED
  BY <1>4, <1>5, <1>6, <1>7 DEF Write

-----------------------------------------------------------------------------
(* The order of the plots that a transaction sees.                         *)

Consecutive(n) == {i \in 0..MaxPlots : i < n}

\* A plan has each plot once.
Once(todo) == \A i, j \in DOMAIN todo : i # j => todo[i].plot # todo[j].plot

\* The display orders that the plots of V will have when todo is done: seen until then.
Plan(V, seen, todo) ==
    {todo[j].to : j \in DOMAIN todo}
      \union {seen[p] : p \in V \ {todo[j].plot : j \in DOMAIN todo}}

Planned(r, todo) == Plan(Visible(r), SeesOrder(r), todo)

\* todo is what is left to do of a reordering of the plots that r sees.
Reorders(r, todo) ==
    /\ todo \in Seq([plot : Visible(r), to : Nat])
    /\ Once(todo)
    /\ Planned(r, todo) = Consecutive(Cardinality(Visible(r)))

LEMMA VisiblePlots ==
    ASSUME TablesInv, NEW r \in Requests
    PROVE  /\ IsFiniteSet(Visible(r)) /\ Cardinality(Visible(r)) \in 0..MaxPlots
           /\ \A p \in Visible(r) : p \in Plots /\ SeesOrder(r)[p] \in Nat
<1>1. IsFiniteSet(Plots) /\ Cardinality(Plots) = MaxPlots
  BY DashboardsAssumption, FS_Interval DEF DashboardsAssumption, Plots
<1>2. IsFiniteSet(Visible(r)) /\ Cardinality(Visible(r)) \in 0..MaxPlots
  <2>1. Visible(r) \in SUBSET Plots
    BY DEF Visible
  <2>2. IsFiniteSet(Visible(r)) /\ Cardinality(Visible(r)) <= MaxPlots
    BY <1>1, <2>1, FS_Subset
  <2> QED
    BY <2>2, FS_CardinalityType, DashboardsAssumption DEF DashboardsAssumption
<1>3. ASSUME NEW p \in Visible(r)
      PROVE  p \in Plots /\ SeesOrder(r)[p] \in Nat
  <2>1. p \in Plots
    BY DEF Visible
  <2>2. /\ TypeOK /\ ConfigDrafts(r) /\ OrderDrafts(r) /\ Progress(r)
        /\ SeesConfig(r)[p] # Gone
    BY <2>1, Sees DEF TablesInv
  <2>3. /\ config[p] = Gone <=> order[p] = Gone
        /\ order[p] \in Nat \union {Gone} /\ req[r].order[p] \in Nat \union {Gone, Kept}
        /\ req[r].kind \in {"create", "update", "delete"} /\ req[r].count \in Nat
    BY <2>1, <2>2, TypeFacts DEF TypeOK
  <2>4. CASE req[r].config[p] = Kept
    <3>1. order[p] \in Nat /\ req[r].order[p] # Gone
      BY <2>1, <2>2, <2>3, <2>4, Sees, DashboardsAssumption DEF OrderDrafts, DashboardsAssumption
    <3> QED
      BY <2>1, <2>3, <3>1, Sees
  <2>5. CASE req[r].config[p] # Kept
    <3>1. req[r].config[p] # Gone /\ p = req[r].plot
      BY <2>1, <2>2, <2>5, Sees DEF ConfigDrafts
    <3>2. CASE req[r].kind = "create"
      <4>1. req[r].order[p] = req[r].count
        BY <2>1, <2>2, <2>5, <3>1, <3>2 DEF ConfigDrafts, Progress
      <4> QED
        BY <2>1, <2>3, <4>1, Sees, DashboardsAssumption DEF DashboardsAssumption
    <3>3. CASE req[r].kind = "update"
      <4>1. config[p] # Gone
        BY <2>1, <2>2, <2>5, <3>3 DEF ConfigDrafts
      <4>2. req[r].order[p] # Gone
        BY <2>1, <2>2, <3>3, DashboardsAssumption DEF OrderDrafts, DashboardsAssumption
      <4> QED
        BY <2>1, <2>3, <4>1, <4>2, Sees
    <3>4. CASE req[r].kind = "delete"
      BY <2>1, <2>2, <2>5, <3>1, <3>4 DEF ConfigDrafts
    <3> QED
      BY <2>3, <3>2, <3>3, <3>4
  <2> QED
    BY <2>1, <2>4, <2>5
<1> QED
  BY <1>2, <1>3

\* A listing has each plot that r sees once.
LEMMA ListingFacts ==
    ASSUME TablesInv, NEW r \in Requests, NEW l \in Listings(r)
    PROVE  /\ l \in Seq(Visible(r)) /\ Len(l) = Cardinality(Visible(r)) /\ Len(l) \in Nat
           /\ l \in [1..Len(l) -> Visible(r)]
           /\ \A i, j \in 1..Len(l) : i # j => l[i] # l[j]
           /\ \A p \in Visible(r) : \E i \in 1..Len(l) : l[i] = p
<1> DEFINE n == Cardinality(Visible(r))
<1>1. /\ IsFiniteSet(Visible(r)) /\ n \in 0..MaxPlots
      /\ \A p \in Visible(r) : p \in Nat /\ SeesOrder(r)[p] \in Nat
  BY VisiblePlots DEF Plots
<1> HIDE DEF n
<1>2. /\ l \in [1..n -> Visible(r)]
      /\ \A i, j \in 1..n : i < j => Before(r, l[i], l[j])
  BY DEF Listings, n
<1>3. l \in Seq(Visible(r)) /\ Len(l) = n
  BY <1>1, <1>2
<1>4. ASSUME NEW i \in 1..n, NEW j \in 1..n, i < j
      PROVE  l[i] # l[j]
  BY <1>1, <1>2, <1>4 DEF Before
<1>5. \A i, j \in 1..n : i # j => l[i] # l[j]
  BY <1>1, <1>4
<1>6. l \in Injection(1..n, Visible(r))
  BY <1>2, <1>5 DEF Injection, IsInjective
<1>7. Cardinality(1..n) = Cardinality(Visible(r))
  BY <1>1, FS_Interval DEF n
<1>8. l \in Surjection(1..n, Visible(r))
  <2>1. \A S, T : \A f \in Injection(S, T) : IsFiniteSet(T) /\ Cardinality(S) = Cardinality(T) => f \in Surjection(S, T)
    BY FS_Injection
  <2> QED
    BY <1>1, <1>6, <1>7, <2>1
<1>9. \A p \in Visible(r) : \E i \in 1..n : l[i] = p
  BY <1>8 DEF Surjection
<1> QED
  BY <1>1, <1>2, <1>3, <1>5, <1>9 DEF n

\* A place taken out and put in again.
LEMMA MovedFacts ==
    ASSUME NEW V, NEW l \in Seq(V), NEW at \in 1..Len(l), NEW to \in 1..Len(l),
           \A i, j \in 1..Len(l) : i # j => l[i] # l[j]
    PROVE  LET m == InsertAt(RemoveAt(l, at), to, l[at]) IN
           /\ m \in Seq(V) /\ Len(m) = Len(l)
           /\ \A i, j \in 1..Len(l) : i # j => m[i] # m[j]
<1> DEFINE n == Len(l)
           c == RemoveAt(l, at)
           m == InsertAt(c, to, l[at])
<1>1. n \in Nat /\ (\A i \in 1..n : l[i] \in V) /\ 1 <= at /\ at <= n /\ 1 <= to /\ to <= n
      /\ at \in Int /\ to \in Int
  OBVIOUS
<1>2. /\ SubSeq(l, 1, at-1) \in Seq(V) /\ Len(SubSeq(l, 1, at-1)) = at - 1
      /\ \A i \in 1..(at-1) : SubSeq(l, 1, at-1)[i] = l[i]
  BY <1>1, SubSeqProperties
<1>3. /\ SubSeq(l, at+1, n) \in Seq(V) /\ Len(SubSeq(l, at+1, n)) = n - at
      /\ \A i \in 1..(n-at) : SubSeq(l, at+1, n)[i] = l[at+i]
  BY <1>1, SubSeqProperties
<1>4. /\ c \in Seq(V) /\ Len(c) = n - 1
      /\ \A i \in 1..(n-1) : c[i] = IF i < at THEN l[i] ELSE l[i+1]
  <2> DEFINE a == SubSeq(l, 1, at-1)
             b == SubSeq(l, at+1, n)
  <2>1. c = a \o b
    BY DEF RemoveAt
  <2>2. a \in Seq(V) /\ b \in Seq(V) /\ Len(a) = at - 1 /\ Len(b) = n - at
    BY <1>2, <1>3
  <2>3. /\ \A i \in 1..(at-1) : a[i] = l[i]
        /\ \A i \in 1..(n-at) : b[i] = l[at+i]
    BY <1>2, <1>3
  <2> HIDE DEF a, b, c
  <2>4. /\ c \in Seq(V) /\ Len(c) = Len(a) + Len(b)
        /\ \A i \in 1..(Len(a) + Len(b)) : c[i] = IF i <= Len(a) THEN a[i] ELSE b[i - Len(a)]
    BY <2>1, <2>2, ConcatProperties
  <2>5. ASSUME NEW i \in 1..(n-1)
        PROVE  c[i] = IF i < at THEN l[i] ELSE l[i+1]
    <3> i \in Int /\ 1 <= i /\ i <= n - 1 /\ i \in 1..(Len(a) + Len(b))
      BY <1>1, <2>2
    <3>1. CASE i < at
      <4>1. i <= Len(a) /\ i \in 1..(at-1)
        BY <1>1, <2>2, <3>1
      <4> QED
        BY <2>3, <2>4, <3>1, <4>1
    <3>2. CASE ~(i < at)
      <4>1. i - Len(a) \in 1..(n-at) /\ at + (i - Len(a)) = i + 1
        BY <1>1, <2>2, <3>2
      <4>2. ~(i <= Len(a))
        BY <1>1, <2>2, <3>2
      <4>3. c[i] = b[i - Len(a)]
        BY <2>4, <4>2
      <4> QED
        BY <2>3, <3>2, <4>1, <4>3
    <3> QED
      BY <3>1, <3>2
  <2> QED
    BY <1>1, <2>2, <2>4, <2>5
<1> HIDE DEF c
<1>5. (\A i \in 1..(n-1) : c[i] \in V) /\ \A i \in 1..(n-1) : c[i] # l[at]
  BY <1>1, <1>4
<1>6. \A i, j \in 1..(n-1) : i # j => c[i] # c[j]
  BY <1>1, <1>4
<1>7. /\ SubSeq(c, 1, to-1) \in Seq(V) /\ Len(SubSeq(c, 1, to-1)) = to - 1
      /\ \A i \in 1..(to-1) : SubSeq(c, 1, to-1)[i] = c[i]
  BY <1>1, <1>4, <1>5, SubSeqProperties
<1>8. /\ SubSeq(c, to, n-1) \in Seq(V) /\ Len(SubSeq(c, to, n-1)) = n - to
      /\ \A i \in 1..(n-to) : SubSeq(c, to, n-1)[i] = c[to+i-1]
  BY <1>1, <1>4, <1>5, SubSeqProperties
<1>9. /\ SubSeq(c, 1, to-1) \o <<l[at]>> \in Seq(V)
      /\ Len(SubSeq(c, 1, to-1) \o <<l[at]>>) = to
      /\ \A i \in 1..to : (SubSeq(c, 1, to-1) \o <<l[at]>>)[i] = IF i < to THEN c[i] ELSE l[at]
  BY <1>1, <1>7, ConcatProperties
<1>10. /\ m \in Seq(V) /\ Len(m) = n
       /\ \A i \in 1..n : m[i] = IF i < to THEN c[i] ELSE IF i = to THEN l[at] ELSE c[i-1]
  <2> DEFINE a == SubSeq(c, 1, to-1) \o <<l[at]>>
             b == SubSeq(c, to, n-1)
  <2>1. m = a \o b
    BY <1>4 DEF InsertAt
  <2>2. a \in Seq(V) /\ b \in Seq(V) /\ Len(a) = to /\ Len(b) = n - to
    BY <1>8, <1>9
  <2>3. /\ \A i \in 1..to : a[i] = IF i < to THEN c[i] ELSE l[at]
        /\ \A i \in 1..(n-to) : b[i] = c[to+i-1]
    BY <1>8, <1>9
  <2> HIDE DEF a, b, m
  <2>4. /\ m \in Seq(V) /\ Len(m) = Len(a) + Len(b)
        /\ \A i \in 1..(Len(a) + Len(b)) : m[i] = IF i <= Len(a) THEN a[i] ELSE b[i - Len(a)]
    BY <2>1, <2>2, ConcatProperties
  <2>5. ASSUME NEW i \in 1..n
        PROVE  m[i] = IF i < to THEN c[i] ELSE IF i = to THEN l[at] ELSE c[i-1]
    <3>1. CASE i <= to
      BY <1>1, <2>2, <2>3, <2>4, <3>1
    <3>2. CASE ~(i <= to)
      <4>1. i - Len(a) \in 1..(n-to) /\ to + (i - Len(a)) - 1 = i - 1
        BY <1>1, <2>2, <3>2
      <4>2. m[i] = b[i - Len(a)]
        BY <1>1, <2>2, <2>4, <3>2
      <4> QED
        BY <1>1, <2>3, <3>2, <4>1, <4>2
    <3> QED
      BY <3>1, <3>2
  <2> QED
    BY <1>1, <2>2, <2>4, <2>5
<1> HIDE DEF m
<1>11. ASSUME NEW i \in 1..n, NEW j \in 1..n, i # j
       PROVE  m[i] # m[j]
  <2> DEFINE at1(k) == IF k < to THEN k ELSE k - 1
  <2>1. \A k \in 1..n : k # to => at1(k) \in 1..(n-1) /\ m[k] = c[at1(k)]
    BY <1>1, <1>10
  <2>2. m[to] = l[at]
    BY <1>1, <1>10
  <2>3. CASE i = to
    BY <1>5, <1>11, <2>1, <2>2, <2>3
  <2>4. CASE j = to
    BY <1>5, <1>11, <2>1, <2>2, <2>4
  <2>5. CASE i # to /\ j # to
    <3>1. at1(i) # at1(j)
      BY <1>1, <1>11, <2>5
    <3>2. /\ at1(i) \in 1..(n-1) /\ m[i] = c[at1(i)]
          /\ at1(j) \in 1..(n-1) /\ m[j] = c[at1(j)]
      BY <1>11, <2>1, <2>5
    <3> HIDE DEF at1
    <3> QED
      BY <1>6, <3>1, <3>2
  <2> QED
    BY <2>3, <2>4, <2>5
<1> QED
  BY <1>10, <1>11 DEF m, c

LEMMA FunctionIsSequence ==
    ASSUME NEW S, NEW n \in Nat, NEW s \in [1..n -> S]
    PROVE  s \in Seq(S) /\ Len(s) = n
  OBVIOUS

\* _reorder_run_dashboards plans a place for every plot ...
LEMMA ReorderedFacts ==
    ASSUME TablesInv, NEW r \in Requests, NEW l \in Listings(r), NEW p \in Visible(r),
           NEW target \in Nat
    PROVE  Reorders(r, Reordered(l, p, target))
<1> DEFINE n == Len(l)
           at == CHOOSE i \in DOMAIN l : l[i] = p
           to == AtMost(target, n - 1) + 1
           m == InsertAt(RemoveAt(l, at), to, p)
           todo == Reordered(l, p, target)
<1>1. /\ l \in Seq(Visible(r)) /\ n = Cardinality(Visible(r)) /\ n \in Nat /\ DOMAIN l = 1..n
      /\ \A i, j \in 1..n : i # j => l[i] # l[j]
      /\ \E i \in DOMAIN l : l[i] = p
  BY ListingFacts
<1>2. at \in 1..n /\ l[at] = p
  BY <1>1
<1>3. to \in 1..n
  BY <1>1, <1>2 DEF AtMost
<1> HIDE DEF at, to
<1>4. /\ m \in Seq(Visible(r)) /\ Len(m) = n
      /\ \A i, j \in 1..n : i # j => m[i] # m[j]
  <2>1. LET k == InsertAt(RemoveAt(l, at), to, l[at]) IN
        /\ k \in Seq(Visible(r)) /\ Len(k) = Len(l)
        /\ \A i, j \in 1..Len(l) : i # j => k[i] # k[j]
    BY <1>1, <1>2, <1>3, MovedFacts
  <2> QED
    BY <1>2, <2>1
<1>5. todo = [i \in DOMAIN m |-> [plot |-> m[i], to |-> i - 1]]
  BY DEF Reordered, Places, at, to
<1> HIDE DEF m, todo
<1>6. /\ todo \in [1..n -> [plot : Visible(r), to : Nat]] /\ DOMAIN todo = 1..n
      /\ \A i \in 1..n : todo[i].plot = m[i] /\ todo[i].to = i - 1
  BY <1>1, <1>4, <1>5
<1>7. todo \in Seq([plot : Visible(r), to : Nat])
  BY <1>1, <1>6, FunctionIsSequence
<1>8. m \in Injection(1..n, Visible(r)) /\ Cardinality(1..n) = Cardinality(Visible(r))
  <2>1. m \in [1..n -> Visible(r)]
    BY <1>1, <1>4
  <2>2. IsInjective(m)
    BY <1>4, <2>1 DEF IsInjective
  <2>3. Cardinality(1..n) = n
    BY <1>1, FS_Interval
  <2> QED
    BY <1>1, <2>1, <2>2, <2>3 DEF Injection
<1>9. \A q \in Visible(r) : \E i \in 1..n : m[i] = q
  BY <1>8, VisiblePlots, FS_Injection DEF Surjection
<1>10. Visible(r) \ {todo[j].plot : j \in DOMAIN todo} = {}
  BY <1>6, <1>9
<1>11. {todo[j].to : j \in DOMAIN todo} = Consecutive(n)
  <2>1. n <= MaxPlots /\ MaxPlots \in Nat
    BY <1>1, VisiblePlots, DashboardsAssumption DEF DashboardsAssumption
  <2>2. ASSUME NEW k \in Consecutive(n)
        PROVE  k \in {todo[j].to : j \in DOMAIN todo}
    <3>1. k + 1 \in 1..n /\ (k + 1) - 1 = k
      BY <1>1, <2>1, <2>2 DEF Consecutive
    <3>2. todo[k + 1].to = k
      BY <1>6, <3>1
    <3> QED
      BY <1>6, <3>1, <3>2
  <2>3. ASSUME NEW j \in 1..n
        PROVE  todo[j].to \in Consecutive(n)
    BY <1>1, <1>6, <2>1 DEF Consecutive
  <2> QED
    BY <1>6, <2>2, <2>3
<1>12. Planned(r, todo) = Consecutive(n)
  BY <1>10, <1>11 DEF Planned, Plan
<1> QED
  BY <1>1, <1>4, <1>6, <1>7, <1>12 DEF Reorders, Once, todo

\* ... and _reindex_run_dashboards one for every plot that is not in its place.
LEMMA ReindexedFacts ==
    ASSUME TablesInv, NEW r \in Requests, NEW l \in Listings(r), NEW todo \in Reindexed(r, l)
    PROVE  Reorders(r, todo)
<1> DEFINE n == Len(l)
           M == {i \in DOMAIN l : SeesOrder(r)[l[i]] # i - 1}
           m == Cardinality(M)
<1>1. /\ l \in Seq(Visible(r)) /\ n = Cardinality(Visible(r)) /\ n \in Nat /\ DOMAIN l = 1..n
      /\ \A i, j \in 1..n : i # j => l[i] # l[j]
      /\ \A p \in Visible(r) : \E i \in 1..n : l[i] = p
      /\ \A i \in 1..n : l[i] \in Visible(r)
  BY ListingFacts
<1>2. PICK f \in [1..m -> M] :
        /\ \A i, j \in DOMAIN f : i < j => f[i] < f[j]
        /\ todo = [k \in DOMAIN f |-> Places(l)[f[k]]]
  BY DEF Reindexed
<1>3. M \subseteq 1..n /\ IsFiniteSet(M) /\ m \in Nat
  <2>1. M \in SUBSET (1..n) /\ IsFiniteSet(1..n)
    BY <1>1, FS_Interval
  <2>2. IsFiniteSet(M)
    BY <2>1, FS_Subset
  <2> QED
    BY <2>1, <2>2, FS_CardinalityType
<1> HIDE DEF m
<1>4. \A k \in 1..m : f[k] \in M /\ f[k] \in 1..n /\ l[f[k]] \in Visible(r)
  BY <1>1, <1>2, <1>3
<1>5. /\ DOMAIN todo = 1..m
      /\ \A k \in 1..m : todo[k] = [plot |-> l[f[k]], to |-> f[k] - 1]
  BY <1>1, <1>2, <1>4 DEF Places
<1>6. todo \in [1..m -> [plot : Visible(r), to : Nat]]
  <2>1. todo = [k \in 1..m |-> todo[k]]
    BY <1>2
  <2>2. \A k \in 1..m : todo[k] \in [plot : Visible(r), to : Nat]
    BY <1>1, <1>4, <1>5
  <2> QED
    BY <2>1, <2>2
<1>7. todo \in Seq([plot : Visible(r), to : Nat])
  BY <1>3, <1>6, FunctionIsSequence
<1>8. \A i, j \in 1..m : i # j => f[i] # f[j]
  <2>1. \A i, j \in 1..m : i < j => f[i] # f[j]
    BY <1>2, <1>4
  <2> QED
    BY <1>3, <2>1
<1>9. \A i, j \in 1..m : i # j => todo[i].plot # todo[j].plot
  BY <1>1, <1>4, <1>5, <1>8
<1>10. f \in Injection(1..m, M) /\ Cardinality(1..m) = m
  <2>1. Cardinality(1..m) = m
    BY <1>3, FS_Interval
  <2>2. f \in [1..m -> M] /\ DOMAIN f = 1..m
    BY <1>2
  <2>3. IsInjective(f)
    BY <1>8, <2>2 DEF IsInjective
  <2> QED
    BY <2>1, <2>2, <2>3 DEF Injection
<1>11. \A i \in M : \E k \in 1..m : f[k] = i
  <2>1. f \in Surjection(1..m, M)
    BY <1>3, <1>10, FS_Injection DEF m
  <2> QED
    BY <2>1 DEF Surjection
<1>12. ASSUME NEW k \in Consecutive(n)
       PROVE  k \in Planned(r, todo)
  <2>1. k \in Nat /\ k + 1 \in 1..n /\ (k + 1) - 1 = k
    BY <1>1, <1>12 DEF Consecutive
  <2>2. CASE k + 1 \in M
    <3>1. PICK j \in 1..m : f[j] = k + 1
      BY <1>11, <2>2
    <3>2. todo[j].to = k
      BY <1>5, <2>1, <3>1
    <3> QED
      BY <1>5, <3>2 DEF Planned, Plan
  <2>3. CASE k + 1 \notin M
    <3>1. SeesOrder(r)[l[k + 1]] = k /\ l[k + 1] \in Visible(r)
      BY <1>1, <2>1, <2>3
    <3>2. \A j \in 1..m : todo[j].plot # l[k + 1]
      BY <1>1, <1>4, <1>5, <2>1, <2>3
    <3> QED
      BY <1>5, <3>1, <3>2 DEF Planned, Plan
  <2> QED
    BY <2>2, <2>3
<1>13. n <= MaxPlots /\ MaxPlots \in Nat
  BY <1>1, VisiblePlots, DashboardsAssumption DEF DashboardsAssumption
<1>14. ASSUME NEW k \in Planned(r, todo)
       PROVE  k \in Consecutive(n)
  <2>1. CASE \E j \in 1..m : k = todo[j].to
    BY <1>1, <1>4, <1>5, <1>13, <2>1 DEF Consecutive
  <2>2. CASE \E p \in Visible(r) \ {todo[j].plot : j \in 1..m} : k = SeesOrder(r)[p]
    <3>1. PICK p \in Visible(r) : k = SeesOrder(r)[p] /\ \A j \in 1..m : todo[j].plot # p
      BY <2>2
    <3>2. PICK i \in 1..n : l[i] = p
      BY <1>1
    <3>3. i \notin M
      BY <1>5, <1>11, <3>1, <3>2
    <3>4. k = i - 1
      BY <1>1, <3>1, <3>2, <3>3
    <3> QED
      BY <1>1, <1>13, <3>2, <3>4 DEF Consecutive
  <2> QED
    BY <1>5, <1>14, <2>1, <2>2 DEF Planned, Plan
<1>15. Planned(r, todo) = Consecutive(n)
  BY <1>12, <1>14
<1> QED
  BY <1>1, <1>5, <1>7, <1>9, <1>15 DEF Reorders, Once

-----------------------------------------------------------------------------
(* The rest of the transaction.                                            *)

LEMMA SeqOfPlots ==
    ASSUME TablesInv, NEW r \in Requests, NEW todo, Reorders(r, todo)
    PROVE  todo \in Seq([plot : Plots, to : Nat])
<1>1. todo \in Seq([plot : Visible(r), to : Nat]) /\ \A p \in Visible(r) : p \in Plots
  BY VisiblePlots DEF Reorders
<1>2. todo \in [1..Len(todo) -> [plot : Visible(r), to : Nat]] /\ Len(todo) \in Nat
  BY <1>1, LenProperties
<1>3. todo \in [1..Len(todo) -> [plot : Plots, to : Nat]]
  BY <1>1, <1>2
<1> QED
  BY <1>2, <1>3, FunctionIsSequence

LEMMA CascadeTurns ==
    ASSUME TablesInv, NEW r \in Requests, Cascade(r)
    PROVE  Turns(r, "list", req[r].todo, req[r].config, [req[r].order EXCEPT ![req[r].plot] = Gone])
<1> DEFINE ord == [req[r].order EXCEPT ![req[r].plot] = Gone]
<1>1. TypeOK /\ Trying(r)
  BY DEF TablesInv, Cascade, Trying, TrySteps
<1>2. /\ ord \in [Plots -> Nat \union {Gone, Kept}]
      /\ req[r].config \in [Plots -> Configs \union {Gone, Kept}]
      /\ req[r].todo \in Seq([plot : Plots, to : Nat])
  BY <1>1, TypeFacts
<1>3. req' = [req EXCEPT ![r].order[req[r].plot] = Gone, ![r].at = "list"]
  BY DEF Cascade
<1>4. req' = [req EXCEPT ![r] = [req[r] EXCEPT !.at = "list", !.todo = req[r].todo,
                                               !.config = req[r].config, !.order = ord]]
  <2>1. req' = [req EXCEPT ![r] = [req[r] EXCEPT !.at = "list", !.order = ord]]
    BY <1>3
  <2> HIDE DEF ord
  <2>2. req[r] \in Request
    BY <1>1 DEF TypeOK
  <2> QED
    BY <2>1, <2>2, RequestKeeps
<1> HIDE DEF ord
<1>5. Turns(r, "list", req[r].todo, req[r].config, ord)
  BY <1>1, <1>2, <1>4, TurnsBy DEF Busy, TrySteps
<1> QED
  BY <1>5 DEF ord

LEMMA CascadeTables ==
    ASSUME TablesInv, NEW r \in Requests, Cascade(r)
    PROVE  TablesInv'
<1>1. /\ TypeOK /\ req[r].at = "cascade" /\ Trying(r) /\ Reading
      /\ ConfigDrafts(r) /\ OrderDrafts(r) /\ Progress(r) /\ OrderFree(r, req[r].plot)
  BY DEF TablesInv, Cascade, Trying, TrySteps
<1>2. /\ req[r].kind = "delete" /\ req[r].config[req[r].plot] = Gone
      /\ req[r].plot \in Plots /\ Serving(r)
      /\ req[r].order \in [Plots -> Nat \union {Gone, Kept}]
  BY <1>1, TypeFacts DEF Progress
<1> DEFINE ord == [req[r].order EXCEPT ![req[r].plot] = Gone]
<1>3. Turns(r, "list", req[r].todo, req[r].config, ord)
  BY CascadeTurns
<1>4. /\ ord[req[r].plot] = Gone
      /\ \A q \in Plots : q # req[r].plot => ord[q] = req[r].order[q]
  BY <1>2
<1> HIDE DEF ord
<1>5. ConfigDrafts(r)'
  BY <1>1, <1>2, <1>3, <1>4 DEF ConfigDrafts, Turns, Reading, tables
<1>6. OrderDrafts(r)'
  BY <1>1, <1>2, <1>3, <1>4 DEF OrderDrafts, Turns, Reading, tables
<1>7. Progress(r)'
  BY <1>1, <1>2, <1>3 DEF Progress, Turns, Trying, TrySteps, Reading, tables, Serving, Busy
<1>8. \A q \in Plots : (req[r].config[q] # Kept => ConfigFree(r, q)) /\ (ord[q] # Kept => OrderFree(r, q))
  BY <1>1, <1>4 DEF TablesInv, Apart, ConfigFree, OrderFree
<1>9. req[r].plot # 0 /\ "list" \in TrySteps /\ "list" # "move"
  BY <1>2 DEF Plots, TrySteps
<1> QED
  BY <1>1, <1>2, <1>3, <1>5, <1>6, <1>7, <1>8, <1>9, QuietTables

\* A transaction goes on with another list of what is to do.
LEMMA TodoTables ==
    ASSUME TablesInv, NEW r \in Requests, req[r].at \in {"list", "item", "move"},
           NEW at \in {"item"}, NEW todo \in Seq([plot : Plots, to : Nat]),
           req' = [req EXCEPT ![r].at = at, ![r].todo = todo], Reading
    PROVE  TablesInv' /\ Turns(r, at, todo, req[r].config, req[r].order)
<1>1. TypeOK /\ Trying(r) /\ Progress(r)
  BY DEF TablesInv, Trying, TrySteps
<1>2. req' = [req EXCEPT ![r] = [req[r] EXCEPT !.at = at, !.todo = todo,
                                               !.config = req[r].config, !.order = req[r].order]]
  BY <1>1, TypeFacts DEF Request, TypeOK
<1>3. Turns(r, at, todo, req[r].config, req[r].order)
  BY <1>1, <1>2, TypeFacts, TurnsBy DEF Busy, TrySteps
<1>4. Progress(r)'
  BY <1>1, <1>3, TypeFacts DEF Progress, Turns, Trying, TrySteps, Reading, tables, Serving, Busy
<1> QED
  BY <1>1, <1>3, <1>4, QuietMove DEF TrySteps

LEMMA ListSteps ==
    ASSUME TablesInv, NEW r \in Requests, List(r)
    PROVE  \/ Raise(r) /\ TablesInv'
           \/ \E todo : /\ Reorders(r, todo) /\ TablesInv'
                        /\ Turns(r, "item", todo, req[r].config, req[r].order)
<1>1. /\ TypeOK /\ req[r].at = "list" /\ Trying(r) /\ Reading /\ Progress(r)
      /\ req[r].target \in Nat \union {Gone}
  BY DEF TablesInv, List, Trying, TrySteps, TypeOK, Request
<1>2. CASE Raise(r)
  BY <1>1, <1>2, RaiseTables
<1>3. ASSUME NEW todo, Reorders(r, todo), req' = [req EXCEPT ![r].at = "item", ![r].todo = todo]
      PROVE  TablesInv' /\ Turns(r, "item", todo, req[r].config, req[r].order)
  <2>1. todo \in Seq([plot : Plots, to : Nat])
    BY <1>3, SeqOfPlots
  <2> QED
    BY <1>1, <1>3, <2>1, TodoTables
<1>4. ASSUME req[r].kind = "update", req[r].plot \in Visible(r), NEW l \in Listings(r),
             req' = [req EXCEPT ![r].at = "item",
                                ![r].todo = Reordered(l, req[r].plot, req[r].target)]
      PROVE  \E todo : /\ Reorders(r, todo) /\ TablesInv'
                       /\ Turns(r, "item", todo, req[r].config, req[r].order)
  <2>1. req[r].target \in Nat
    BY <1>1, <1>4 DEF Progress
  <2>2. Reorders(r, Reordered(l, req[r].plot, req[r].target))
    BY <1>4, <2>1, ReorderedFacts
  <2> QED
    BY <1>3, <1>4, <2>2
<1>5. ASSUME NEW l \in Listings(r), NEW todo \in Reindexed(r, l),
             req' = [req EXCEPT ![r].at = "item", ![r].todo = todo]
      PROVE  Reorders(r, todo) /\ TablesInv' /\ Turns(r, "item", todo, req[r].config, req[r].order)
  BY <1>3, <1>5, ReindexedFacts
<1>6. \/ Raise(r)
      \/ /\ req[r].kind = "update" /\ req[r].plot \in Visible(r)
         /\ \E l \in Listings(r) : req' = [req EXCEPT ![r].at = "item",
                                ![r].todo = Reordered(l, req[r].plot, req[r].target)]
      \/ \E l \in Listings(r) : \E todo \in Reindexed(r, l) :
              req' = [req EXCEPT ![r].at = "item", ![r].todo = todo]
  BY DEF List
<1> QED
  BY <1>2, <1>4, <1>5, <1>6

LEMMA ItemTables ==
    ASSUME TablesInv, NEW r \in Requests, Item(r)
    PROVE  TablesInv'
<1>1. /\ TypeOK /\ req[r].at = "item" /\ Trying(r) /\ Reading /\ Progress(r)
      /\ req[r].todo \in Seq([plot : Plots, to : Nat])
  BY TypeFacts DEF TablesInv, Item, Trying, TrySteps
<1>2. CASE Raise(r)
  BY <1>1, <1>2, RaiseTables
<1>3. ASSUME NEW at \in {"move", "commit"}, Goto(r, at), at = "move" => req[r].todo # <<>>
      PROVE  TablesInv'
  <2>1. Turns(r, at, req[r].todo, req[r].config, req[r].order)
    BY <1>1, <1>3, GotoTurns DEF Busy, TrySteps
  <2>2. Progress(r)'
    BY <1>1, <1>3, <2>1, TypeFacts DEF Progress, Turns, Trying, TrySteps, Serving, Busy, Reading, tables
  <2> QED
    BY <1>1, <1>3, <2>1, <2>2, QuietMove DEF TrySteps
<1>4. ASSUME req[r].todo # <<>>, req' = [req EXCEPT ![r].todo = Tail(@)]
      PROVE  TablesInv'
  <2>1. Tail(req[r].todo) \in Seq([plot : Plots, to : Nat])
    BY <1>1, <1>4
  <2>2. req' = [req EXCEPT ![r].at = "item", ![r].todo = Tail(req[r].todo)]
    BY <1>1, <1>4 DEF TypeOK, Request
  <2> QED
    BY <1>1, <2>1, <2>2, TodoTables
<1> QED
  BY <1>2, <1>3, <1>4 DEF Item

LEMMA MoveTurns ==
    ASSUME TablesInv, NEW r \in Requests, Move(r), ~Raise(r)
    PROVE  LET item == Head(req[r].todo) IN
           /\ item \in [plot : Plots, to : Nat]
           /\ Turns(r, "item", Tail(req[r].todo), req[r].config,
                    [req[r].order EXCEPT ![item.plot] = item.to])
<1> DEFINE item == Head(req[r].todo)
           ord == [req[r].order EXCEPT ![item.plot] = item.to]
<1>1. /\ TypeOK /\ req[r].at = "move" /\ Trying(r)
      /\ req[r].todo \in Seq([plot : Plots, to : Nat]) /\ req[r].todo # <<>>
  BY TypeFacts DEF TablesInv, Move, Trying, TrySteps, TypeOK
<1>2. item \in [plot : Plots, to : Nat] /\ Tail(req[r].todo) \in Seq([plot : Plots, to : Nat])
  BY <1>1, HeadTailProperties
<1>3. /\ ord \in [Plots -> Nat \union {Gone, Kept}]
      /\ req[r].config \in [Plots -> Configs \union {Gone, Kept}]
  BY <1>1, <1>2, TypeFacts
<1>4. req' = [req EXCEPT ![r].order[item.plot] = item.to, ![r].todo = Tail(@), ![r].at = "item"]
  BY DEF Move
<1>5. req' = [req EXCEPT ![r] = [req[r] EXCEPT !.at = "item", !.todo = Tail(req[r].todo),
                                               !.config = req[r].config, !.order = ord]]
  BY <1>1, <1>4, TypeFacts DEF Request, TypeOK
<1> HIDE DEF ord
<1>6. Turns(r, "item", Tail(req[r].todo), req[r].config, ord)
  BY <1>1, <1>2, <1>3, <1>5, TurnsBy DEF Busy, TrySteps
<1> QED
  BY <1>2, <1>6 DEF ord

LEMMA MoveTables ==
    ASSUME TablesInv, NEW r \in Requests, Move(r)
    PROVE  TablesInv'
<1> DEFINE item == Head(req[r].todo)
           ord == [req[r].order EXCEPT ![item.plot] = item.to]
<1>1. /\ TypeOK /\ req[r].at = "move" /\ Trying(r) /\ Reading
      /\ ConfigDrafts(r) /\ OrderDrafts(r) /\ Progress(r) /\ OrderFree(r, item.plot)
      /\ req[r].order \in [Plots -> Nat \union {Gone, Kept}]
  BY TypeFacts DEF TablesInv, Move, Trying, TrySteps
<1>2. CASE Raise(r)
  BY <1>1, <1>2, RaiseTables
<1>3. CASE ~Raise(r)
  <2>1. /\ item \in [plot : Plots, to : Nat] /\ SeesOrder(r)[item.plot] # Gone
        /\ Turns(r, "item", Tail(req[r].todo), req[r].config, ord)
    BY <1>3, MoveTurns DEF Move
  <2>2. item.plot \in Plots /\ item.to \in Nat
    BY <2>1
  <2>3. /\ ord[item.plot] = item.to
        /\ \A q \in Plots : q # item.plot => ord[q] = req[r].order[q]
    BY <1>1, <2>1
  <2> HIDE DEF item, ord
  <2>4. req[r].kind # "create" /\ item.to # Gone /\ order[item.plot] # Gone
    <3>1. req[r].kind # "create"
      BY <1>1 DEF Progress
    <3>2. item.to # Gone
      BY <2>1, DashboardsAssumption DEF DashboardsAssumption
    <3>3. CASE req[r].order[item.plot] = Kept
      BY <2>1, <2>2, <3>1, <3>2, <3>3, Sees
    <3>4. CASE req[r].order[item.plot] # Kept
      <4>1. req[r].order[item.plot] # Gone
        BY <2>1, <2>2, <3>4, Sees
      <4> QED
        BY <1>1, <2>2, <3>1, <3>2, <3>4, <4>1 DEF OrderDrafts
    <3> QED
      BY <3>1, <3>2, <3>3, <3>4
  <2>5. OrderDrafts(r)'
    BY <1>1, <2>1, <2>3, <2>4 DEF OrderDrafts, Turns, Reading, tables
  <2>6. ~(req[r].kind = "delete" /\ \E q \in Plots : req[r].config[q] # Kept /\ req[r].order[q] # Gone)
    BY <1>1 DEF ConfigDrafts
  <2>7. req[r].kind = "delete" => \A q \in Plots : req[r].config[q] # Kept => q # item.plot
    <3> SUFFICES ASSUME req[r].kind = "delete", req[r].config[item.plot] # Kept
                 PROVE  FALSE
      OBVIOUS
    <3>1. req[r].order[item.plot] = Gone
      BY <2>1, <2>6
    <3> QED
      BY <2>1, <3>1, Sees, DashboardsAssumption DEF DashboardsAssumption
  <2>8. ConfigDrafts(r)'
    BY <1>1, <2>1, <2>3, <2>4, <2>7 DEF ConfigDrafts, Turns, Reading, tables
  <2>9. Progress(r)'
    BY <1>1, <2>1, <2>4 DEF Progress, Turns, Trying, TrySteps, Reading, tables, Serving, Busy
  <2>10. \A q \in Plots : (req[r].config[q] # Kept => ConfigFree(r, q)) /\ (ord[q] # Kept => OrderFree(r, q))
    BY <1>1, <2>3 DEF TablesInv, Apart, ConfigFree, OrderFree
  <2>11. req[r].plot # 0 /\ "item" \in TrySteps /\ "item" # "move" /\ Serving(r)
    BY <1>1, TypeFacts DEF Plots, TrySteps
  <2> QED
    BY <1>1, <2>1, <2>4, <2>5, <2>8, <2>9, <2>10, <2>11, QuietTables
<1> QED
  BY <1>2, <1>3

-----------------------------------------------------------------------------
(* The steps that leave a request without writes.                          *)

\* Where a request without writes may be.
Clear(e) ==
    /\ e \in Request /\ e.at \in {"idle", "failed", "call", "row", "undo"}
    /\ e.config = Untouched /\ e.order = Untouched
    /\ e.at \in {"row", "undo"} => e.plot # 0
    /\ e.kind # "create" /\ e.at \in Busy => e.plot # 0 /\ e.old # Gone

\* The others go on, where nothing they build on has changed.
Others(r) ==
    /\ req' \in [Requests -> Request]
    /\ \A s \in Requests \ {r} :
         /\ req'[s].at = req[s].at /\ req'[s].kind = req[s].kind /\ req'[s].plot = req[s].plot
         /\ req'[s].want = req[s].want /\ req'[s].target = req[s].target
         /\ req'[s].old = req[s].old /\ req'[s].count = req[s].count
         /\ req'[s].todo = req[s].todo
         /\ req'[s].config = req[s].config /\ req'[s].order = req[s].order
         /\ \A q \in Plots :
              /\ req[s].config[q] # Kept => config'[q] = config[q]
              /\ req[s].order[q] # Kept => order'[q] = order[q]
              /\ q = req[s].plot /\ Trying(s) /\ config[q] = Gone => config'[q] = Gone

LEMMA OthersSound ==
    ASSUME TablesInv, NEW r \in Requests, Others(r), NEW s \in Requests \ {r}
    PROVE  ConfigDrafts(s)' /\ OrderDrafts(s)' /\ Progress(s)'
<1> DEFINE g == req[s]
           h == req'[s]
<1>1. /\ TypeOK /\ ConfigDrafts(s) /\ OrderDrafts(s) /\ Progress(s)
      /\ Trying(s) => req[s].plot \in Plots
  BY TypeFacts DEF TablesInv
<1>2. /\ h.at = g.at /\ h.kind = g.kind /\ h.plot = g.plot /\ h.want = g.want
      /\ h.target = g.target /\ h.old = g.old /\ h.count = g.count
      /\ h.config = g.config /\ h.order = g.order
  BY DEF Others
<1>3. \A q \in Plots :
        /\ g.config[q] # Kept => config'[q] = config[q]
        /\ g.order[q] # Kept => order'[q] = order[q]
        /\ q = g.plot /\ Trying(s) /\ config[q] = Gone => config'[q] = Gone
  BY DEF Others
<1>4. ConfigDrafts(s)'
  BY <1>1, <1>2, <1>3 DEF ConfigDrafts
<1>5. OrderDrafts(s)'
  BY <1>1, <1>2, <1>3 DEF OrderDrafts
<1>6. /\ h.kind = "create" /\ h.at \in TrySteps =>
           h.at \in {"row", "commit"} /\ config'[h.plot] = Gone
      /\ h.kind = "delete" /\ h.at \in {"list", "item", "move", "commit"} =>
           h.config[h.plot] = Gone \/ config'[h.plot] = Gone
  BY <1>1, <1>2, <1>3 DEF Progress, Trying, TrySteps
<1> HIDE DEF g, h
<1>7. /\ h.at \in {"row", "write"} => h.config = Untouched /\ h.order = Untouched
      /\ h.kind = "create" /\ h.at = "commit" => h.config[h.plot] = h.want /\ h.order[h.plot] = h.count
      /\ h.at = "cascade" => h.kind = "delete" /\ h.config[h.plot] = Gone
      /\ h.kind = "update" /\ h.at \in {"list", "item", "move"} => h.target # Gone
      /\ h.kind # "create" /\ h.at \in Busy => h.plot # 0 /\ h.old # Gone
  BY <1>1, <1>2 DEF Progress, Serving, g
<1>8. Untouched' = Untouched
  BY DEF Untouched
<1> QED
  BY <1>4, <1>5, <1>6, <1>7, <1>8 DEF Progress, Trying, Serving, h

LEMMA ClearTables ==
    ASSUME TablesInv, NEW r \in Requests, Others(r), Clear(req'[r]), req'[r].plot \in 0..made',
           req'[r].kind = "create" /\ req'[r].at = "row" =>
               /\ config'[req'[r].plot] = Gone
               /\ \A s \in Requests \ {r} : req[s].plot # req'[r].plot,
           \A s \in Requests \ {r} :
               req[s].kind = "create" /\ Trying(s) => req[s].plot # req'[r].plot,
           config' \in [Plots -> Configs \union {Gone}], order' \in [Plots -> Nat \union {Gone}],
           \A p \in Plots : config'[p] = Gone <=> order'[p] = Gone,
           grafana' \in [Plots -> Configs \union {Gone}],
           made \in 0..made', made' \in 0..MaxPlots, asked' \in 0..MaxAsked,
           failures' \in 0..MaxFailures, overlapped' \in BOOLEAN, Unnamed'
    PROVE  TablesInv'
<1> DEFINE e == req'[r]
<1>1. /\ e \in Request /\ e.at \in {"idle", "failed", "call", "row", "undo"}
      /\ e.config = Untouched /\ e.order = Untouched
      /\ e.at \in {"row", "undo"} => e.plot # 0
      /\ e.kind # "create" /\ e.at \in Busy => e.plot # 0 /\ e.old # Gone
  BY DEF Clear
<1>2. Untouched' = Untouched /\ \A q \in Plots : Untouched[q] = Kept
  BY DEF Untouched
<1>3. TypeOK'
  <2>1. ASSUME NEW s \in Requests
        PROVE  /\ req'[s].plot \in 0..made'
               /\ req'[s].at \in TrySteps \union {"undo"} => req'[s].plot # 0
               /\ req'[s].at \notin TrySteps => req'[s].config = Untouched /\ req'[s].order = Untouched
               /\ req'[s].at = "move" => req'[s].todo # <<>>
    <3>1. CASE s = r
      BY <1>1, <3>1 DEF TrySteps
    <3>2. CASE s # r
      <4>1. /\ req[s].plot \in 0..made
            /\ req[s].at \in TrySteps \union {"undo"} => req[s].plot # 0
            /\ req[s].at \notin TrySteps => req[s].config = Untouched /\ req[s].order = Untouched
            /\ req[s].at = "move" => req[s].todo # <<>>
        BY DEF TablesInv, TypeOK
      <4>2. /\ req'[s].at = req[s].at /\ req'[s].plot = req[s].plot /\ req'[s].todo = req[s].todo
            /\ req'[s].config = req[s].config /\ req'[s].order = req[s].order
        BY <3>2 DEF Others
      <4> QED
        BY <4>1, <4>2
    <3> QED
      BY <3>1, <3>2
  <2> QED
    BY <1>2, <2>1 DEF TypeOK, Others
<1>4. ASSUME NEW s \in Requests
      PROVE  ConfigDrafts(s)' /\ OrderDrafts(s)' /\ Progress(s)'
  <2>1. CASE s = r
    <3>1. ConfigDrafts(r)' /\ OrderDrafts(r)'
      BY <1>1, <1>2 DEF ConfigDrafts, OrderDrafts
    <3>2. Progress(r)'
      BY <1>1, <1>2 DEF Progress, Trying, Serving, TrySteps
    <3> QED
      BY <2>1, <3>1, <3>2
  <2>2. CASE s # r
    BY <2>2, OthersSound
  <2> QED
    BY <2>1, <2>2
<1>5. ASSUME NEW s \in Requests, NEW u \in Requests, s # u
      PROVE  Apart(s, u)'
  <2>1. Apart(s, u)
    BY <1>5 DEF TablesInv
  <2>2. CASE s # r /\ u # r
    BY <1>5, <2>1, <2>2 DEF Others, Apart, Trying
  <2>3. CASE s = r
    <3>1. e.kind = "create" /\ e.at \in TrySteps => req[u].plot # e.plot
      BY <1>1, <1>5, <2>3 DEF TrySteps
    <3> QED
      BY <1>1, <1>2, <1>5, <2>3, <3>1 DEF Apart, Others, Trying
  <2>4. CASE u = r
    <3>1. /\ req'[s].kind = req[s].kind /\ req'[s].at = req[s].at /\ req'[s].plot = req[s].plot
      BY <1>5, <2>4 DEF Others
    <3> QED
      BY <1>1, <1>2, <1>5, <2>4, <3>1 DEF Apart, Trying
  <2> QED
    BY <2>2, <2>3, <2>4
<1> QED
  BY <1>3, <1>4, <1>5 DEF TablesInv

\* Where the tables stay as they are, and so do the other requests.
LEMMA OthersStay ==
    ASSUME TypeOK, NEW r \in Requests, NEW e \in Request, req' = [req EXCEPT ![r] = e],
           UNCHANGED tables
    PROVE  Others(r) /\ req'[r] = e
  BY DEF TypeOK, Others, tables

LEMMA EndedClear ==
    ASSUME TypeOK, NEW r \in Requests, NEW before, before \in {Gone, req[r].before}
    PROVE  LET e == [Fresh EXCEPT !.at = "failed", !.before = before] IN
           /\ Clear(Fresh) /\ Clear(e)
           /\ e.at = "failed" /\ e.before = before /\ e.plot = 0 /\ e.kind = "create"
<1> DEFINE e == [Fresh EXCEPT !.at = "failed", !.before = before]
<1>1. before \in [config : [Plots -> Configs \union {Gone}],
                   order : [Plots -> Nat \union {Gone}]] \union {Gone}
  BY DEF TypeOK, Request
<1>2. e \in Request
  BY <1>1, FreshParts DEF Fresh, Request
<1>3. e.at = "failed" /\ e.before = before /\ e.plot = 0 /\ e.kind = "create"
      /\ e.config = Untouched /\ e.order = Untouched
  BY FreshType DEF Request
<1> QED
  BY <1>2, <1>3, FreshType DEF Clear, Busy, TrySteps

LEMMA CallTables ==
    ASSUME TablesInv, NEW r \in Requests, CallGrafana(r)
    PROVE  TablesInv'
<1>1. /\ TypeOK /\ Unnamed /\ req[r].at = "call" /\ Progress(r) /\ req[r] \in Request
      /\ UNCHANGED <<config, order, asked, overlapped>>
      /\ req[r].config = Untouched /\ req[r].order = Untouched
      /\ made \in 0..MaxPlots /\ req[r].plot \in 0..made
      /\ req[r].kind \in {"create", "update", "delete"}
  BY DEF TablesInv, CallGrafana, TypeOK, Request, TrySteps, tables
<1>2. PICK p \in Plots :
        /\ IF req[r].kind = "create" THEN p = made + 1 ELSE p = req[r].plot
        /\ made' = IF req[r].kind = "create" THEN p ELSE made
        /\ grafana' = [grafana EXCEPT ![p] = Wanted(r)]
        /\ \/ /\ req' = [req EXCEPT ![r].at = "row", ![r].plot = p]
              /\ UNCHANGED failures
           \/ /\ Fail(r, Gone)
              /\ failures < MaxFailures /\ failures' = failures + 1
  BY DEF CallGrafana
<1>3. /\ p \in Nat \ {0} /\ made \in 0..made' /\ made' \in 0..MaxPlots /\ p <= made'
  BY <1>1, <1>2, DashboardsAssumption DEF Plots, DashboardsAssumption
<1>4. Wanted(r) \in Configs \union {Gone}
  BY <1>1 DEF Wanted, Request
<1>5. grafana' \in [Plots -> Configs \union {Gone}]
  BY <1>1, <1>2, <1>4 DEF TypeOK
<1>6. Unnamed'
  BY <1>1, <1>2, <1>3 DEF Unnamed, TypeOK, Plots
<1>7. /\ config' \in [Plots -> Configs \union {Gone}] /\ order' \in [Plots -> Nat \union {Gone}]
      /\ \A q \in Plots : config'[q] = Gone <=> order'[q] = Gone
      /\ asked' \in 0..MaxAsked /\ failures' \in 0..MaxFailures /\ overlapped' \in BOOLEAN
  <2>1. failures \in 0..MaxFailures /\ MaxFailures \in Nat
    BY <1>1, DashboardsAssumption DEF TypeOK, DashboardsAssumption
  <2>2. failures' \in 0..MaxFailures
    BY <1>2, <2>1
  <2> QED
    BY <1>1, <2>2 DEF TypeOK
<1>8. CASE req' = [req EXCEPT ![r].at = "row", ![r].plot = p]
  <2> DEFINE e == [req[r] EXCEPT !.at = "row", !.plot = p]
  <2>1. /\ e \in Request /\ e.at = "row" /\ e.plot = p /\ e.kind = req[r].kind
        /\ e.config = Untouched /\ e.order = Untouched /\ e.old = req[r].old
    BY <1>1, <1>2 DEF Request, TrySteps, Busy
  <2>2. req' = [req EXCEPT ![r] = e]
    BY <1>1, <1>8 DEF TypeOK, Request
  <2> HIDE DEF e
  <2>3. Others(r) /\ req'[r] = e
    BY <1>1, <2>1, <2>2, OthersStay DEF tables
  <2>4. req[r].kind # "create" => e.old # Gone
    BY <1>1, <2>1 DEF Progress, Serving, Busy
  <2>5. Clear(e)
    BY <1>3, <2>1, <2>4 DEF Clear
  <2>6. req[r].kind = "create" =>
          /\ config'[p] = Gone
          /\ \A s \in Requests \ {r} : req[s].plot # p
    <3>1. req[r].kind = "create" => p > made /\ p = made + 1
      BY <1>1, <1>2
    <3>2. \A s \in Requests : req[s].plot \in 0..made
      BY <1>1 DEF TypeOK
    <3> QED
      BY <1>1, <1>2, <1>3, <3>1, <3>2 DEF Unnamed
  <2>7. \A s \in Requests \ {r} : req[s].kind = "create" /\ Trying(s) => req[s].plot # p
    BY <1>1, <1>2, <2>6 DEF TablesInv, Apart
  <2>8. e.plot \in 0..made'
    BY <1>3, <2>1
  <2> QED
    BY <1>3, <1>5, <1>6, <1>7, <2>1, <2>3, <2>5, <2>6, <2>7, <2>8, ClearTables
<1>9. CASE Fail(r, Gone)
  <2> DEFINE e == [Fresh EXCEPT !.at = "failed", !.before = Gone]
  <2>1. Clear(e) /\ e.at = "failed" /\ e.plot = 0
    BY <1>1, EndedClear
  <2>2. req' = [req EXCEPT ![r] = e]
    BY <1>9 DEF Fail
  <2> HIDE DEF e
  <2>3. Others(r) /\ req'[r] = e
    BY <1>1, <2>1, <2>2, OthersStay DEF tables, Clear
  <2>4. \A s \in Requests \ {r} : req[s].kind = "create" /\ Trying(s) => req[s].plot # 0
    BY <1>1, TypeFacts DEF Plots
  <2>5. e.plot \in 0..made'
    BY <1>3, <2>1
  <2> QED
    BY <1>3, <1>5, <1>6, <1>7, <2>1, <2>3, <2>4, <2>5, ClearTables
<1> QED
  BY <1>2, <1>8, <1>9

\* A request ends with the tables as they are.
LEMMA EndTables ==
    ASSUME TablesInv, NEW r \in Requests, NEW e, Clear(e), e.plot = 0, e.at \in {"idle", "failed"},
           req' = [req EXCEPT ![r] = e], UNCHANGED <<tables, made, asked, overlapped>>,
           grafana' \in [Plots -> Configs \union {Gone}],
           \A p \in Plots : p > made => grafana'[p] = Gone,
           failures' \in 0..MaxFailures
    PROVE  TablesInv'
<1>1. Others(r) /\ req'[r] = e
  BY OthersStay DEF TablesInv, Clear
<1>2. \A s \in Requests \ {r} : req[s].kind = "create" /\ Trying(s) => req[s].plot # 0
  BY TypeFacts DEF Plots, TablesInv
<1>3. /\ config' \in [Plots -> Configs \union {Gone}] /\ order' \in [Plots -> Nat \union {Gone}]
      /\ \A q \in Plots : config'[q] = Gone <=> order'[q] = Gone
      /\ asked' \in 0..MaxAsked /\ overlapped' \in BOOLEAN
      /\ made \in 0..made' /\ made' \in 0..MaxPlots /\ 0 \in 0..made'
  BY DEF TablesInv, TypeOK, tables
<1>4. Unnamed'
  BY DEF TablesInv, Unnamed, tables
<1> QED
  BY <1>1, <1>2, <1>3, <1>4, ClearTables

LEMMA UndoTables ==
    ASSUME TablesInv, NEW r \in Requests, Undo(r)
    PROVE  TablesInv'
<1>1. /\ TypeOK /\ Unnamed /\ req[r].at = "undo" /\ Progress(r) /\ req[r] \in Request
      /\ req[r].plot \in 0..made /\ req[r].plot # 0 /\ made \in 0..MaxPlots
      /\ grafana \in [Plots -> Configs \union {Gone}]
      /\ req[r].kind \in {"create", "update", "delete"} /\ req[r].old \in Configs \union {Gone}
  BY DEF TablesInv, Undo, TypeOK, Request
<1>2. req[r].plot \in Plots /\ ~(req[r].plot > made)
  BY <1>1, DashboardsAssumption DEF Plots, DashboardsAssumption
<1>3. Compensation(r) \in Configs \union {Gone}
  BY <1>1, <1>2 DEF Compensation
<1>4. /\ grafana' \in [Plots -> Configs \union {Gone}]
      /\ \A p \in Plots : p > made => grafana'[p] = Gone
  BY <1>1, <1>2, <1>3 DEF Undo, Unnamed
<1> DEFINE e == [Fresh EXCEPT !.at = "failed", !.before = req[r].before]
<1>5. Clear(e) /\ e.at = "failed" /\ e.plot = 0
  BY <1>1, EndedClear
<1>6. req' = [req EXCEPT ![r] = e]
  BY DEF Undo, Fail
<1> HIDE DEF e
<1> QED
  BY <1>1, <1>4, <1>5, <1>6, EndTables DEF Undo, tables, TypeOK

LEMMA FailsTables ==
    ASSUME TablesInv, NEW r \in Requests, Fails(r)
    PROVE  TablesInv'
<1>1. /\ TypeOK /\ Unnamed /\ grafana' \in [Plots -> Configs \union {Gone}]
      /\ UNCHANGED <<tables, grafana, made, asked, overlapped>> /\ failures' \in 0..MaxFailures
      /\ \A p \in Plots : p > made => grafana'[p] = Gone
  <2>1. /\ failures \in 0..MaxFailures /\ MaxFailures \in Nat
        /\ failures < MaxFailures /\ failures' = failures + 1
    BY DashboardsAssumption DEF TypeOK, DashboardsAssumption, TablesInv, Fails
  <2>2. failures' \in 0..MaxFailures
    BY <2>1
  <2>3. UNCHANGED <<tables, grafana, made, asked, overlapped>>
    BY DEF Fails
  <2> QED
    BY <2>2, <2>3 DEF TablesInv, TypeOK, Unnamed
<1>2. ASSUME NEW before \in {Gone, req[r].before}, Fail(r, before)
      PROVE  TablesInv'
  <2> DEFINE e == [Fresh EXCEPT !.at = "failed", !.before = before]
  <2>1. Clear(e) /\ e.at = "failed" /\ e.plot = 0
    BY <1>1, EndedClear
  <2>2. req' = [req EXCEPT ![r] = e]
    BY <1>2 DEF Fail
  <2> HIDE DEF e
  <2> QED
    BY <1>1, <2>1, <2>2, EndTables
<1>3. CASE req[r].at \in TrySteps /\ Raise(r)
  <2>1. Turns(r, "undo", <<>>, Untouched, Untouched) /\ Trying(r)
    BY <1>1, <1>3, RaiseTurns DEF Trying
  <2>2. req[r].plot \in Plots /\ req[r].plot \in 0..made /\ Progress(r) /\ Serving(r)
    BY <1>1, <2>1, TypeFacts DEF TypeOK, TablesInv
  <2>3. Clear(req'[r]) /\ req'[r].plot = req[r].plot /\ req'[r].at = "undo"
    BY <2>1, <2>2 DEF Turns, Clear, Progress, Plots
  <2>4. Others(r)
    BY <1>1, <2>1 DEF Turns, Others, tables
  <2>5. \A s \in Requests \ {r} : req[s].kind = "create" /\ Trying(s) => req[s].plot # req'[r].plot
    BY <2>3 DEF TablesInv, Apart
  <2>6. /\ config' \in [Plots -> Configs \union {Gone}] /\ order' \in [Plots -> Nat \union {Gone}]
        /\ \A q \in Plots : config'[q] = Gone <=> order'[q] = Gone
        /\ asked' \in 0..MaxAsked /\ overlapped' \in BOOLEAN
        /\ made \in 0..made' /\ made' \in 0..MaxPlots /\ req'[r].plot \in 0..made'
    BY <1>1, <2>2, <2>3 DEF TypeOK, tables
  <2>7. Unnamed'
    BY <1>1 DEF Unnamed, tables
  <2> QED
    BY <1>1, <2>3, <2>4, <2>5, <2>6, <2>7, ClearTables
<1> QED
  BY <1>2, <1>3 DEF Fails

\* What a commit makes of a row: r's draft, if it has one.
LEMMA Published ==
    ASSUME TablesInv, NEW r \in Requests, req[r].at = "commit", Publish(r), NEW p \in Plots
    PROVE  /\ config'[p] \in Configs \union {Gone} /\ order'[p] \in Nat \union {Gone}
           /\ config'[p] = Gone <=> order'[p] = Gone
           /\ config'[p] # config[p] => p = req[r].plot /\ req[r].config[p] # Kept
           /\ order'[p] # order[p] => req[r].order[p] # Kept
           /\ config[p] = Gone /\ config'[p] # Gone => req[r].kind = "create"
<1>1. /\ TypeOK /\ ConfigDrafts(r) /\ OrderDrafts(r) /\ Progress(r) /\ Trying(r)
      /\ req[r].config[p] \in Configs \union {Gone, Kept}
      /\ req[r].order[p] \in Nat \union {Gone, Kept}
      /\ req[r].kind \in {"create", "update", "delete"}
      /\ req[r].plot \in Plots /\ req[r].want \in Configs /\ req[r].count \in Nat
  BY TypeFacts DEF TablesInv, Trying, TrySteps
<1>2. /\ config[p] \in Configs \union {Gone} /\ order[p] \in Nat \union {Gone}
      /\ config[p] = Gone <=> order[p] = Gone
  BY <1>1 DEF TypeOK
<1>3. /\ config'[p] = IF req[r].config[p] # Kept THEN req[r].config[p] ELSE config[p]
      /\ order'[p] = IF req[r].order[p] # Kept THEN req[r].order[p] ELSE order[p]
  BY Sees DEF Publish
<1>4. Gone # Kept /\ (\A c \in Configs : c # Gone /\ c # Kept) /\ (\A n \in Nat : n # Gone /\ n # Kept)
  BY DashboardsAssumption DEF DashboardsAssumption
<1>5. CASE req[r].kind = "create"
  <2>1. /\ req[r].config[p] # Kept => p = req[r].plot
        /\ req[r].order[p] # Kept => p = req[r].plot
        /\ req[r].config[req[r].plot] = req[r].want
        /\ req[r].order[req[r].plot] = req[r].count
    BY <1>1, <1>5 DEF ConfigDrafts, OrderDrafts, Progress
  <2> QED
    BY <1>1, <1>2, <1>3, <1>4, <1>5, <2>1
<1>6. CASE req[r].kind = "update"
  <2>1. /\ req[r].config[p] # Kept =>
             p = req[r].plot /\ req[r].config[p] = req[r].want /\ config[p] # Gone
        /\ req[r].order[p] # Kept => req[r].order[p] # Gone /\ order[p] # Gone
    BY <1>1, <1>6 DEF ConfigDrafts, OrderDrafts
  <2> QED
    BY <1>1, <1>2, <1>3, <1>4, <1>6, <2>1
<1>7. CASE req[r].kind = "delete"
  <2>1. req[r].config[p] # Kept =>
             p = req[r].plot /\ req[r].config[p] = Gone /\ config[p] # Gone /\ req[r].order[p] = Gone
    BY <1>1, <1>7 DEF ConfigDrafts
  <2>2. req[r].order[p] # Kept =>
             \/ req[r].order[p] # Gone /\ order[p] # Gone
             \/ req[r].order[p] = Gone /\ req[r].config[p] = Gone
    BY <1>1, <1>7 DEF OrderDrafts
  <2> QED
    BY <1>1, <1>2, <1>3, <1>4, <1>7, <2>1, <2>2
<1> QED
  BY <1>1, <1>5, <1>6, <1>7

LEMMA CommitTables ==
    ASSUME TablesInv, NEW r \in Requests, Commit(r)
    PROVE  TablesInv'
<1>1. /\ TypeOK /\ Unnamed /\ req[r].at = "commit" /\ Publish(r) /\ Progress(r) /\ Trying(r)
      /\ UNCHANGED <<grafana, made, asked, overlapped>>
      /\ req[r] \in Request /\ req[r].plot \in 0..made /\ req[r].plot \in Plots
  BY TypeFacts DEF TablesInv, Commit, Trying, TrySteps, TypeOK
<1>2. /\ config' \in [Plots -> Configs \union {Gone}] /\ order' \in [Plots -> Nat \union {Gone}]
      /\ \A q \in Plots : config'[q] = Gone <=> order'[q] = Gone
  <2>1. config' = [p \in Plots |-> config'[p]] /\ order' = [p \in Plots |-> order'[p]]
    BY <1>1 DEF Publish, SeesConfig, SeesOrder, Overlay
  <2>2. \A p \in Plots : /\ config'[p] \in Configs \union {Gone} /\ order'[p] \in Nat \union {Gone}
                         /\ config'[p] = Gone <=> order'[p] = Gone
    BY <1>1, Published
  <2> QED
    BY <2>1, <2>2
<1>3. Unnamed'
  <2>1. \A p \in Plots : p > made => p # req[r].plot
    BY <1>1 DEF TypeOK, Plots
  <2>2. \A p \in Plots : p > made => config'[p] = config[p]
    BY <1>1, <2>1, Published
  <2> QED
    BY <1>1, <2>2 DEF Unnamed
<1>4. ASSUME NEW e, Clear(e), req' = [req EXCEPT ![r] = e], e.plot \in {0, req[r].plot}, e.at # "row"
      PROVE  Others(r) /\ req'[r] = e
  <2>1. req' \in [Requests -> Request] /\ req'[r] = e /\ \A s \in Requests \ {r} : req'[s] = req[s]
    BY <1>1, <1>4 DEF TypeOK, Clear
  <2>2. ASSUME NEW s \in Requests \ {r}, NEW q \in Plots
        PROVE  /\ req[s].config[q] # Kept => config'[q] = config[q]
               /\ req[s].order[q] # Kept => order'[q] = order[q]
               /\ q = req[s].plot /\ Trying(s) /\ config[q] = Gone => config'[q] = Gone
    <3>1. Apart(r, s) /\ Apart(s, r)
      BY DEF TablesInv
    <3>2. /\ req[r].config[q] = Kept => config'[q] = config[q]
          /\ req[r].order[q] = Kept => order'[q] = order[q]
          /\ config'[q] # config[q] => q = req[r].plot
          /\ config[q] = Gone /\ config'[q] # Gone => req[r].kind = "create"
      BY <1>1, Published
    <3> QED
      BY <1>1, <3>1, <3>2 DEF Apart
  <2> QED
    BY <2>1, <2>2 DEF Others
<1>5. ASSUME NEW e, Clear(e), req' = [req EXCEPT ![r] = e], e.plot \in {0, req[r].plot}, e.at # "row",
             failures' \in 0..MaxFailures
      PROVE  TablesInv'
  <2>1. Others(r) /\ req'[r] = e
    BY <1>4, <1>5
  <2>2. \A s \in Requests \ {r} : req[s].kind = "create" /\ Trying(s) => req[s].plot # e.plot
    BY <1>1, <1>5, TypeFacts DEF TablesInv, Apart, Plots
  <2>3. /\ grafana' \in [Plots -> Configs \union {Gone}]
        /\ asked' \in 0..MaxAsked /\ overlapped' \in BOOLEAN
        /\ made \in 0..made' /\ made' \in 0..MaxPlots /\ e.plot \in 0..made'
    BY <1>1, <1>5 DEF TypeOK
  <2> QED
    BY <1>2, <1>3, <1>5, <2>1, <2>2, <2>3, ClearTables
<1>6. CASE Done(r) /\ UNCHANGED failures
  <2>1. Clear(Fresh) /\ Fresh.plot = 0 /\ Fresh.at = "idle"
    BY <1>1, EndedClear, FreshType
  <2>2. req' = [req EXCEPT ![r] = Fresh] /\ failures' \in 0..MaxFailures
    BY <1>1, <1>6 DEF Done, TypeOK
  <2> QED
    BY <1>5, <2>1, <2>2
<1>7. CASE /\ req' = [req EXCEPT ![r].at = "undo", ![r].config = Untouched, ![r].order = Untouched,
                                 ![r].todo = <<>>, ![r].before = Gone]
           /\ failures < MaxFailures /\ failures' = failures + 1
  <2> DEFINE e == [req[r] EXCEPT !.at = "undo", !.config = Untouched, !.order = Untouched,
                                 !.todo = <<>>, !.before = Gone]
  <2>1. /\ e \in Request /\ e.at = "undo" /\ e.plot = req[r].plot /\ e.kind = req[r].kind
        /\ e.config = Untouched /\ e.order = Untouched /\ e.old = req[r].old
    <3>1. /\ Untouched \in [Plots -> Configs \union {Gone, Kept}]
          /\ Untouched \in [Plots -> Nat \union {Gone, Kept}]
          /\ <<>> \in Seq([plot : Plots, to : Nat])
      BY DEF Untouched
    <3> QED
      BY <1>1, <3>1 DEF Request, Busy
  <2>2. req' = [req EXCEPT ![r] = e]
    BY <1>1, <1>7 DEF TypeOK, Request
  <2> HIDE DEF e
  <2>3. Clear(e)
    BY <1>1, <2>1 DEF Clear, Progress, Serving, Trying, Busy, Plots
  <2>4. failures' \in 0..MaxFailures
    BY <1>1, <1>7, DashboardsAssumption DEF TypeOK, DashboardsAssumption
  <2> QED
    BY <1>5, <2>1, <2>2, <2>3, <2>4
<1> QED
  BY <1>6, <1>7 DEF Commit

LEMMA AbortTables ==
    ASSUME TablesInv, NEW r \in Requests, AbortDeadlocked(r)
    PROVE  TablesInv'
<1>1. \E q \in Requests : WaitsFor(r, q)
  BY DEF AbortDeadlocked
<1>2. Trying(r)
  BY <1>1 DEF WaitsFor, Trying, TrySteps
<1> QED
  BY <1>2, RaiseTables DEF AbortDeadlocked

LEMMA BeginTables ==
    ASSUME TablesInv, NEW r \in Requests, NEW q, Begin(r, q), Clear(q), q.at \in {"call", "row"},
           q.plot = 0 \/ q.plot \in Saved, q.kind = "create" => q.at = "call"
    PROVE  TablesInv'
<1>1. /\ TypeOK /\ Unnamed /\ UNCHANGED <<config, order, grafana, made, failures>>
      /\ req' = [s \in Requests |-> IF s = r THEN q ELSE [req[s] EXCEPT !.before = Gone]]
      /\ asked < MaxAsked /\ asked' = asked + 1
  BY DEF TablesInv, Begin, tables
<1>2. ASSUME NEW s \in Requests
      PROVE  [req[s] EXCEPT !.before = Gone] \in Request
  <2>1. req[s] \in Request
    BY <1>1 DEF TypeOK
  <2> QED
    BY <2>1 DEF Request
<1>3. Others(r)
  <2>1. req' \in [Requests -> Request]
    BY <1>1, <1>2 DEF Clear
  <2>2. ASSUME NEW s \in Requests \ {r}
        PROVE  /\ req'[s].at = req[s].at /\ req'[s].kind = req[s].kind /\ req'[s].plot = req[s].plot
               /\ req'[s].want = req[s].want /\ req'[s].target = req[s].target
               /\ req'[s].old = req[s].old /\ req'[s].count = req[s].count
               /\ req'[s].todo = req[s].todo
               /\ req'[s].config = req[s].config /\ req'[s].order = req[s].order
    <3>1. req[s] \in Request
      BY <1>1 DEF TypeOK
    <3>2. req'[s] = [req[s] EXCEPT !.before = Gone]
      BY <1>1
    <3> QED
      BY <3>1, <3>2 DEF Request
  <2> QED
    BY <1>1, <2>1, <2>2 DEF Others
<1>4. req'[r] = q /\ q.plot \in 0..made'
  <2>1. \A p \in Saved : p \in 0..made
    BY <1>1 DEF Saved, Unnamed, TypeOK, Plots
  <2> QED
    BY <1>1, <2>1 DEF TypeOK
<1>5. \A s \in Requests \ {r} : req[s].kind = "create" /\ Trying(s) => req[s].plot # q.plot
  BY <1>1, TypeFacts DEF TablesInv, Progress, Saved, Plots
<1>6. asked' \in 0..MaxAsked
  BY <1>1, DashboardsAssumption DEF TypeOK, DashboardsAssumption
<1>7. overlapped' \in BOOLEAN
  BY <1>1 DEF Begin, TypeOK
<1>8. Unnamed'
  BY <1>1 DEF Unnamed
<1>9. /\ config' \in [Plots -> Configs \union {Gone}] /\ order' \in [Plots -> Nat \union {Gone}]
      /\ \A p \in Plots : config'[p] = Gone <=> order'[p] = Gone
      /\ grafana' \in [Plots -> Configs \union {Gone}]
      /\ made \in 0..made' /\ made' \in 0..MaxPlots /\ failures' \in 0..MaxFailures
  BY <1>1 DEF TypeOK
<1>10. ~(req'[r].kind = "create" /\ req'[r].at = "row") /\ Clear(req'[r])
  BY <1>4
<1> QED
  BY <1>3, <1>4, <1>5, <1>6, <1>7, <1>8, <1>9, <1>10, ClearTables

LEMMA SnapshotType ==
    ASSUME TypeOK
    PROVE  Snapshot \in [config : [Plots -> Configs \union {Gone}],
                         order : [Plots -> Nat \union {Gone}]] \union {Gone}
  BY DEF TypeOK, Snapshot

LEMMA SavedPlots ==
    ASSUME TypeOK
    PROVE  /\ IsFiniteSet(Plots) /\ Cardinality(Plots) = MaxPlots
           /\ IsFiniteSet(Saved) /\ Cardinality(Saved) \in 0..MaxPlots
           /\ \A p \in Saved : p \in Plots /\ p # 0 /\ config[p] \in Configs /\ config[p] # Gone
<1>1. /\ IsFiniteSet(Plots) /\ Cardinality(Plots) = MaxPlots /\ Saved \in SUBSET Plots
      /\ MaxPlots \in Nat
  BY FS_Interval, DashboardsAssumption DEF Plots, Saved, DashboardsAssumption
<1>2. IsFiniteSet(Saved) /\ Cardinality(Saved) \in 0..MaxPlots
  BY <1>1, FS_Subset, FS_CardinalityType
<1> QED
  BY <1>1, <1>2 DEF TypeOK, Saved, Plots

\* The records that a request begins with.
LEMMA CreateAsked ==
    ASSUME TypeOK, NEW want \in Configs
    PROVE  LET e == [Fresh EXCEPT !.at = "call", !.kind = "create", !.want = want,
                                  !.count = Cardinality(Saved), !.before = Snapshot] IN
           /\ Clear(e) /\ e.at = "call" /\ e.kind = "create" /\ e.plot = 0
           /\ e.count = Cardinality(Saved) /\ e.before = Snapshot /\ e.want = want
<1>1. PICK count \in Nat : count = Cardinality(Saved)
  BY SavedPlots
<1> DEFINE e == [Fresh EXCEPT !.at = "call", !.kind = "create", !.want = want,
                              !.count = count, !.before = Snapshot]
<1>2. /\ e \in Request /\ e.at = "call" /\ e.kind = "create" /\ e.plot = 0
      /\ e.count = count /\ e.before = Snapshot /\ e.want = want
      /\ e.config = Untouched /\ e.order = Untouched
  BY FreshParts, SnapshotType DEF Fresh, Request, Busy
<1>3. Clear(e)
  BY <1>2 DEF Clear
<1> QED
  BY <1>1, <1>2, <1>3

Update(want, p, target) ==
    [Fresh EXCEPT !.at = IF want # config[p] THEN "call" ELSE "row",
                  !.kind = "update", !.plot = p, !.old = config[p],
                  !.want = want, !.target = target, !.before = Snapshot]

LEMMA UpdateAsked ==
    ASSUME TypeOK, NEW want \in Configs, NEW p \in Saved, NEW target \in Targets \union {Gone}
    PROVE  LET e == Update(want, p, target) IN
           /\ Clear(e) /\ e.at = (IF want # config[p] THEN "call" ELSE "row") /\ e.plot = p
           /\ e.kind = "update" /\ e.old = config[p] /\ e.want = want /\ e.target = target
           /\ e.before = Snapshot
<1>1. PICK at \in {"call", "row"} : at = IF want # config[p] THEN "call" ELSE "row"
  OBVIOUS
<1>2. PICK old \in Configs : old = config[p] /\ old # Gone
  BY SavedPlots
<1> DEFINE e == [Fresh EXCEPT !.at = at, !.kind = "update", !.plot = p, !.old = old,
                              !.want = want, !.target = target, !.before = Snapshot]
<1>3. p \in Plots /\ p # 0 /\ target \in Nat \union {Gone}
  BY SavedPlots, DashboardsAssumption DEF DashboardsAssumption
<1>4. e \in Request
  BY <1>1, <1>3, FreshParts, SnapshotType DEF Fresh, Request, Busy, TrySteps
<1>5. /\ e.at = at /\ e.kind = "update" /\ e.plot = p /\ e.old = old
      /\ e.want = want /\ e.target = target /\ e.before = Snapshot
      /\ e.config = Untouched /\ e.order = Untouched
  BY FreshType DEF Request
<1>6. Update(want, p, target) = e
  BY <1>1, <1>2 DEF Update
<1> HIDE DEF e
<1>7. Clear(e)
  BY <1>2, <1>3, <1>4, <1>5 DEF Clear
<1> QED
  BY <1>1, <1>2, <1>5, <1>6, <1>7

LEMMA DeleteAsked ==
    ASSUME TypeOK, NEW p \in Saved
    PROVE  LET e == [Fresh EXCEPT !.at = "call", !.kind = "delete", !.plot = p,
                              !.old = config[p], !.before = Snapshot] IN
           /\ Clear(e) /\ e.at = "call" /\ e.plot = p /\ e.kind = "delete" /\ e.old = config[p]
           /\ e.before = Snapshot
<1>1. PICK old \in Configs : old = config[p] /\ old # Gone
  BY SavedPlots
<1> DEFINE e == [Fresh EXCEPT !.at = "call", !.kind = "delete", !.plot = p,
                              !.old = old, !.before = Snapshot]
<1>2. p \in Plots /\ p # 0
  BY SavedPlots
<1>3. /\ e \in Request /\ e.at = "call" /\ e.kind = "delete" /\ e.plot = p /\ e.old = old
      /\ e.before = Snapshot /\ e.config = Untouched /\ e.order = Untouched
  BY <1>2, FreshParts, SnapshotType DEF Fresh, Request, Busy
<1>4. Clear(e)
  BY <1>1, <1>2, <1>3 DEF Clear
<1> QED
  BY <1>1, <1>3, <1>4

LEMMA AskTables ==
    ASSUME TablesInv, NEW r \in Requests, Ask(r)
    PROVE  TablesInv'
<1>1. TypeOK
  BY DEF TablesInv
<1>2. ASSUME NEW want \in Configs, AskCreate(r, want)
      PROVE  TablesInv'
  BY <1>1, <1>2, CreateAsked, BeginTables DEF AskCreate
<1>3. ASSUME NEW want \in Configs, NEW p \in Plots, NEW target \in Targets \union {Gone},
             AskUpdate(r, p, want, target)
      PROVE  TablesInv'
  <2> DEFINE e == Update(want, p, target)
  <2>1. p \in Saved /\ Begin(r, e)
    BY <1>3 DEF AskUpdate, Update
  <2>2. /\ Clear(e) /\ e.at = (IF want # config[p] THEN "call" ELSE "row") /\ e.plot = p
        /\ e.kind = "update"
    BY <1>1, <1>3, <2>1, UpdateAsked
  <2> HIDE DEF e
  <2> QED
    BY <2>1, <2>2, BeginTables
<1>4. ASSUME NEW p \in Plots, AskDelete(r, p)
      PROVE  TablesInv'
  <2> DEFINE e == [Fresh EXCEPT !.at = "call", !.kind = "delete", !.plot = p,
                                !.old = config[p], !.before = Snapshot]
  <2>1. p \in Saved /\ Begin(r, e)
    BY <1>4 DEF AskDelete
  <2>2. Clear(e) /\ e.at = "call" /\ e.plot = p /\ e.kind = "delete"
    BY <1>1, <2>1, DeleteAsked
  <2> HIDE DEF e
  <2> QED
    BY <2>1, <2>2, BeginTables
<1> QED
  BY <1>2, <1>3, <1>4 DEF Ask

\* Requests that a crash ends are not there to disturb the others.
LEMMA CrashTables ==
    ASSUME TablesInv, Crash
    PROVE  TablesInv'
<1>1. /\ UNCHANGED <<config, order, grafana, made, asked, overlapped>> /\ TypeOK
      /\ req' = [r \in Requests |-> IF Serving(r) THEN Fresh ELSE req[r]]
  BY DEF Crash, TablesInv, tables
<1>2. failures' \in 0..MaxFailures
  <2> DEFINE ended == {r \in Requests : Serving(r)}
  <2>1. ended \in SUBSET Requests /\ IsFiniteSet(Requests)
    BY DashboardsAssumption DEF DashboardsAssumption
  <2>2. Cardinality(ended) \in Nat
    BY <2>1, FS_Subset, FS_CardinalityType
  <2>3. failures + Cardinality(ended) <= MaxFailures /\ failures' = failures + Cardinality(ended)
    BY DEF Crash
  <2> HIDE DEF ended
  <2> QED
    BY <1>1, <2>2, <2>3, DashboardsAssumption DEF TypeOK, DashboardsAssumption
<1>3. ASSUME NEW r \in Requests
      PROVE  \/ req'[r] = req[r]
             \/ req'[r] = Fresh
  BY <1>1
<1>4. Untouched' = Untouched /\ \A q \in Plots : Untouched[q] = Kept
  BY DEF Untouched
<1>5. TypeOK'
  <2>1. req' \in [Requests -> Request]
    BY <1>1, FreshType DEF TypeOK
  <2>2. ASSUME NEW s \in Requests
        PROVE  /\ req'[s].plot \in 0..made'
               /\ req'[s].at \in TrySteps \union {"undo"} => req'[s].plot # 0
               /\ req'[s].at \notin TrySteps => req'[s].config = Untouched /\ req'[s].order = Untouched
               /\ req'[s].at = "move" => req'[s].todo # <<>>
    BY <1>1, <1>3, FreshType DEF TypeOK, TrySteps
  <2> QED
    BY <1>1, <1>2, <1>4, <2>1, <2>2 DEF TypeOK
<1>6. ASSUME NEW r \in Requests
      PROVE  ConfigDrafts(r)' /\ OrderDrafts(r)' /\ Progress(r)'
  <2>1. CASE req'[r] = req[r]
    <3>1. ConfigDrafts(r) /\ OrderDrafts(r) /\ Progress(r)
      BY DEF TablesInv
    <3>2. ConfigDrafts(r)' /\ OrderDrafts(r)'
      BY <1>1, <2>1, <3>1 DEF ConfigDrafts, OrderDrafts
    <3>3. Progress(r)'
      BY <1>1, <2>1, <3>1 DEF Progress, Trying, Serving
    <3> QED
      BY <3>2, <3>3
  <2>2. CASE req'[r] = Fresh
    BY <1>4, <2>2, FreshType DEF ConfigDrafts, OrderDrafts, Progress, Trying, Serving, TrySteps, Busy
  <2> QED
    BY <1>3, <2>1, <2>2
<1>7. ASSUME NEW r \in Requests, NEW s \in Requests, r # s
      PROVE  Apart(r, s)'
  <2>1. Apart(r, s) /\ (Trying(r) => req[r].plot # 0)
    BY <1>1, <1>7 DEF TablesInv, TypeOK, Trying
  <2> QED
    BY <1>3, <1>4, <2>1, FreshType DEF Apart, Trying, TrySteps
<1>8. Unnamed'
  BY <1>1 DEF TablesInv, Unnamed
<1> QED
  BY <1>5, <1>6, <1>7, <1>8 DEF TablesInv

LEMMA TablesHold == Spec => []TablesInv
<1>1. Init => TablesInv
  <2> SUFFICES ASSUME Init PROVE TablesInv
    OBVIOUS
  <2>1. \A r \in Requests : req[r] = Fresh
    BY DEF Init
  <2>2. /\ config = [p \in Plots |-> Gone] /\ order = [p \in Plots |-> Gone]
        /\ grafana = [p \in Plots |-> Gone] /\ made = 0
    BY DEF Init
  <2>3. TypeOK
    <3>1. req \in [Requests -> Request]
      BY FreshType DEF Init
    <3>2. \A r \in Requests :
            /\ req[r].plot \in 0..made
            /\ req[r].at \in TrySteps \union {"undo"} => req[r].plot # 0
            /\ req[r].at \notin TrySteps => req[r].config = Untouched /\ req[r].order = Untouched
            /\ req[r].at = "move" => req[r].todo # <<>>
      BY <2>1, <2>2, FreshType DEF TrySteps
    <3>3. /\ config \in [Plots -> Configs \union {Gone}] /\ order \in [Plots -> Nat \union {Gone}]
          /\ grafana \in [Plots -> Configs \union {Gone}]
          /\ \A p \in Plots : config[p] = Gone <=> order[p] = Gone
      BY <2>2
    <3>4. made = 0 /\ asked = 0 /\ failures = 0 /\ overlapped = FALSE
      BY DEF Init
    <3>5. made \in 0..MaxPlots /\ asked \in 0..MaxAsked /\ failures \in 0..MaxFailures
      BY <3>4, DashboardsAssumption DEF DashboardsAssumption
    <3>6. overlapped \in BOOLEAN
      BY <3>4
    <3> QED
      BY <3>1, <3>2, <3>3, <3>5, <3>6 DEF TypeOK
  <2>4. \A q \in Plots : Untouched[q] = Kept
    BY DEF Untouched
  <2>5. \A r \in Requests : ConfigDrafts(r) /\ OrderDrafts(r)
    BY <2>1, <2>4, FreshType DEF ConfigDrafts, OrderDrafts
  <2>6. \A r \in Requests : Progress(r)
    BY <2>1, FreshType DEF Progress, Trying, Serving, TrySteps, Busy
  <2>7. \A r, s \in Requests : Apart(r, s)
    BY <2>1, <2>4, FreshType DEF Apart, Trying, TrySteps
  <2>8. Unnamed
    BY <2>2 DEF Unnamed
  <2> QED
    BY <2>3, <2>5, <2>6, <2>7, <2>8 DEF TablesInv
<1>2. TablesInv /\ [Next]_vars => TablesInv'
  <2> SUFFICES ASSUME TablesInv, [Next]_vars PROVE TablesInv'
    OBVIOUS
  <2>1. CASE UNCHANGED vars
    <3>1. UNCHANGED <<config, order, grafana, made, req, asked, failures, overlapped>>
      BY <2>1 DEF vars, tables
    <3>2. TypeOK' /\ Unnamed'
      BY <3>1 DEF TablesInv, TypeOK, Unnamed
    <3>3. \A r \in Requests : ConfigDrafts(r)' /\ OrderDrafts(r)'
      BY <3>1 DEF TablesInv, ConfigDrafts, OrderDrafts
    <3>4. \A r \in Requests : Progress(r)'
      BY <3>1 DEF TablesInv, Progress, Trying, Serving
    <3>5. \A r, s \in Requests : r # s => Apart(r, s)'
      BY <3>1 DEF TablesInv, Apart, Trying
    <3> QED
      BY <3>2, <3>3, <3>4, <3>5 DEF TablesInv
  <2>2. ASSUME NEW r \in Requests, Handle(r)
        PROVE  TablesInv'
    <3>1. CASE List(r)
      BY <3>1, ListSteps
    <3> QED
      BY <2>2, <3>1, CallTables, RowTables, WriteTables, CascadeTables, ItemTables, MoveTables,
         CommitTables, UndoTables DEF Handle
  <2> QED
    BY <2>1, <2>2, AskTables, AbortTables, FailsTables, CrashTables DEF Next
<1> QED
  BY <1>1, <1>2, PTL DEF Spec

\* Every state has the types of TypeOK: rows of the two tables come and go together, a plot that
\* is being worked on has been created, and only a transaction has uncommitted writes.
THEOREM TypeCorrect == Spec => []TypeOK
<1>1. TablesInv => TypeOK
  BY DEF TablesInv
<1> QED
  BY <1>1, TablesHold, PTL

-----------------------------------------------------------------------------
(* A failed request that was alone.                                        *)

\* A step of r's transaction: its drafts and its place change, and nothing else does.
Advances(r) ==
    /\ Trying(r)
    /\ UNCHANGED <<config, order, grafana, made, asked, overlapped>>
    /\ \E at \in TrySteps \union {"undo"} : \E todo, cfg, ord : Turns(r, at, todo, cfg, ord)

LEMMA Advancing ==
    ASSUME TablesInv, NEW r \in Requests,
           \/ Row(r) \/ Write(r) \/ Cascade(r) \/ List(r) \/ Item(r) \/ Move(r)
           \/ AbortDeadlocked(r) \/ (Fails(r) /\ Trying(r))
    PROVE  Advances(r)
<1>1. TypeOK /\ (Untouched' = Untouched)
  BY DEF TablesInv, Untouched
<1>2. UNCHANGED <<config, order, grafana, made, asked, overlapped>>
  BY DEF Row, Write, Cascade, List, Item, Move, AbortDeadlocked, Fails, Reading, tables
<1>3. Trying(r)
  <2>1. CASE AbortDeadlocked(r)
    BY <2>1 DEF AbortDeadlocked, WaitsFor, Trying, TrySteps
  <2> QED
    BY <2>1 DEF Row, Write, Cascade, List, Item, Move, Trying, TrySteps
<1>4. ASSUME NEW at \in TrySteps \union {"undo"}, NEW todo, NEW cfg, NEW ord,
             Turns(r, at, todo, cfg, ord)
      PROVE  Advances(r)
  BY <1>2, <1>3, <1>4 DEF Advances
<1>5. CASE Raise(r)
  BY <1>1, <1>4, <1>5, RaiseTurns
<1>6. ASSUME NEW at \in TrySteps, Goto(r, at)
      PROVE  Advances(r)
  BY <1>1, <1>4, <1>6, GotoTurns DEF Busy
<1>7. CASE Row(r)
  <2>1. CASE req[r].kind = "create"
    BY <1>4, <1>7, <2>1, InsertTurns DEF TrySteps
  <2> QED
    BY <1>5, <1>6, <1>7, <2>1 DEF Row, TrySteps
<1>8. CASE Write(r)
  <2>1. ASSUME NEW c \in Configs \union {Gone}, NEW at \in TrySteps,
               req' = [req EXCEPT ![r].config[req[r].plot] = c, ![r].at = at]
        PROVE  Advances(r)
    BY <1>3, <1>4, <2>1, WriteTurns
  <2>2. req[r].want \in Configs
    BY <1>1, TypeFacts
  <2>3. CASE /\ req[r].kind = "update" /\ config[req[r].plot] # Gone
             /\ req' = [req EXCEPT ![r].config[req[r].plot] = req[r].want,
                                   ![r].at = IF req[r].target # Gone THEN "list" ELSE "commit"]
    BY <2>1, <2>2, <2>3 DEF TrySteps
  <2>4. CASE /\ req[r].kind = "delete" /\ config[req[r].plot] # Gone
             /\ req' = [req EXCEPT ![r].config[req[r].plot] = Gone, ![r].at = "cascade"]
    BY <2>1, <2>4 DEF TrySteps
  <2> QED
    BY <1>5, <1>6, <1>8, <2>3, <2>4 DEF Write, TrySteps
<1>9. CASE Cascade(r)
  BY <1>4, <1>9, CascadeTurns DEF TrySteps
<1>10. CASE List(r)
  BY <1>4, <1>5, <1>10, ListSteps DEF TrySteps
<1>11. CASE Item(r)
  <2>1. ASSUME req[r].todo # <<>>, req' = [req EXCEPT ![r].todo = Tail(@)]
        PROVE  Advances(r)
    <3>1. Tail(req[r].todo) \in Seq([plot : Plots, to : Nat]) /\ req[r].at = "item"
      BY <1>1, <1>11, <2>1, TypeFacts, HeadTailProperties DEF Item
    <3>2. req' = [req EXCEPT ![r].at = "item", ![r].todo = Tail(req[r].todo)]
      BY <1>1, <2>1, <3>1 DEF TypeOK, Request
    <3>3. Reading
      BY <1>11 DEF Item
    <3>4. Turns(r, "item", Tail(req[r].todo), req[r].config, req[r].order)
      BY <3>1, <3>2, <3>3, TodoTables
    <3> QED
      BY <1>4, <3>4 DEF TrySteps
  <2> QED
    BY <1>5, <1>6, <1>11, <2>1 DEF Item, TrySteps
<1>12. CASE Move(r)
  BY <1>4, <1>5, <1>12, MoveTurns DEF TrySteps
<1>13. CASE AbortDeadlocked(r)
  BY <1>5, <1>13 DEF AbortDeadlocked
<1>14. CASE Fails(r) /\ Trying(r)
  BY <1>5, <1>14 DEF Fails, Trying, TrySteps
<1> QED
  BY <1>7, <1>8, <1>9, <1>10, <1>11, <1>12, <1>13, <1>14

\* The request changes its plot in Grafana.
Changes(r) == req[r].kind # "update" \/ Changed(r)

\* The stores agree with what they were, but for what r has done in Grafana.
Clean(r) ==
    LET b == req[r].before
        p == req[r].plot
    IN  b # Gone =>
        /\ req[r].at # "idle"
        /\ \A s \in Requests \ {r} : ~Serving(s)
        /\ config = b.config /\ order = b.order
        /\ req[r].at \in {"call", "failed"} => grafana = b.config
        /\ req[r].kind # "create" => config[p] = req[r].old
        /\ req[r].at \in TrySteps \union {"undo"} =>
             /\ \A q \in Plots \ {p} : grafana[q] = config[q]
             /\ req[r].kind = "create" => config[p] = Gone
             /\ ~Changes(r) => grafana[p] = config[p]

CleanInv ==
    /\ TablesInv
    /\ \A r \in Requests : Clean(r) /\ (req[r].at = "call" => Changes(r))

LEMMA CleanAdvance ==
    ASSUME CleanInv, TablesInv', NEW r \in Requests, Advances(r), NEW q \in Requests
    PROVE  Clean(q)' /\ (req'[q].at = "call" => Changes(q)')
<1>1. PICK at \in TrySteps \union {"undo"} : \E todo, cfg, ord : Turns(r, at, todo, cfg, ord)
  BY DEF Advances
<1>2. PICK todo, cfg, ord : Turns(r, at, todo, cfg, ord)
  BY <1>1
<1>3. /\ config' = config /\ order' = order /\ grafana' = grafana /\ Trying(r)
      /\ Clean(q) /\ (req[q].at = "call" => Changes(q))
  BY DEF Advances, CleanInv
<1>4. CASE q = r
  <2>1. /\ req'[r].at = at /\ req'[r].kind = req[r].kind /\ req'[r].plot = req[r].plot
        /\ req'[r].want = req[r].want /\ req'[r].old = req[r].old /\ req'[r].before = req[r].before
        /\ \A s \in Requests \ {r} : req'[s] = req[s]
    BY <1>2 DEF Turns
  <2>2. at \notin {"idle", "call", "failed"} /\ req[r].at \in TrySteps
    BY <1>3 DEF TrySteps, Trying
  <2> QED
    BY <1>3, <1>4, <2>1, <2>2 DEF Clean, Changes, Changed, Serving
<1>5. CASE q # r
  <2>1. req'[q] = req[q] /\ req[q].before = Gone
    BY <1>2, <1>3, <1>5 DEF Turns, Clean, Serving, Trying, Busy
  <2> QED
    BY <1>3, <2>1 DEF Clean, Changes, Changed
<1> QED
  BY <1>4, <1>5

\* A request that serves has the others go on as before it, and so they are not clean.
LEMMA CleanOthers ==
    ASSUME CleanInv, NEW r \in Requests, Serving(r), NEW q \in Requests \ {r}, req'[q] = req[q]
    PROVE  Clean(q)' /\ (req'[q].at = "call" => Changes(q)')
<1>1. req[q].before = Gone /\ (req[q].at = "call" => Changes(q))
  BY DEF CleanInv, Clean
<1> QED
  BY <1>1 DEF Clean, Changes, Changed

\* A request without a memory is clean.
LEMMA CleanForgotten ==
    ASSUME NEW r \in Requests, req'[r].before = Gone, req'[r].at # "call"
    PROVE  Clean(r)' /\ (req'[r].at = "call" => Changes(r)')
  BY DEF Clean

\* A record that takes the place of r's.
LEMMA Replaced ==
    ASSUME TypeOK, NEW r \in Requests, NEW e, req' = [req EXCEPT ![r] = e]
    PROVE  req'[r] = e /\ \A q \in Requests \ {r} : req'[q] = req[q]
  BY DEF TypeOK

LEMMA Failed ==
    ASSUME TypeOK, NEW r \in Requests, NEW before, before \in {Gone, req[r].before}, Fail(r, before)
    PROVE  /\ req'[r].at = "failed" /\ req'[r].before = before /\ req'[r].kind = "create"
           /\ req'[r].plot = 0
           /\ \A q \in Requests \ {r} : req'[q] = req[q]
<1> DEFINE e == [Fresh EXCEPT !.at = "failed", !.before = before]
<1>1. e.at = "failed" /\ e.before = before /\ e.plot = 0 /\ e.kind = "create"
  BY EndedClear
<1>2. req' = [req EXCEPT ![r] = e]
  BY DEF Fail
<1> HIDE DEF e
<1> QED
  BY <1>1, <1>2, Replaced

LEMMA CleanCall ==
    ASSUME CleanInv, NEW r \in Requests, CallGrafana(r), NEW q \in Requests
    PROVE  Clean(q)' /\ (req'[q].at = "call" => Changes(q)')
<1>1. /\ TypeOK /\ Unnamed /\ req[r].at = "call" /\ Serving(r) /\ Clean(r) /\ Changes(r)
      /\ req[r] \in Request /\ UNCHANGED <<config, order>>
  BY DEF CleanInv, TablesInv, CallGrafana, Serving, Busy, TypeOK, tables
<1>2. PICK p \in Plots :
        /\ IF req[r].kind = "create" THEN p = made + 1 ELSE p = req[r].plot
        /\ grafana' = [grafana EXCEPT ![p] = Wanted(r)]
        /\ req' = [req EXCEPT ![r].at = "row", ![r].plot = p] \/ Fail(r, Gone)
  BY DEF CallGrafana
<1>3. CASE Fail(r, Gone)
  BY <1>1, <1>3, Failed, CleanOthers, CleanForgotten
<1>4. CASE req' = [req EXCEPT ![r].at = "row", ![r].plot = p]
  <2> DEFINE e == [req[r] EXCEPT !.at = "row", !.plot = p]
  <2>1. /\ e.at = "row" /\ e.plot = p /\ e.kind = req[r].kind /\ e.want = req[r].want
        /\ e.old = req[r].old /\ e.before = req[r].before
    BY <1>1 DEF Request
  <2>2. req' = [req EXCEPT ![r] = e]
    BY <1>1, <1>4 DEF TypeOK, Request
  <2> HIDE DEF e
  <2>3. req'[r] = e /\ \A s \in Requests \ {r} : req'[s] = req[s]
    BY <1>1, <2>2, Replaced
  <2>4. CASE q # r
    BY <1>1, <2>3, <2>4, CleanOthers
  <2>5. CASE q = r
    <3>1. ASSUME e.before # Gone
          PROVE  /\ \A s \in Requests \ {r} : ~Serving(s)'
                 /\ config = e.before.config /\ order = e.before.order
                 /\ \A u \in Plots \ {p} : grafana'[u] = config[u]
                 /\ e.kind = "create" => config[p] = Gone
                 /\ e.kind # "create" => config[p] = e.old
      <4>1. grafana = config /\ config = e.before.config /\ order = e.before.order
            /\ \A s \in Requests \ {r} : ~Serving(s)
        BY <1>1, <2>1, <3>1 DEF Clean
      <4>2. \A u \in Plots \ {p} : grafana'[u] = config[u]
        BY <1>1, <1>2, <4>1 DEF TypeOK
      <4>3. req[r].kind = "create" => config[p] = Gone
        BY <1>1, <1>2 DEF Unnamed, TypeOK, Plots
      <4>4. req[r].kind # "create" => config[p] = req[r].old
        BY <1>1, <1>2, <2>1, <3>1 DEF Clean
      <4> QED
        BY <2>1, <2>3, <4>1, <4>2, <4>3, <4>4 DEF Serving
    <3>2. Changes(r)'
      BY <1>1, <2>1, <2>3 DEF Changes, Changed
    <3> QED
      BY <1>1, <2>1, <2>3, <2>5, <3>1, <3>2 DEF Clean
  <2> QED
    BY <2>4, <2>5
<1> QED
  BY <1>2, <1>3, <1>4

LEMMA CleanCommit ==
    ASSUME CleanInv, NEW r \in Requests, Commit(r), NEW q \in Requests
    PROVE  Clean(q)' /\ (req'[q].at = "call" => Changes(q)')
<1>1. TypeOK /\ Serving(r) /\ req[r] \in Request
  BY DEF CleanInv, TablesInv, Commit, Serving, Busy, TrySteps, TypeOK
<1>2. req'[r].before = Gone /\ req'[r].at # "call" /\ \A s \in Requests \ {r} : req'[s] = req[s]
  <2>1. CASE Done(r)
    BY <1>1, <2>1, Replaced, FreshType DEF Done
  <2>2. CASE req' = [req EXCEPT ![r].at = "undo", ![r].config = Untouched, ![r].order = Untouched,
                                ![r].todo = <<>>, ![r].before = Gone]
    BY <1>1, <2>2 DEF TypeOK, Request
  <2> QED
    BY <2>1, <2>2 DEF Commit
<1> QED
  BY <1>1, <1>2, CleanOthers, CleanForgotten

LEMMA CleanUndo ==
    ASSUME CleanInv, NEW r \in Requests, Undo(r), NEW q \in Requests
    PROVE  Clean(q)' /\ (req'[q].at = "call" => Changes(q)')
<1>1. /\ TypeOK /\ Serving(r) /\ req[r].at = "undo" /\ Clean(r) /\ UNCHANGED <<config, order>>
      /\ req[r].kind \in {"create", "update", "delete"} /\ req[r].plot \in Plots
      /\ config \in [Plots -> Configs \union {Gone}] /\ grafana \in [Plots -> Configs \union {Gone}]
  <2>1. TypeOK /\ req[r].at = "undo" /\ req[r].plot # 0 /\ Clean(r)
    BY DEF CleanInv, TablesInv, Undo, TypeOK
  <2> QED
    BY <2>1, TypeFacts DEF Undo, Serving, Busy, tables, TypeOK
<1>2. /\ req'[r].at = "failed" /\ req'[r].before = req[r].before /\ req'[r].kind = "create"
      /\ \A s \in Requests \ {r} : req'[s] = req[s]
  BY <1>1, Failed DEF Undo
<1>3. CASE q # r
  BY <1>1, <1>2, <1>3, CleanOthers
<1>4. CASE q = r
  <2>1. ASSUME req[r].before # Gone
        PROVE  grafana' = config /\ \A s \in Requests \ {r} : ~Serving(s)
    <3>1. /\ \A u \in Plots \ {req[r].plot} : grafana[u] = config[u]
          /\ req[r].kind = "create" => config[req[r].plot] = Gone
          /\ req[r].kind # "create" => config[req[r].plot] = req[r].old
          /\ ~Changes(r) => grafana[req[r].plot] = config[req[r].plot]
          /\ \A s \in Requests \ {r} : ~Serving(s)
      BY <1>1, <2>1 DEF Clean
    <3>2. Compensation(r) = config[req[r].plot]
      BY <1>1, <3>1 DEF Compensation, Changes
    <3>3. \A u \in Plots : grafana'[u] = config[u]
      BY <1>1, <3>1, <3>2 DEF Undo
    <3>4. grafana' = [u \in Plots |-> grafana'[u]] /\ config = [u \in Plots |-> config[u]]
      BY <1>1 DEF Undo
    <3> QED
      BY <3>1, <3>3, <3>4
  <2>2. req[r].before # Gone => config = req[r].before.config /\ order = req[r].before.order
    BY <1>1 DEF Clean
  <2>3. \A s \in Requests \ {r} : Serving(s)' <=> Serving(s)
    BY <1>2 DEF Serving
  <2> QED
    BY <1>1, <1>2, <1>4, <2>1, <2>2, <2>3 DEF Clean, TrySteps
<1> QED
  BY <1>3, <1>4

LEMMA CleanFails ==
    ASSUME CleanInv, TablesInv', NEW r \in Requests, Fails(r), NEW q \in Requests
    PROVE  Clean(q)' /\ (req'[q].at = "call" => Changes(q)')
<1>1. /\ TypeOK /\ Serving(r) /\ Clean(r) /\ UNCHANGED <<config, order, grafana>>
  BY DEF CleanInv, TablesInv, Fails, tables
<1>2. CASE Trying(r)
  BY <1>2, Advancing, CleanAdvance DEF CleanInv
<1>3. CASE req[r].at = "undo" /\ Fail(r, Gone)
  BY <1>1, <1>3, Failed, CleanOthers, CleanForgotten
<1>4. CASE req[r].at = "call" /\ Fail(r, req[r].before)
  <2>1. /\ req'[r].at = "failed" /\ req'[r].before = req[r].before /\ req'[r].kind = "create"
        /\ \A s \in Requests \ {r} : req'[s] = req[s]
    BY <1>1, <1>4, Failed
  <2>2. \A s \in Requests \ {r} : Serving(s)' <=> Serving(s)
    BY <2>1 DEF Serving
  <2>3. CASE q # r
    BY <1>1, <2>1, <2>3, CleanOthers
  <2>4. CASE q = r
    BY <1>1, <1>4, <2>1, <2>2, <2>4 DEF Clean, TrySteps
  <2> QED
    BY <2>3, <2>4
<1> QED
  BY <1>2, <1>3, <1>4 DEF Fails, Trying

LEMMA CleanBegin ==
    ASSUME CleanInv, NEW r \in Requests, NEW e, Begin(r, e), Clear(e), e.before = Snapshot,
           e.at \in {"call", "row"}, e.kind # "create" => config[e.plot] = e.old,
           e.kind = "update" => (e.at = "call" <=> e.want # e.old), e.at = "row" => e.kind = "update",
           NEW q \in Requests
    PROVE  Clean(q)' /\ (req'[q].at = "call" => Changes(q)')
<1>1. /\ UNCHANGED <<config, order, grafana>>
      /\ req'[r] = e
      /\ \A s \in Requests \ {r} : req'[s] = [req[s] EXCEPT !.before = Gone]
  BY DEF Begin, tables
<1>2. \A s \in Requests \ {r} :
        /\ req'[s].before = Gone /\ req'[s].at = req[s].at /\ req'[s].kind = req[s].kind
        /\ req'[s].want = req[s].want /\ req'[s].old = req[s].old
  <2> SUFFICES ASSUME NEW s \in Requests \ {r}
               PROVE  /\ req'[s].before = Gone /\ req'[s].at = req[s].at /\ req'[s].kind = req[s].kind
                      /\ req'[s].want = req[s].want /\ req'[s].old = req[s].old
    OBVIOUS
  <2>1. req[s] \in Request /\ req'[s] = [req[s] EXCEPT !.before = Gone]
    BY <1>1 DEF CleanInv, TablesInv, TypeOK
  <2> QED
    BY <2>1 DEF Request
<1>3. CASE q # r
  BY <1>2, <1>3 DEF CleanInv, Clean, Changes, Changed
<1>4. CASE q = r
  <2>1. ASSUME e.before # Gone
        PROVE  /\ grafana = config /\ config = e.before.config /\ order = e.before.order
               /\ \A s \in Requests \ {r} : ~Serving(s)'
    BY <1>2, <2>1 DEF Snapshot, Nobody, Serving
  <2> QED
    BY <1>1, <1>4, <2>1 DEF Clean, Changes, Changed, TrySteps
<1> QED
  BY <1>3, <1>4

LEMMA CleanAsk ==
    ASSUME CleanInv, NEW r \in Requests, Ask(r), NEW q \in Requests
    PROVE  Clean(q)' /\ (req'[q].at = "call" => Changes(q)')
<1>1. TypeOK
  BY DEF CleanInv, TablesInv
<1>2. ASSUME NEW want \in Configs, AskCreate(r, want)
      PROVE  Clean(q)' /\ (req'[q].at = "call" => Changes(q)')
  BY <1>1, <1>2, CreateAsked, CleanBegin DEF AskCreate
<1>3. ASSUME NEW want \in Configs, NEW p \in Plots, NEW target \in Targets \union {Gone},
             AskUpdate(r, p, want, target)
      PROVE  Clean(q)' /\ (req'[q].at = "call" => Changes(q)')
  <2> DEFINE e == Update(want, p, target)
  <2>1. p \in Saved /\ Begin(r, e)
    BY <1>3 DEF AskUpdate, Update
  <2>2. /\ Clear(e) /\ e.at = (IF want # config[p] THEN "call" ELSE "row") /\ e.plot = p
        /\ e.kind = "update" /\ e.old = config[p] /\ e.want = want /\ e.before = Snapshot
    BY <1>1, <1>3, <2>1, UpdateAsked
  <2> HIDE DEF e
  <2> QED
    BY <2>1, <2>2, CleanBegin
<1>4. ASSUME NEW p \in Plots, AskDelete(r, p)
      PROVE  Clean(q)' /\ (req'[q].at = "call" => Changes(q)')
  <2> DEFINE e == [Fresh EXCEPT !.at = "call", !.kind = "delete", !.plot = p,
                                !.old = config[p], !.before = Snapshot]
  <2>1. p \in Saved /\ Begin(r, e)
    BY <1>4 DEF AskDelete
  <2>2. /\ Clear(e) /\ e.at = "call" /\ e.plot = p /\ e.kind = "delete" /\ e.old = config[p]
        /\ e.before = Snapshot
    BY <1>1, <2>1, DeleteAsked
  <2> HIDE DEF e
  <2> QED
    BY <2>1, <2>2, CleanBegin
<1> QED
  BY <1>2, <1>3, <1>4 DEF Ask

LEMMA CleanCrash ==
    ASSUME CleanInv, Crash, NEW q \in Requests
    PROVE  Clean(q)' /\ (req'[q].at = "call" => Changes(q)')
<1>1. /\ UNCHANGED <<config, order, grafana>> /\ Clean(q) /\ (req[q].at = "call" => Changes(q))
      /\ req' = [r \in Requests |-> IF Serving(r) THEN Fresh ELSE req[r]]
  BY DEF Crash, CleanInv, tables
<1>2. CASE req'[q] = Fresh
  BY <1>2, FreshType, CleanForgotten
<1>3. CASE req'[q] = req[q]
  <2>1. \A s \in Requests : Serving(s)' => Serving(s)
    BY <1>1, FreshType DEF Serving, Busy, TrySteps
  <2> QED
    BY <1>1, <1>3, <2>1 DEF Clean, Changes, Changed
<1> QED
  BY <1>1, <1>2, <1>3

LEMMA CleanHolds == Spec => []CleanInv
<1>1. Init /\ TablesInv => CleanInv
  BY FreshType DEF Init, CleanInv, Clean
<1>2. CleanInv /\ TablesInv' /\ [Next]_vars => CleanInv'
  <2> SUFFICES ASSUME CleanInv, TablesInv', [Next]_vars, NEW q \in Requests
               PROVE  Clean(q)' /\ (req'[q].at = "call" => Changes(q)')
    BY DEF CleanInv
  <2>1. CASE UNCHANGED vars
    BY <2>1 DEF vars, tables, CleanInv, Clean, Changes, Changed, Serving
  <2>2. ASSUME NEW r \in Requests, Handle(r) \/ AbortDeadlocked(r)
        PROVE  Clean(q)' /\ (req'[q].at = "call" => Changes(q)')
    <3>1. \/ CallGrafana(r) \/ Commit(r) \/ Undo(r)
          \/ Row(r) \/ Write(r) \/ Cascade(r) \/ List(r) \/ Item(r) \/ Move(r) \/ AbortDeadlocked(r)
      BY <2>2 DEF Handle
    <3> QED
      BY <3>1, CleanCall, CleanCommit, CleanUndo, Advancing, CleanAdvance DEF CleanInv
  <2> QED
    BY <2>1, <2>2, CleanAsk, CleanFails, CleanCrash DEF Next
<1> QED
  BY <1>1, <1>2, TablesHold, PTL DEF Spec

\* A request that had the run to itself and reports an error, none of its failures leaving open
\* what took effect, leaves Grafana and both tables as it found them.
THEOREM FailuresAreClean == Spec => []FailedRequestsChangeNothing
<1>1. CleanInv => FailedRequestsChangeNothing
  BY DEF CleanInv, Clean, FailedRequestsChangeNothing
<1> QED
  BY <1>1, CleanHolds, PTL

-----------------------------------------------------------------------------
(* How far the stores may differ.                                          *)

\* A request that has changed, or is about to take back, its plot in Grafana.
Reached(r) == req[r].at \in TrySteps \union {"undo"}
Held(r, p) == Reached(r) /\ req[r].plot = p /\ Changes(r)

\* Saved plots whose dashboard is gone for good, or will be when a create has compensated.
Lost == {p \in Saved :
            \/ /\ grafana[p] = Gone
               /\ \A r \in Requests : req[r].kind = "delete" /\ req[r].plot = p => ~Reached(r)
            \/ \E r \in Requests : req[r].kind = "create" /\ req[r].plot = p /\ req[r].at = "undo"}

\* Plots whose stores differ for good, or will when a request has compensated.
Astray == {p \in Plots :
            \/ grafana[p] # config[p] /\ \A r \in Requests : ~Held(r, p)
            \/ \E r \in Requests : Held(r, p) /\ req[r].at = "undo" /\ config[p] # Compensation(r)}

\* A create shows its plot before it saves it.
Backed(r) == req[r].kind = "create" /\ Trying(r) => grafana[req[r].plot] = req[r].want

\* What a transaction sees of its plot is what it wants.
SeesWanted(r) ==
    req[r].at \in {"list", "item", "move", "commit"} => SeesConfig(r)[req[r].plot] = Wanted(r)

\* What a request that is alone knows of its plot.
Solo(r) ==
    LET p == req[r].plot IN
    Serving(r) =>
        /\ \A s \in Requests \ {r} : ~Serving(s)
        /\ req[r].kind # "create" /\ req[r].at # "undo" => config[p] = req[r].old
        /\ Trying(r) /\ Changes(r) => grafana[p] = Wanted(r)
        /\ SeesWanted(r)

StoresInv ==
    /\ CleanInv
    /\ \A r \in Requests : Backed(r)
    /\ Cardinality(Lost) <= failures
    /\ ~overlapped => (\A r \in Requests : Solo(r)) /\ Cardinality(Astray) <= failures

\* The requests but r are where they were.
Bystanders(r) ==
    \A s \in Requests \ {r} :
        /\ req'[s].at = req[s].at /\ req'[s].kind = req[s].kind /\ req'[s].plot = req[s].plot
        /\ req'[s].want = req[s].want /\ req'[s].old = req[s].old

\* A step of r concerns its plot.
LEMMA Elsewhere ==
    ASSUME TablesInv, NEW r \in Requests, Bystanders(r), NEW p,
           Reached(r) => req[r].plot = p, req'[r].at \in TrySteps \union {"undo"} => req'[r].plot = p,
           \A q \in Plots \ {p} : config'[q] = config[q] /\ grafana'[q] = grafana[q]
    PROVE  \A q \in Plots \ {p} : (q \in Lost' => q \in Lost) /\ (q \in Astray' => q \in Astray)
<1> SUFFICES ASSUME NEW q \in Plots \ {p}
             PROVE  (q \in Lost' => q \in Lost) /\ (q \in Astray' => q \in Astray)
  OBVIOUS
<1>1. /\ config'[q] = config[q] /\ grafana'[q] = grafana[q]
      /\ ~(Reached(r) /\ req[r].plot = q)
      /\ ~(req'[r].at \in TrySteps \union {"undo"} /\ req'[r].plot = q)
      /\ "undo" \in TrySteps \union {"undo"}
  OBVIOUS
<1>2. \A s \in Requests \ {r} :
        /\ req'[s].at = req[s].at /\ req'[s].kind = req[s].kind /\ req'[s].plot = req[s].plot
        /\ req'[s].want = req[s].want /\ req'[s].old = req[s].old
  BY DEF Bystanders
<1>3. q \in Lost' => q \in Lost
  BY <1>1, <1>2 DEF Lost, Saved, Reached
<1>4. q \in Astray' => q \in Astray
  <2>1. \A s \in Requests \ {r} : Held(s, q)' <=> Held(s, q)
    BY <1>2 DEF Held, Reached, Changes, Changed
  <2>2. ~Held(r, q) /\ ~Held(r, q)'
    BY <1>1 DEF Held, Reached
  <2>3. ASSUME NEW s \in Requests \ {r}, Held(s, q)
        PROVE  (config[q] = Compensation(s)) <=> (config'[q] = Compensation(s)')
    <3>1. req[s].plot = q /\ (req[s].kind = "update" => Changed(s))
      BY <2>3 DEF Held, Changes
    <3>2. req[s].kind \in {"create", "update", "delete"}
      BY TypeFacts DEF TablesInv
    <3> QED
      BY <1>1, <1>2, <3>1, <3>2 DEF Compensation, Changed
  <2> QED
    BY <1>1, <1>2, <2>1, <2>2, <2>3 DEF Astray
<1> QED
  BY <1>3, <1>4

\* Sets that grow by a plot at most, and only when a failure is counted.
LEMMA GrowsWithFailures ==
    ASSUME NEW S, NEW T, NEW p, NEW n \in Nat, NEW m \in Nat,
           IsFiniteSet(S), Cardinality(S) <= n, n <= m,
           T \subseteq S \union {p}, T \subseteq S \/ m = n + 1
    PROVE  Cardinality(T) <= m
<1>1. Cardinality(S) \in Nat
  BY FS_CardinalityType
<1>2. CASE T \subseteq S
  <2>1. IsFiniteSet(T) /\ Cardinality(T) <= Cardinality(S)
    BY <1>2, FS_Subset
  <2>2. Cardinality(T) \in Nat
    BY <2>1, FS_CardinalityType
  <2> QED
    BY <1>1, <2>1, <2>2
<1>3. CASE m = n + 1
  <2>1. IsFiniteSet(S \union {p}) /\ Cardinality(S \union {p}) <= Cardinality(S) + 1
    BY <1>1, FS_AddElement
  <2>2. IsFiniteSet(T) /\ Cardinality(T) <= Cardinality(S \union {p})
    BY <2>1, FS_Subset
  <2>3. Cardinality(T) \in Nat /\ Cardinality(S \union {p}) \in Nat
    BY <2>1, <2>2, FS_CardinalityType
  <2> QED
    BY <1>1, <1>3, <2>1, <2>2, <2>3
<1> QED
  BY <1>2, <1>3

LEMMA LostAstrayFinite ==
    ASSUME TypeOK
    PROVE  IsFiniteSet(Lost) /\ IsFiniteSet(Astray)
<1>1. Lost \in SUBSET Plots /\ Astray \in SUBSET Plots
  BY DEF Lost, Saved, Astray
<1> QED
  BY <1>1, SavedPlots, FS_Subset

\* What every step of r alone has to show.
LEMMA StoresStep ==
    ASSUME StoresInv, CleanInv', NEW r \in Requests, Bystanders(r), NEW p,
           Reached(r) => req[r].plot = p, req'[r].at \in TrySteps \union {"undo"} => req'[r].plot = p,
           \A q \in Plots \ {p} : config'[q] = config[q] /\ grafana'[q] = grafana[q],
           failures' \in {failures, failures + 1}, ~overlapped' => ~overlapped,
           failures' = failures => (p \in Lost' => p \in Lost),
           failures' = failures /\ ~overlapped' => (p \in Astray' => p \in Astray),
           \A q \in Requests : Backed(q)', ~overlapped' => \A q \in Requests : Solo(q)'
    PROVE  StoresInv'
<1>1. TablesInv /\ TypeOK /\ failures \in Nat /\ TypeOK' /\ failures' \in Nat
  BY DEF StoresInv, CleanInv, TablesInv, TypeOK
<1>2. Lost' \subseteq Plots /\ Astray' \subseteq Plots
  BY DEF Lost, Saved, Astray
<1>3. \A q \in Plots \ {p} : (q \in Lost' => q \in Lost) /\ (q \in Astray' => q \in Astray)
  BY <1>1, Elsewhere
<1>4. Cardinality(Lost') <= failures'
  <2>1. Lost' \subseteq Lost \union {p} /\ (Lost' \subseteq Lost \/ failures' = failures + 1)
    BY <1>2, <1>3
  <2>2. IsFiniteSet(Lost) /\ Cardinality(Lost) <= failures /\ failures <= failures'
    BY <1>1, LostAstrayFinite DEF StoresInv
  <2> QED
    BY <1>1, <2>1, <2>2, GrowsWithFailures
<1>5. ASSUME ~overlapped'
      PROVE  Cardinality(Astray') <= failures'
  <2>1. Astray' \subseteq Astray \union {p} /\ (Astray' \subseteq Astray \/ failures' = failures + 1)
    BY <1>2, <1>3, <1>5
  <2>2. IsFiniteSet(Astray) /\ Cardinality(Astray) <= failures /\ failures <= failures'
    BY <1>1, <1>5, LostAstrayFinite DEF StoresInv
  <2> QED
    BY <1>1, <2>1, <2>2, GrowsWithFailures
<1> QED
  BY <1>4, <1>5 DEF StoresInv

\* The other requests stay backed, if r's step concerns a plot that no create is about to save.
LEMMA BystandersBacked ==
    ASSUME StoresInv, NEW r \in Requests, Bystanders(r), NEW s \in Requests \ {r}, NEW p,
           \A q \in Plots \ {p} : grafana'[q] = grafana[q],
           req[s].kind = "create" /\ Trying(s) => req[s].plot # p
    PROVE  Backed(s)'
<1>1. Backed(s) /\ (Trying(s) => req[s].plot \in Plots)
  BY TypeFacts DEF StoresInv, CleanInv, TablesInv
<1>2. /\ req'[s].at = req[s].at /\ req'[s].kind = req[s].kind /\ req'[s].plot = req[s].plot
      /\ req'[s].want = req[s].want
  BY DEF Bystanders
<1> QED
  BY <1>1, <1>2 DEF Backed, Trying

LEMMA SeesWantedStep ==
    ASSUME TablesInv, TablesInv', NEW r \in Requests, SeesWanted(r),
           \/ Row(r) \/ Write(r) \/ Cascade(r) \/ List(r) \/ Item(r) \/ Move(r)
           \/ AbortDeadlocked(r) \/ (Fails(r) /\ Trying(r))
    PROVE  SeesWanted(r)'
<1>1. /\ TypeOK /\ Trying(r) /\ config' = config /\ req[r].plot \in Plots
      /\ req[r].kind \in {"create", "update", "delete"} /\ req[r].want \in Configs
      /\ req[r].config \in [Plots -> Configs \union {Gone, Kept}]
      /\ Progress(r)
  BY Advancing, TypeFacts DEF TablesInv, Advances
<1>2. PICK at \in TrySteps \union {"undo"} : \E todo, cfg, ord : Turns(r, at, todo, cfg, ord)
  BY Advancing DEF Advances
<1>3. /\ req'[r].at = at /\ req'[r].kind = req[r].kind /\ req'[r].plot = req[r].plot
      /\ req'[r].want = req[r].want
  BY <1>2 DEF Turns
<1> DEFINE p == req[r].plot
<1>4. /\ SeesConfig(r)[p] = (IF req[r].config[p] # Kept THEN req[r].config[p] ELSE config[p])
      /\ SeesConfig(r)'[p] = (IF req'[r].config[p] # Kept THEN req'[r].config[p] ELSE config[p])
  BY <1>1, <1>3 DEF SeesConfig, Overlay
<1>5. Gone # Kept /\ Kept \notin Configs
  BY DashboardsAssumption DEF DashboardsAssumption
<1>6. SUFFICES ASSUME at \in {"list", "item", "move", "commit"}
               PROVE  SeesConfig(r)'[p] = Wanted(r)'
  BY <1>3 DEF SeesWanted
<1>7. Wanted(r)' = Wanted(r)
  BY <1>3 DEF Wanted
<1>8. CASE req[r].kind = "create"
  <2>1. Progress(r)'
    BY DEF TablesInv
  <2>2. req'[r].at = "commit" /\ req'[r].config[p] = req[r].want
    BY <1>1, <1>3, <1>6, <1>8, <2>1 DEF Progress, Trying, TrySteps
  <2> QED
    BY <1>1, <1>4, <1>5, <1>7, <1>8, <2>2 DEF Wanted
<1>9. CASE req[r].kind = "delete"
  <2>1. Progress(r)' /\ ConfigDrafts(r)'
    BY DEF TablesInv
  <2>2. /\ req'[r].config[p] = Gone \/ config[p] = Gone
        /\ req'[r].config[p] # Kept => req'[r].config[p] = Gone
    BY <1>1, <1>3, <1>6, <1>9, <2>1 DEF Progress, ConfigDrafts
  <2> QED
    BY <1>1, <1>4, <1>5, <1>7, <1>9, <2>2 DEF Wanted
<1>10. CASE req[r].kind = "update"
  <2>1. Wanted(r) = req[r].want
    BY <1>10 DEF Wanted
  <2>2. CASE Raise(r)
    BY <1>1, <1>3, <1>6, <2>2, RaiseTurns DEF Turns
  <2>3. ASSUME req'[r].config = req[r].config, SeesConfig(r)[p] = req[r].want
        PROVE  SeesConfig(r)'[p] = req[r].want
    BY <1>4, <2>3
  <2>4. ASSUME NEW to \in TrySteps, Goto(r, to)
        PROVE  req'[r].config = req[r].config
    BY <1>1, <2>4, GotoTurns DEF Turns, Busy
  <2>5. CASE Row(r)
    <3>1. req[r].config[p] = Kept
      BY <1>1, <2>5 DEF Progress, Row, Untouched
    <3>2. CASE config[p] = req[r].want
      BY <1>4, <1>7, <1>10, <2>1, <2>2, <2>3, <2>4, <2>5, <3>1, <3>2 DEF Row, TrySteps
    <3>3. CASE config[p] # req[r].want /\ ~Raise(r)
      <4>1. Goto(r, "write")
        BY <1>10, <2>5, <3>3 DEF Row
      <4>2. req'[r].at = "write"
        BY <1>1, <4>1 DEF Goto, TypeOK, Request
      <4> QED
        BY <1>3, <1>6, <4>2
    <3> QED
      BY <2>2, <3>2, <3>3
  <2>6. CASE Write(r)
    <3>1. CASE ~Raise(r)
      <4>1. PICK to \in {"list", "commit"} :
               req' = [req EXCEPT ![r].config[req[r].plot] = req[r].want, ![r].at = to]
        BY <1>10, <2>6, <3>1 DEF Write
      <4>2. Turns(r, to, req[r].todo, [req[r].config EXCEPT ![p] = req[r].want], req[r].order)
        BY <1>1, <4>1, WriteTurns DEF TrySteps
      <4>3. req'[r].config[p] = req[r].want
        BY <1>1, <4>2 DEF Turns
      <4> QED
        BY <1>1, <1>4, <1>5, <1>7, <2>1, <4>3
    <3> QED
      BY <2>2, <3>1
  <2>7. CASE Cascade(r)
    BY <1>1, <1>10, <2>7 DEF Cascade, Progress
  <2>8. CASE List(r)
    <3>1. req'[r].config = req[r].config \/ Raise(r)
      BY <2>8, ListSteps DEF Turns
    <3>2. SeesConfig(r)[p] = req[r].want
      BY <2>1, <2>8 DEF List, SeesWanted
    <3> QED
      BY <1>7, <2>1, <2>2, <2>3, <3>1, <3>2
  <2>9. CASE Item(r)
    <3>1. req'[r].config = req[r].config \/ Raise(r)
      <4>1. CASE req' = [req EXCEPT ![r].todo = Tail(@)]
        BY <1>1, <4>1 DEF TypeOK, Request
      <4> QED
        BY <2>4, <2>9, <4>1 DEF Item, TrySteps
    <3>2. SeesConfig(r)[p] = req[r].want
      BY <2>1, <2>9 DEF Item, SeesWanted
    <3> QED
      BY <1>7, <2>1, <2>2, <2>3, <3>1, <3>2
  <2>10. CASE Move(r)
    <3>1. req'[r].config = req[r].config \/ Raise(r)
      BY <2>10, MoveTurns DEF Turns
    <3>2. SeesConfig(r)[p] = req[r].want
      BY <2>1, <2>10 DEF Move, SeesWanted
    <3> QED
      BY <1>7, <2>1, <2>2, <2>3, <3>1, <3>2
  <2>11. CASE AbortDeadlocked(r) \/ (Fails(r) /\ Trying(r))
    BY <2>2, <2>11 DEF AbortDeadlocked, Fails, Trying, TrySteps
  <2> QED
    BY <2>5, <2>6, <2>7, <2>8, <2>9, <2>10, <2>11
<1> QED
  BY <1>1, <1>8, <1>9, <1>10

\* Statements, and what takes the place of one.
Statement(r) ==
    \/ Row(r) \/ Write(r) \/ Cascade(r) \/ List(r) \/ Item(r) \/ Move(r)
    \/ AbortDeadlocked(r) \/ (Fails(r) /\ Trying(r))

LEMMA StoresStatement ==
    ASSUME StoresInv, CleanInv', NEW r \in Requests, Statement(r)
    PROVE  StoresInv'
<1> DEFINE p == req[r].plot
<1>1. /\ TablesInv /\ TablesInv' /\ TypeOK /\ Advances(r) /\ Trying(r) /\ Progress(r)
      /\ req[r].kind \in {"create", "update", "delete"} /\ p \in Plots /\ Serving(r)
      /\ failures' \in {failures, failures + 1}
  <2>1. TablesInv /\ TablesInv' /\ TypeOK /\ Progress(r)
    BY DEF StoresInv, CleanInv, TablesInv
  <2>2. Advances(r)
    BY <2>1, Advancing DEF Statement
  <2>3. failures' \in {failures, failures + 1}
    BY DEF Statement, Row, Write, Cascade, List, Item, Move, AbortDeadlocked, Fails, Reading
  <2> QED
    BY <2>1, <2>2, <2>3, TypeFacts DEF Advances
<1>2. PICK at \in TrySteps \union {"undo"} : \E todo, cfg, ord : Turns(r, at, todo, cfg, ord)
  BY <1>1 DEF Advances
<1>3. /\ req'[r].at = at /\ req'[r].kind = req[r].kind /\ req'[r].plot = p
      /\ req'[r].want = req[r].want /\ req'[r].old = req[r].old
      /\ \A s \in Requests \ {r} : req'[s] = req[s]
  BY <1>2 DEF Turns
<1>4. config' = config /\ grafana' = grafana /\ overlapped' = overlapped
  BY <1>1 DEF Advances
<1>5. Bystanders(r)
  BY <1>3 DEF Bystanders
<1>6. p \in Lost' => p \in Lost
  <2>1. req[r].kind = "create" => config[p] = Gone
    BY <1>1 DEF Progress
  <2> QED
    BY <1>1, <1>3, <1>4, <2>1 DEF Lost, Saved, Reached, Trying
<1>7. ~overlapped' => (p \in Astray' => p \in Astray)
  <2> SUFFICES ASSUME ~overlapped', p \in Astray' PROVE p \in Astray
    OBVIOUS
  <2>1. /\ Solo(r) /\ req[r].at # "undo" /\ req[r].at # "call"
        /\ req[r].kind = "create" => config[p] = Gone
    BY <1>1, <1>4 DEF StoresInv, Progress, Trying, TrySteps
  <2>2. /\ req[r].kind # "create" => config[p] = req[r].old
        /\ \A s \in Requests \ {r} : ~Serving(s)
    BY <1>1, <2>1 DEF Solo
  <2>3. Changes(r) => config[p] = Compensation(r)'
    BY <1>1, <1>3, <1>4, <2>1, <2>2 DEF Changes, Changed, Compensation
  <2>4. \A s \in Requests \ {r} : ~Held(s, p) /\ ~Held(s, p)'
    BY <1>3, <2>2 DEF Held, Reached, Serving, Busy
  <2>5. Held(r, p)' <=> Held(r, p)
    BY <1>1, <1>3 DEF Held, Reached, Changes, Changed, Trying
  <2>6. Held(r, p) => Changes(r)
    BY DEF Held
  <2> QED
    BY <1>3, <1>4, <2>3, <2>4, <2>5, <2>6 DEF Astray
<1>8. ASSUME NEW q \in Requests
      PROVE  Backed(q)'
  BY <1>1, <1>3, <1>4 DEF StoresInv, Backed, Trying
<1>9. ASSUME ~overlapped', NEW q \in Requests
      PROVE  Solo(q)'
  <2>1. Solo(r) /\ Serving(r) /\ Solo(q)
    BY <1>1, <1>4, <1>9 DEF StoresInv
  <2>2. CASE q = r
    <3>1. SeesWanted(r)'
      BY <1>1, <2>1, SeesWantedStep DEF Statement, Solo
    <3>2. \A s \in Requests \ {r} : ~Serving(s)'
      BY <1>3, <2>1 DEF Solo, Serving
    <3> QED
      BY <1>1, <1>3, <1>4, <2>1, <2>2, <3>1, <3>2 DEF Solo, Trying, TrySteps, Changes, Changed, Wanted
  <2>3. CASE q # r
    BY <1>3, <2>1, <2>3 DEF Solo, Serving
  <2> QED
    BY <2>2, <2>3
<1> QED
  BY <1>1, <1>3, <1>4, <1>5, <1>6, <1>7, <1>8, <1>9, StoresStep

\* While requests come one after the other, the others of a serving one are at rest.
LEMMA SoloOthers ==
    ASSUME StoresInv, NEW r \in Requests, Serving(r), ~overlapped, Bystanders(r),
           NEW s \in Requests \ {r}
    PROVE  ~Serving(s) /\ ~Serving(s)' /\ Solo(s)'
<1>1. ~Serving(s)
  BY DEF StoresInv, Solo
<1>2. ~Serving(s)'
  BY <1>1 DEF Bystanders, Serving
<1> QED
  BY <1>1, <1>2 DEF Solo

LEMMA StoresCall ==
    ASSUME StoresInv, CleanInv', NEW r \in Requests, CallGrafana(r)
    PROVE  StoresInv'
<1>1. /\ TablesInv /\ TypeOK /\ Unnamed /\ req[r].at = "call" /\ Serving(r) /\ Changes(r)
      /\ req[r] \in Request /\ req[r].kind \in {"create", "update", "delete"}
      /\ req[r].want \in Configs
      /\ config' = config /\ overlapped' = overlapped
      /\ grafana \in [Plots -> Configs \union {Gone}]
  BY DEF StoresInv, CleanInv, TablesInv, CallGrafana, Serving, Busy, TypeOK, Request, tables
<1>2. PICK p \in Plots :
        /\ IF req[r].kind = "create" THEN p = made + 1 ELSE p = req[r].plot
        /\ grafana' = [grafana EXCEPT ![p] = Wanted(r)]
        /\ \/ /\ req' = [req EXCEPT ![r].at = "row", ![r].plot = p]
              /\ UNCHANGED failures
           \/ /\ Fail(r, Gone)
              /\ failures' = failures + 1
  BY DEF CallGrafana
<1>3. /\ grafana'[p] = Wanted(r) /\ \A q \in Plots \ {p} : grafana'[q] = grafana[q]
  BY <1>1, <1>2
<1>4. \A s \in Requests \ {r} : req[s].kind = "create" /\ Trying(s) => req[s].plot # p
  <2>1. CASE req[r].kind = "create"
    BY <1>1, <1>2, <2>1 DEF TypeOK
  <2>2. CASE req[r].kind # "create"
    BY <1>1, <1>2, <2>2 DEF TablesInv, Apart
  <2> QED
    BY <2>1, <2>2
<1>5. ~Reached(r)
  BY <1>1 DEF Reached, TrySteps
<1>6. CASE Fail(r, Gone) /\ failures' = failures + 1
  <2>1. /\ req'[r].at = "failed" /\ Bystanders(r)
    BY <1>1, <1>6, Failed DEF Bystanders
  <2>2. \A s \in Requests : Backed(s)'
    BY <1>3, <1>4, <2>1, BystandersBacked DEF Backed, Trying, TrySteps
  <2>3. ~overlapped' => \A s \in Requests : Solo(s)'
    BY <1>1, <2>1, SoloOthers DEF Solo, Serving, Busy, TrySteps
  <2>4. failures' # failures
    BY <1>6 DEF TablesInv, TypeOK, StoresInv, CleanInv
  <2> QED
    BY <1>1, <1>3, <1>5, <1>6, <2>1, <2>2, <2>3, <2>4, StoresStep DEF TrySteps
<1>7. CASE req' = [req EXCEPT ![r].at = "row", ![r].plot = p] /\ failures' = failures
  <2> DEFINE e == [req[r] EXCEPT !.at = "row", !.plot = p]
  <2>1. /\ e.at = "row" /\ e.plot = p /\ e.kind = req[r].kind /\ e.want = req[r].want
        /\ e.old = req[r].old
    BY <1>1 DEF Request
  <2>2. req' = [req EXCEPT ![r] = e]
    BY <1>1, <1>7 DEF TypeOK, Request
  <2> HIDE DEF e
  <2>3. req'[r] = e /\ \A s \in Requests \ {r} : req'[s] = req[s]
    BY <1>1, <2>2, Replaced
  <2>4. Bystanders(r)
    BY <2>3 DEF Bystanders
  <2>5. Reached(r)' /\ Held(r, p)' /\ Wanted(r)' = Wanted(r)
    BY <1>1, <2>1, <2>3 DEF Reached, Held, Changes, Changed, Wanted, TrySteps
  <2>6. p \in Lost' => p \in Lost
    <3>1. CASE req[r].kind = "create"
      BY <1>1, <1>2, <3>1 DEF Lost, Saved, Unnamed, TypeOK, Plots
    <3>2. CASE req[r].kind = "update"
      <4>1. grafana'[p] # Gone
        BY <1>1, <1>3, <3>2, DashboardsAssumption DEF Wanted, DashboardsAssumption
      <4> QED
        BY <1>1, <2>1, <2>3, <3>2, <4>1 DEF Lost, Saved
    <3>3. CASE req[r].kind = "delete"
      BY <1>1, <2>1, <2>3, <2>5, <3>3 DEF Lost, Saved
    <3> QED
      BY <1>1, <3>1, <3>2, <3>3
  <2>7. ~overlapped' => p \notin Astray'
    BY <1>1, <2>1, <2>3, <2>4, <2>5, SoloOthers DEF Astray, Held, Reached, Serving, Busy
  <2>8. \A s \in Requests : Backed(s)'
    <3>1. Backed(r)'
      BY <1>3, <2>1, <2>3 DEF Backed, Wanted
    <3> QED
      BY <1>3, <1>4, <2>4, <3>1, BystandersBacked
  <2>9. ASSUME ~overlapped'
        PROVE  \A s \in Requests : Solo(s)'
    <3>1. Solo(r)
      BY <1>1, <2>9 DEF StoresInv
    <3>2. req[r].kind # "create" => config[p] = req[r].old
      BY <1>1, <1>2, <3>1 DEF Solo
    <3>3. SeesWanted(r)'
      BY <2>1, <2>3 DEF SeesWanted
    <3>4. \A s \in Requests \ {r} : ~Serving(s)' /\ Solo(s)'
      BY <1>1, <2>4, <2>9, SoloOthers
    <3>5. Solo(r)'
      BY <1>1, <1>3, <2>1, <2>3, <2>5, <3>2, <3>3, <3>4 DEF Solo
    <3> QED
      BY <3>4, <3>5
  <2> QED
    BY <1>1, <1>3, <1>5, <1>7, <2>1, <2>3, <2>4, <2>6, <2>7, <2>8, <2>9, StoresStep
<1> QED
  BY <1>2, <1>6, <1>7

LEMMA StoresCommit ==
    ASSUME StoresInv, CleanInv', NEW r \in Requests, Commit(r)
    PROVE  StoresInv'
<1>0. PICK p \in Plots : p = req[r].plot
  BY TypeFacts DEF StoresInv, CleanInv, TablesInv, Commit, Trying, TrySteps
<1>1. /\ TablesInv /\ TypeOK /\ req[r].at = "commit" /\ Publish(r) /\ Progress(r) /\ Trying(r)
      /\ Serving(r) /\ ConfigDrafts(r) /\ Backed(r) /\ Reached(r)
      /\ req[r] \in Request /\ req[r].kind \in {"create", "update", "delete"}
      /\ p \in Plots /\ req[r].want \in Configs
      /\ grafana' = grafana /\ overlapped' = overlapped /\ failures \in Nat
  <2>1. TablesInv /\ TypeOK /\ Progress(r) /\ ConfigDrafts(r) /\ Backed(r) /\ failures \in Nat
    BY DEF StoresInv, CleanInv, TablesInv, TypeOK
  <2>2. /\ req[r].at = "commit" /\ Publish(r) /\ Trying(r) /\ Reached(r)
        /\ grafana' = grafana /\ overlapped' = overlapped
    BY DEF Commit, Trying, TrySteps, Reached
  <2> QED
    BY <1>0, <2>1, <2>2, TypeFacts
<1>2. /\ req'[r].at \in {"idle", "undo"} /\ (req'[r].at = "undo" => req'[r].plot = p)
      /\ \A s \in Requests \ {r} : req'[s] = req[s]
      /\ failures' \in {failures, failures + 1} /\ (failures' = failures => req'[r].at = "idle")
  <2>1. CASE Done(r) /\ UNCHANGED failures
    BY <1>0, <1>1, <2>1, Replaced, FreshType DEF Done
  <2>2. CASE /\ req' = [req EXCEPT ![r].at = "undo", ![r].config = Untouched, ![r].order = Untouched,
                                   ![r].todo = <<>>, ![r].before = Gone]
             /\ failures' = failures + 1
    BY <1>0, <1>1, <2>2 DEF TypeOK, Request
  <2> QED
    BY <2>1, <2>2 DEF Commit
<1>3. Bystanders(r)
  BY <1>0, <1>2 DEF Bystanders
<1>4. /\ \A q \in Plots \ {p} : config'[q] = config[q]
      /\ config[p] = Gone /\ config'[p] # Gone => req[r].kind = "create"
      /\ config'[p] = SeesConfig(r)[p]
  BY <1>0, <1>1, Published DEF Publish
<1>5. SeesConfig(r)[p] = IF req[r].config[p] # Kept THEN req[r].config[p] ELSE config[p]
  BY <1>0, <1>1, Sees
<1>6. failures' = failures => (p \in Lost' => p \in Lost)
  <2> SUFFICES ASSUME failures' = failures, p \in Lost' PROVE p \in Lost
    OBVIOUS
  <2>1. config'[p] # Gone /\ req'[r].at = "idle"
    BY <1>0, <1>2 DEF Lost, Saved
  <2>2. req[r].kind # "delete"
    <3>1. req[r].kind = "delete" => req[r].config[p] = Gone \/ config[p] = Gone
      BY <1>0, <1>1 DEF Progress
    <3>2. req[r].kind = "delete" /\ req[r].config[p] # Kept => req[r].config[p] = Gone
      BY <1>0, <1>1 DEF ConfigDrafts
    <3> QED
      BY <1>0, <1>4, <1>5, <2>1, <3>1, <3>2, DashboardsAssumption DEF DashboardsAssumption
  <2>3. CASE req[r].kind = "create"
    <3>1. grafana[p] # Gone
      BY <1>0, <1>1, <2>3, DashboardsAssumption DEF Backed, DashboardsAssumption
    <3>2. \A s \in Requests \ {r} : req[s].plot # p
      BY <1>0, <1>1, <2>3 DEF TablesInv, Apart
    <3> QED
      BY <1>0, <1>1, <1>2, <2>1, <3>1, <3>2 DEF Lost
  <2>4. CASE req[r].kind = "update"
    <3>1. p \in Saved
      BY <1>0, <1>1, <1>4, <2>1, <2>4 DEF Saved
    <3> QED
      BY <1>0, <1>1, <1>2, <2>1, <2>4, <3>1 DEF Lost, Reached
  <2> QED
    BY <1>0, <1>1, <2>2, <2>3, <2>4
<1>7. failures' = failures /\ ~overlapped' => (p \in Astray' => p \in Astray)
  <2> SUFFICES ASSUME failures' = failures, ~overlapped', p \in Astray' PROVE p \in Astray
    OBVIOUS
  <2>1. Solo(r) /\ req'[r].at = "idle"
    BY <1>0, <1>1, <1>2 DEF StoresInv
  <2>2. /\ config'[p] = Wanted(r)
        /\ Changes(r) => grafana[p] = Wanted(r)
        /\ req[r].kind # "create" => config[p] = req[r].old
    BY <1>0, <1>1, <1>4, <2>1 DEF Solo, SeesWanted
  <2>3. \A s \in Requests : ~Held(s, p)'
    <3>1. \A s \in Requests \ {r} : ~Serving(s)'
      BY <1>0, <1>1, <1>3, SoloOthers
    <3>2. \A s \in Requests : Held(s, p)' => Serving(s)'
      BY DEF Held, Reached, Serving, Busy
    <3>3. ~Serving(r)'
      BY <2>1 DEF Serving, Busy, TrySteps
    <3> QED
      BY <3>1, <3>2, <3>3
  <2>4. grafana[p] # config'[p]
    BY <1>0, <1>1, <2>3 DEF Astray
  <2>5. ~Changes(r)
    BY <2>2, <2>4
  <2>6. config'[p] = config[p]
    BY <2>2, <2>5 DEF Changes, Changed, Wanted
  <2>7. \A s \in Requests : ~Held(s, p)
    <3>1. \A s \in Requests \ {r} : ~Serving(s)
      BY <1>0, <1>1, <1>3, SoloOthers
    <3> QED
      BY <2>5, <3>1 DEF Held, Reached, Serving, Busy
  <2> QED
    BY <1>0, <1>1, <2>4, <2>6, <2>7 DEF Astray
<1>8. \A s \in Requests : Backed(s)'
  BY <1>0, <1>1, <1>2 DEF StoresInv, Backed, Trying, TrySteps
<1>9. ASSUME ~overlapped', NEW s \in Requests
      PROVE  Solo(s)'
  <2>1. \A u \in Requests \ {r} : ~Serving(u)' /\ Solo(u)'
    BY <1>0, <1>1, <1>3, <1>9, SoloOthers
  <2>2. CASE s = r
    BY <1>0, <1>2, <2>1, <2>2 DEF Solo, Serving, Busy, Trying, TrySteps, SeesWanted
  <2> QED
    BY <2>1, <2>2
<1> QED
  BY <1>0, <1>1, <1>2, <1>3, <1>4, <1>6, <1>7, <1>8, <1>9, StoresStep DEF TrySteps

LEMMA StoresUndo ==
    ASSUME StoresInv, CleanInv', NEW r \in Requests, Undo(r)
    PROVE  StoresInv'
<1>1. PICK p \in Plots : p = req[r].plot
  <2>1. TypeOK /\ req[r].plot # 0
    BY DEF StoresInv, CleanInv, TablesInv, TypeOK, Undo
  <2> QED
    BY <2>1, TypeFacts
<1>2. /\ TablesInv /\ TypeOK /\ req[r].at = "undo" /\ Serving(r) /\ Reached(r) /\ req[r].plot = p
      /\ req[r].kind \in {"create", "update", "delete"}
      /\ grafana \in [Plots -> Configs \union {Gone}]
      /\ config' = config /\ overlapped' = overlapped /\ failures' = failures
      /\ req[r].kind # "create" => req[r].old # Gone
  <2>1. TablesInv /\ TypeOK /\ req[r].at = "undo" /\ Serving(r) /\ Progress(r) /\ Reached(r)
    BY DEF StoresInv, CleanInv, TablesInv, Undo, Serving, Busy, Reached
  <2> QED
    BY <1>1, <2>1, TypeFacts DEF Undo, tables, Progress, TypeOK
<1>3. /\ req'[r].at = "failed" /\ \A s \in Requests \ {r} : req'[s] = req[s]
  BY <1>2, Failed DEF Undo
<1>4. Bystanders(r)
  BY <1>3 DEF Bystanders
<1>5. /\ grafana'[p] = Compensation(r) /\ \A q \in Plots \ {p} : grafana'[q] = grafana[q]
  BY <1>2 DEF Undo
<1>6. p \in Lost' => p \in Lost
  <2> SUFFICES ASSUME p \in Lost' PROVE p \in Lost
    OBVIOUS
  <2>1. p \in Saved
    BY <1>2 DEF Lost, Saved
  <2>2. CASE req[r].kind = "create"
    BY <1>2, <2>1, <2>2 DEF Lost
  <2>3. CASE req[r].kind = "update"
    <3>1. Compensation(r) = IF Changed(r) THEN req[r].old ELSE grafana[p]
      BY <1>2, <2>3 DEF Compensation
    <3> QED
      BY <1>2, <1>3, <1>5, <2>1, <2>3, <3>1 DEF Lost, Reached
  <2>4. CASE req[r].kind = "delete"
    <3>1. Compensation(r) = req[r].old
      BY <1>2, <2>4 DEF Compensation
    <3> QED
      BY <1>2, <1>3, <1>5, <2>1, <2>4, <3>1 DEF Lost
  <2> QED
    BY <1>2, <2>2, <2>3, <2>4
<1>7. ~overlapped' => (p \in Astray' => p \in Astray)
  <2> SUFFICES ASSUME ~overlapped', p \in Astray' PROVE p \in Astray
    OBVIOUS
  <2>1. \A s \in Requests \ {r} : ~Serving(s) /\ ~Serving(s)'
    BY <1>2, <1>4, SoloOthers
  <2>2. \A s \in Requests : ~Held(s, p)'
    BY <1>3, <2>1 DEF Held, Reached, Serving, Busy, TrySteps
  <2>3. Compensation(r) # config[p]
    BY <1>2, <1>5, <2>2 DEF Astray
  <2>4. CASE Changes(r)
    BY <1>2, <2>3, <2>4 DEF Astray, Held
  <2>5. CASE ~Changes(r)
    <3>1. grafana[p] # config[p]
      BY <1>2, <2>3, <2>5 DEF Compensation, Changes
    <3>2. \A s \in Requests : ~Held(s, p)
      BY <2>1, <2>5 DEF Held, Reached, Serving, Busy
    <3> QED
      BY <3>1, <3>2 DEF Astray
  <2> QED
    BY <2>4, <2>5
<1>8. \A s \in Requests : Backed(s)'
  <2>1. \A s \in Requests \ {r} : req[s].kind = "create" /\ Trying(s) => req[s].plot # p
    BY <1>2 DEF TablesInv, Apart
  <2>2. \A s \in Requests \ {r} : Backed(s)'
    BY <1>4, <1>5, <2>1, BystandersBacked
  <2>3. Backed(r)'
    BY <1>3 DEF Backed, Trying, TrySteps
  <2> QED
    BY <2>2, <2>3
<1>9. ~overlapped' => \A s \in Requests : Solo(s)'
  <2>1. Solo(r)'
    BY <1>3 DEF Solo, Serving, Busy, TrySteps
  <2> QED
    BY <1>2, <1>4, <2>1, SoloOthers
<1> QED
  BY <1>2, <1>3, <1>4, <1>5, <1>6, <1>7, <1>8, <1>9, StoresStep DEF TrySteps

LEMMA StoresFails ==
    ASSUME StoresInv, CleanInv', NEW r \in Requests, Fails(r)
    PROVE  StoresInv'
<1>1. CASE Trying(r)
  BY <1>1, StoresStatement DEF Statement
<1>2. ASSUME req[r].at \in {"call", "undo"}, NEW before \in {Gone, req[r].before}, Fail(r, before)
      PROVE  StoresInv'
  <2>1. /\ TablesInv /\ TypeOK /\ Serving(r) /\ failures' = failures + 1 /\ failures \in Nat
        /\ config' = config /\ grafana' = grafana /\ overlapped' = overlapped
    BY DEF StoresInv, CleanInv, TablesInv, TypeOK, Fails, tables
  <2>2. req'[r].at = "failed" /\ \A s \in Requests \ {r} : req'[s] = req[s]
    BY <1>2, <2>1, Failed
  <2>3. Bystanders(r)
    BY <2>2 DEF Bystanders
  <2>4. \A s \in Requests : Backed(s)'
    BY <2>1, <2>2 DEF StoresInv, Backed, Trying, TrySteps
  <2>5. ~overlapped' => \A s \in Requests : Solo(s)'
    <3>1. Solo(r)'
      BY <2>2 DEF Solo, Serving, Busy, TrySteps
    <3> QED
      BY <2>1, <2>3, <3>1, SoloOthers
  <2>6. failures' # failures
    BY <2>1
  <2>7. PICK p : p = req[r].plot
    OBVIOUS
  <2> QED
    BY <2>1, <2>2, <2>3, <2>4, <2>5, <2>6, <2>7, StoresStep DEF TrySteps
<1> QED
  BY <1>1, <1>2 DEF Fails, Trying

LEMMA StoresBegin ==
    ASSUME StoresInv, CleanInv', NEW r \in Requests, ~Serving(r), NEW e, Begin(r, e),
           e.at \in {"call", "row"}, e.kind # "create" => config[e.plot] = e.old,
           e.at = "row" => e.kind = "update" /\ e.want = e.old
    PROVE  StoresInv'
<1>1. /\ UNCHANGED <<config, order, grafana, failures>> /\ req'[r] = e
      /\ \A s \in Requests \ {r} : req'[s] = [req[s] EXCEPT !.before = Gone]
      /\ overlapped' = (overlapped \/ ~Nobody)
  BY DEF Begin, tables
<1>2. TablesInv /\ TypeOK /\ failures \in Nat
  BY DEF StoresInv, CleanInv, TablesInv, TypeOK
<1>3. Bystanders(r)
  <2> SUFFICES ASSUME NEW s \in Requests \ {r}
               PROVE  /\ req'[s].at = req[s].at /\ req'[s].kind = req[s].kind /\ req'[s].plot = req[s].plot
                      /\ req'[s].want = req[s].want /\ req'[s].old = req[s].old
    BY DEF Bystanders
  <2>1. req[s] \in Request /\ req'[s] = [req[s] EXCEPT !.before = Gone]
    BY <1>1, <1>2 DEF TypeOK
  <2> QED
    BY <2>1 DEF Request
<1>4. PICK p : p = e.plot
  OBVIOUS
<1>5. ~Reached(r) /\ \A s \in Requests : ~overlapped' => ~Serving(s)
  BY <1>1 DEF Reached, Serving, Busy, Nobody
<1>6. \A s \in Requests \ {r} : ~overlapped' => ~Serving(s)'
  BY <1>3, <1>5 DEF Serving, Bystanders
<1>7. ~Changes(r)' \/ req'[r].at = "call"
  BY <1>1 DEF Changes, Changed
<1>8. p \in Lost' => p \in Lost
  <2> SUFFICES ASSUME p \in Lost' PROVE p \in Lost
    OBVIOUS
  <2>1. req'[r].at # "undo"
    BY <1>1
  <2> QED
    BY <1>1, <1>3, <1>5, <2>1 DEF Lost, Saved, Reached, Bystanders
<1>9. ASSUME ~overlapped', p \in Astray'
      PROVE  p \in Astray
  <2>1. \A s \in Requests : ~Held(s, p) /\ ~Held(s, p)'
    BY <1>5, <1>6, <1>7, <1>9 DEF Held, Reached, Serving, Busy, TrySteps
  <2> QED
    BY <1>1, <1>9, <2>1 DEF Astray
<1>10. \A s \in Requests : Backed(s)'
  <2>1. Backed(r)'
    BY <1>1 DEF Backed, Trying, TrySteps
  <2>2. \A s \in Requests \ {r} : Backed(s)'
    BY <1>1, <1>3 DEF StoresInv, Backed, Trying, Bystanders
  <2> QED
    BY <2>1, <2>2
<1>11. ASSUME ~overlapped'
       PROVE  \A s \in Requests : Solo(s)'
  <2>1. Solo(r)'
    BY <1>1, <1>6, <1>7, <1>11 DEF Solo, SeesWanted, Trying, TrySteps
  <2>2. \A s \in Requests \ {r} : Solo(s)'
    BY <1>6, <1>11 DEF Solo
  <2> QED
    BY <2>1, <2>2
<1> QED
  BY <1>1, <1>2, <1>3, <1>4, <1>5, <1>8, <1>9, <1>10, <1>11, StoresStep

LEMMA StoresAsk ==
    ASSUME StoresInv, CleanInv', NEW r \in Requests, Ask(r)
    PROVE  StoresInv'
<1>1. TypeOK
  BY DEF StoresInv, CleanInv, TablesInv
<1>2. ASSUME NEW want \in Configs, AskCreate(r, want)
      PROVE  StoresInv'
  BY <1>1, <1>2, CreateAsked, StoresBegin DEF AskCreate
<1>3. ASSUME NEW want \in Configs, NEW p \in Plots, NEW target \in Targets \union {Gone},
             AskUpdate(r, p, want, target)
      PROVE  StoresInv'
  <2> DEFINE e == Update(want, p, target)
  <2>1. p \in Saved /\ Begin(r, e) /\ ~Serving(r)
    BY <1>3 DEF AskUpdate, Update
  <2>2. /\ e.at = (IF want # config[p] THEN "call" ELSE "row") /\ e.plot = p
        /\ e.kind = "update" /\ e.old = config[p] /\ e.want = want
    BY <1>1, <1>3, <2>1, UpdateAsked
  <2> HIDE DEF e
  <2> QED
    BY <2>1, <2>2, StoresBegin
<1>4. ASSUME NEW p \in Plots, AskDelete(r, p)
      PROVE  StoresInv'
  <2> DEFINE e == [Fresh EXCEPT !.at = "call", !.kind = "delete", !.plot = p,
                                !.old = config[p], !.before = Snapshot]
  <2>1. p \in Saved /\ Begin(r, e) /\ ~Serving(r)
    BY <1>4 DEF AskDelete
  <2>2. e.at = "call" /\ e.plot = p /\ e.kind = "delete" /\ e.old = config[p]
    BY <1>1, <2>1, DeleteAsked
  <2> HIDE DEF e
  <2> QED
    BY <2>1, <2>2, StoresBegin
<1> QED
  BY <1>2, <1>3, <1>4 DEF Ask

\* Sets that grow by the plots of requests that end at most.
LEMMA GrowsWithEnded ==
    ASSUME NEW S, NEW T, NEW R, NEW f, NEW n \in Nat, NEW m \in Nat,
           IsFiniteSet(S), IsFiniteSet(R), Cardinality(S) <= n, m = n + Cardinality(R),
           DOMAIN f = R, f = [x \in R |-> f[x]], T \subseteq S \union {f[x] : x \in R}
    PROVE  Cardinality(T) <= m
<1> DEFINE I == {f[x] : x \in R}
<1>1. IsFiniteSet(I) /\ Cardinality(I) <= Cardinality(R)
  <2>1. f \in Surjection(R, I)
    BY DEF Surjection
  <2> QED
    BY <2>1, FS_Surjection
<1> HIDE DEF I
<1>2. /\ IsFiniteSet(S \union I)
      /\ Cardinality(S \union I) = Cardinality(S) + Cardinality(I) - Cardinality(S \intersect I)
  BY <1>1, FS_Union
<1>3. IsFiniteSet(S \intersect I)
  BY <1>1, FS_Intersection
<1>4. IsFiniteSet(T) /\ Cardinality(T) <= Cardinality(S \union I)
  <2>1. T \subseteq S \union I
    BY DEF I
  <2> QED
    BY <1>2, <2>1, FS_Subset
<1>5. /\ Cardinality(S) \in Nat /\ Cardinality(I) \in Nat /\ Cardinality(R) \in Nat
      /\ Cardinality(S \intersect I) \in Nat /\ Cardinality(T) \in Nat
      /\ Cardinality(S \union I) \in Nat
  BY <1>1, <1>2, <1>3, <1>4, FS_CardinalityType
<1> QED
  BY <1>1, <1>2, <1>4, <1>5

LEMMA StoresCrash ==
    ASSUME StoresInv, CleanInv', Crash
    PROVE  StoresInv'
<1> DEFINE ended == {r \in Requests : Serving(r)}
           f == [r \in ended |-> req[r].plot]
<1>1. /\ UNCHANGED <<config, order, grafana, overlapped>> /\ TypeOK
      /\ \A r \in Requests : (req'[r] = Fresh /\ Serving(r)) \/ (req'[r] = req[r] /\ ~Serving(r))
      /\ failures' = failures + Cardinality(ended)
  BY DEF Crash, StoresInv, CleanInv, TablesInv, tables
<1>2. IsFiniteSet(ended)
  BY DashboardsAssumption, FS_Subset DEF DashboardsAssumption
<1>3. failures \in Nat /\ failures' \in Nat
  BY DEF StoresInv, CleanInv, TablesInv, TypeOK
<1>4. \A r \in Requests : ~Serving(r)'
  BY <1>1, FreshType DEF Serving, Busy, TrySteps
<1>5. \A r \in Requests : ~Reached(r)' /\ (Reached(r) => r \in ended)
  BY <1>4 DEF Reached, Serving, Busy
<1>6. \A q \in Plots : q \notin {f[r] : r \in ended} => \A r \in Requests : ~(Reached(r) /\ req[r].plot = q)
  BY <1>5
<1>7. Lost' \subseteq Lost \union {f[r] : r \in ended}
  <2> SUFFICES ASSUME NEW q \in Lost', \A r \in Requests : ~(Reached(r) /\ req[r].plot = q)
               PROVE  q \in Lost
    BY <1>6 DEF Lost, Saved
  <2>1. q \in Plots /\ config[q] # Gone
    BY <1>1 DEF Lost, Saved
  <2>2. grafana[q] = Gone
    BY <1>1, <1>5 DEF Lost, Reached
  <2> QED
    BY <2>1, <2>2 DEF Lost, Saved
<1>8. Astray' \subseteq Astray \union {f[r] : r \in ended}
  <2> SUFFICES ASSUME NEW q \in Astray', \A r \in Requests : ~(Reached(r) /\ req[r].plot = q)
               PROVE  q \in Astray
    BY <1>6 DEF Astray
  <2>1. q \in Plots /\ grafana[q] # config[q]
    BY <1>1, <1>5 DEF Astray, Held
  <2> QED
    BY <2>1 DEF Astray, Held
<1>9. DOMAIN f = ended /\ f = [r \in ended |-> f[r]]
  OBVIOUS
<1>10. IsFiniteSet(Lost) /\ IsFiniteSet(Astray) /\ Cardinality(Lost) <= failures
       /\ (~overlapped => Cardinality(Astray) <= failures)
  BY <1>1, LostAstrayFinite DEF StoresInv
<1> HIDE DEF f, ended
<1>11. Cardinality(Lost') <= failures'
  BY <1>1, <1>2, <1>3, <1>7, <1>9, <1>10, GrowsWithEnded
<1>12. ~overlapped' => Cardinality(Astray') <= failures'
  BY <1>1, <1>2, <1>3, <1>8, <1>9, <1>10, GrowsWithEnded
<1>13. \A r \in Requests : Backed(r)' /\ Solo(r)'
  BY <1>4 DEF Backed, Solo, Trying, Serving, Busy
<1> QED
  BY <1>11, <1>12, <1>13 DEF StoresInv

LEMMA StoresHold == Spec => []StoresInv
<1>1. Init /\ CleanInv => StoresInv
  <2> SUFFICES ASSUME Init, CleanInv PROVE StoresInv
    OBVIOUS
  <2>1. \A r \in Requests : req[r] = Fresh
    BY DEF Init
  <2>2. Lost = {} /\ Astray = {} /\ failures = 0
    BY <2>1, FreshType DEF Init, Lost, Saved, Astray, Held, Reached, TrySteps
  <2>3. Cardinality({}) = 0
    BY FS_EmptySet
  <2>4. \A r \in Requests : Backed(r) /\ Solo(r)
    BY <2>1, FreshType DEF Backed, Solo, Trying, Serving, Busy, TrySteps
  <2> QED
    BY <2>2, <2>3, <2>4 DEF StoresInv
<1>2. StoresInv /\ CleanInv' /\ [Next]_vars => StoresInv'
  <2> SUFFICES ASSUME StoresInv, CleanInv', [Next]_vars
               PROVE  StoresInv'
    OBVIOUS
  <2>1. CASE UNCHANGED vars
    <3>1. Lost' = Lost /\ Astray' = Astray
      BY <2>1 DEF vars, tables, Lost, Astray, Saved, Reached, Held, Changes, Changed, Compensation
    <3>2. /\ (\A r \in Requests : Backed(r)) => \A r \in Requests : Backed(r)'
          /\ (\A r \in Requests : Solo(r)) => \A r \in Requests : Solo(r)'
      BY <2>1 DEF vars, tables, Backed, Solo, Serving, Trying, Changes, Changed, Wanted, SeesWanted,
                  SeesConfig, Overlay
    <3> QED
      BY <2>1, <3>1, <3>2 DEF vars, StoresInv
  <2>2. ASSUME NEW r \in Requests, Handle(r) \/ AbortDeadlocked(r)
        PROVE  StoresInv'
    <3>1. CallGrafana(r) \/ Commit(r) \/ Undo(r) \/ Statement(r)
      BY <2>2 DEF Handle, Statement
    <3> QED
      BY <3>1, StoresCall, StoresCommit, StoresUndo, StoresStatement
  <2> QED
    BY <2>1, <2>2, StoresAsk, StoresFails, StoresCrash DEF Next
<1> QED
  BY <1>1, <1>2, CleanHolds, PTL DEF Spec

\* When no request is served, a saved plot without a Grafana dashboard is paid for by a failure,
\* however the requests overlapped; and while they came one after the other, so is every plot
\* that Grafana and the dashboard table disagree about.
THEOREM StoresStayTogether == Spec => []StoresAgree
<1>1. StoresInv => StoresAgree
  <2> SUFFICES ASSUME StoresInv, Nobody PROVE
        /\ Cardinality({p \in Saved : grafana[p] = Gone}) <= failures
        /\ ~overlapped => Cardinality({p \in Plots : grafana[p] # config[p]}) <= failures
    BY DEF StoresAgree
  <2>1. \A r \in Requests : ~Reached(r)
    BY DEF Nobody, Serving, Busy, Reached
  <2>2. {p \in Saved : grafana[p] = Gone} = Lost
    BY <2>1 DEF Lost, Reached
  <2>3. {p \in Plots : grafana[p] # config[p]} = Astray
    BY <2>1 DEF Astray, Held
  <2> QED
    BY <2>2, <2>3 DEF StoresInv
<1> QED
  BY <1>1, StoresHold, PTL

-----------------------------------------------------------------------------
(* The order of the saved plots.                                           *)

\* The head of a plan has been carried out: what is left makes the same order.
LEMMA OneDone ==
    ASSUME NEW V, NEW todo \in Seq([plot : V, to : Nat]), todo # <<>>,
           Once(todo), NEW s, NEW u, u[Head(todo).plot] = Head(todo).to,
           \A p \in V : p = Head(todo).plot \/ u[p] = s[p]
    PROVE  /\ Tail(todo) \in Seq([plot : V, to : Nat])
           /\ Once(Tail(todo))
           /\ \A x : x \in Plan(V, u, Tail(todo)) <=> x \in Plan(V, s, todo)
<1> DEFINE n == Len(todo)
           rest == Tail(todo)
           A == {rest[j].to : j \in DOMAIN rest}
                  \union {u[p] : p \in V \ {rest[j].plot : j \in DOMAIN rest}}
           B == {todo[j].to : j \in DOMAIN todo}
                  \union {s[p] : p \in V \ {todo[j].plot : j \in DOMAIN todo}}
<1>1. /\ n \in Nat /\ n >= 1 /\ DOMAIN todo = 1..n /\ Head(todo) = todo[1]
      /\ \A i \in 1..n : todo[i] \in [plot : V, to : Nat]
  <2>1. /\ n \in Nat /\ DOMAIN todo = 1..n
        /\ \A i \in 1..n : todo[i] \in [plot : V, to : Nat]
    BY LenProperties
  <2>2. n # 0 /\ Head(todo) = todo[1]
    BY HeadTailProperties, EmptySeq
  <2> QED
    BY <2>1, <2>2
<1>2. /\ rest \in Seq([plot : V, to : Nat]) /\ Len(rest) = n - 1
      /\ \A i \in 1..(n-1) : rest[i] = todo[i+1]
  BY HeadTailProperties
<1>3. DOMAIN rest = 1..(n-1)
  BY <1>1, <1>2, LenProperties
<1> HIDE DEF rest, n
<1>4. \A i, j \in 1..n : i # j => todo[i].plot # todo[j].plot
  BY <1>1 DEF Once
<1>5. \A i \in 1..(n-1) : i + 1 \in 1..n /\ i + 1 # 1
  BY <1>1
<1>6. \A i \in 1..n : i # 1 => i - 1 \in 1..(n-1) /\ rest[i - 1] = todo[i]
  <2> SUFFICES ASSUME NEW i \in 1..n, i # 1
               PROVE  i - 1 \in 1..(n-1) /\ rest[i - 1] = todo[i]
    OBVIOUS
  <2>1. i - 1 \in 1..(n-1) /\ (i - 1) + 1 = i
    BY <1>1
  <2> QED
    BY <1>2, <2>1
<1>7. \A i, j \in 1..(n-1) : i # j => rest[i].plot # rest[j].plot
  <2> SUFFICES ASSUME NEW i \in 1..(n-1), NEW j \in 1..(n-1), i # j
               PROVE  rest[i].plot # rest[j].plot
    OBVIOUS
  <2>1. i + 1 # j + 1 /\ i + 1 \in 1..n /\ j + 1 \in 1..n
    BY <1>1, <1>5
  <2>2. rest[i] = todo[i+1] /\ rest[j] = todo[j+1]
    BY <1>2
  <2> QED
    BY <1>4, <2>1, <2>2
<1>8. /\ 1 \in 1..n /\ todo[1].plot \in V /\ u[todo[1].plot] = todo[1].to
      /\ \A p \in V : p # todo[1].plot => u[p] = s[p]
  BY <1>1
<1>9. \A i \in 1..(n-1) : rest[i].plot # todo[1].plot
  BY <1>2, <1>4, <1>5, <1>8
<1>10. \A x \in A : x \in B
  <2>1. ASSUME NEW i \in 1..(n-1)
        PROVE  rest[i].to \in B
    BY <1>1, <1>2, <1>5
  <2>2. ASSUME NEW p \in V, \A i \in 1..(n-1) : rest[i].plot # p
        PROVE  u[p] \in B
    <3>1. CASE p = todo[1].plot
      BY <1>1, <1>8, <3>1
    <3>2. CASE p # todo[1].plot
      <4>1. \A i \in 1..n : todo[i].plot # p
        BY <1>6, <2>2, <3>2
      <4> QED
        BY <1>1, <1>8, <3>2, <4>1
    <3> QED
      BY <3>1, <3>2
  <2> QED
    BY <1>3, <2>1, <2>2
<1>11. \A x \in B : x \in A
  <2>1. ASSUME NEW i \in 1..n
        PROVE  todo[i].to \in A
    <3>1. CASE i = 1
      BY <1>3, <1>8, <1>9, <3>1
    <3>2. CASE i # 1
      BY <1>3, <1>6, <3>2
    <3> QED
      BY <3>1, <3>2
  <2>2. ASSUME NEW p \in V, \A i \in 1..n : todo[i].plot # p
        PROVE  s[p] \in A
    <3>1. \A i \in 1..(n-1) : rest[i].plot # p
      BY <1>2, <1>5, <2>2
    <3> QED
      BY <1>3, <1>8, <2>2, <3>1
  <2>3. ASSUME NEW x \in B
        PROVE  x \in A
    <3>1. CASE \E i \in 1..n : x = todo[i].to
      BY <2>1, <3>1
    <3>2. CASE \E p \in V : x = s[p] /\ \A i \in 1..n : todo[i].plot # p
      BY <2>2, <3>2
    <3> QED
      BY <1>1, <3>1, <3>2
  <2> HIDE DEF A, B
  <2> QED
    BY <2>3
<1>12. A = B
  <2> HIDE DEF A, B
  <2> QED
    BY <1>10, <1>11
<1> QED
  BY <1>2, <1>3, <1>7, <1>12 DEF rest, Plan, Once

\* What the transaction of a request that is alone will leave.
Orderly(r) ==
    Serving(r) =>
        /\ req[r].kind = "create" /\ req[r].at \in {"call", "row", "commit"} =>
             req[r].count = Cardinality(Saved) /\ Cardinality(Saved) < Limit
        /\ req[r].kind = "update" /\ req[r].at \in {"row", "write", "list"} =>
             req[r].order = Untouched
        /\ req[r].kind # "create" /\ req[r].at \in {"item", "move"} => Reorders(r, req[r].todo)
        /\ req[r].kind # "create" /\ req[r].at = "commit" =>
             {SeesOrder(r)[p] : p \in Visible(r)} = Consecutive(Cardinality(Visible(r)))

OrderInv ==
    ~overlapped =>
        /\ Cardinality(Saved) <= Limit
        /\ {order[p] : p \in Saved} = Consecutive(Cardinality(Saved))
        /\ \A r \in Requests : Orderly(r)

\* A step that leaves the tables.
LEMMA OrderStays ==
    ASSUME OrderInv, StoresInv, NEW r \in Requests, Serving(r), Bystanders(r),
           config' = config, order' = order, overlapped' = overlapped,
           ~overlapped /\ Orderly(r) => Orderly(r)'
    PROVE  OrderInv'
<1> SUFFICES ASSUME ~overlapped
             PROVE  /\ Cardinality(Saved)' <= Limit
                    /\ {order'[p] : p \in Saved'} = Consecutive(Cardinality(Saved)')
                    /\ \A s \in Requests : Orderly(s)'
  BY DEF OrderInv
<1>1. Saved' = Saved
  BY DEF Saved
<1>2. \A s \in Requests \ {r} : Orderly(s)'
  BY SoloOthers DEF Orderly
<1>3. Orderly(r)'
  BY DEF OrderInv
<1> QED
  BY <1>1, <1>2, <1>3 DEF OrderInv

\* A request that is no longer served, or is to compensate, has no order to keep.
LEMMA OrderlyEnd ==
    ASSUME NEW r \in Requests, req'[r].at \in {"idle", "failed", "undo"}
    PROVE  Orderly(r)'
  BY DEF Orderly

\* What r sees, as long as it writes nothing.
LEMMA SameView ==
    ASSUME NEW r \in Requests, config' = config, order' = order,
           req'[r].config = req[r].config, req'[r].order = req[r].order
    PROVE  /\ SeesOrder(r)' = SeesOrder(r) /\ Visible(r)' = Visible(r)
           /\ \A todo : Reorders(r, todo) => Reorders(r, todo)'
<1>1. SeesOrder(r)' = SeesOrder(r) /\ Visible(r)' = Visible(r)
  BY DEF SeesOrder, Visible, SeesConfig, Overlay
<1>2. ASSUME NEW todo
      PROVE  Planned(r, todo)' = Planned(r, todo)
  BY <1>1 DEF Planned
<1> QED
  BY <1>1, <1>2 DEF Reorders

\* A transaction that has not touched the order, nor made or deleted a plot, sees it as it is.
LEMMA OrderUntouched ==
    ASSUME TypeOK, NEW r \in Requests, order' = order, req'[r].order = Untouched,
           \A p \in Plots : SeesConfig(r)'[p] # Gone <=> config[p] # Gone
    PROVE  /\ Visible(r)' = Saved
           /\ {SeesOrder(r)'[p] : p \in Visible(r)'} = {order[p] : p \in Saved}
<1>1. Visible(r)' = Saved
  BY DEF Visible, Saved
<1>2. \A p \in Plots : SeesOrder(r)'[p] = order[p]
  BY DEF SeesOrder, Overlay, Untouched
<1> QED
  BY <1>1, <1>2 DEF Saved

\* Statements keep the order that their transaction is to leave.
LEMMA OrderlyStatement ==
    ASSUME TablesInv, TablesInv', NEW r \in Requests, Orderly(r), Statement(r),
           {order[p] : p \in Saved} = Consecutive(Cardinality(Saved))
    PROVE  Orderly(r)'
<1>1. /\ TypeOK /\ Advances(r) /\ Trying(r) /\ Serving(r) /\ Progress(r)
      /\ config' = config /\ order' = order /\ Saved' = Saved
      /\ req[r].kind \in {"create", "update", "delete"} /\ req[r].plot \in Plots
      /\ req[r].want \in Configs
  <2>1. Advances(r) /\ TypeOK /\ Progress(r)
    BY Advancing DEF Statement, TablesInv
  <2> QED
    BY <2>1, TypeFacts DEF Advances, Saved
<1>2. PICK at \in TrySteps \union {"undo"} : \E todo, cfg, ord : Turns(r, at, todo, cfg, ord)
  BY <1>1 DEF Advances
<1>3. /\ req'[r].at = at /\ req'[r].kind = req[r].kind /\ req'[r].plot = req[r].plot
      /\ req'[r].count = req[r].count
  BY <1>2 DEF Turns
<1>4. CASE Raise(r)
  <2>1. Turns(r, "undo", <<>>, Untouched, Untouched)
    BY <1>1, <1>4, RaiseTurns
  <2> QED
    BY <2>1, OrderlyEnd DEF Turns
<1>5. CASE req[r].kind = "create"
  <2>1. req'[r].at \notin {"row", "commit"} \/ req[r].at \in {"row", "commit"}
    BY <1>1, <1>5 DEF Progress
  <2> QED
    BY <1>1, <1>2, <1>3, <1>5, <2>1 DEF Orderly, TrySteps
\* An update comes to its list or its commit with the order untouched.
<1>6. ASSUME req[r].kind = "update", req'[r].order = Untouched,
             \A p \in Plots : SeesConfig(r)'[p] # Gone <=> config[p] # Gone,
             req'[r].at \in {"write", "list", "commit"}
      PROVE  Orderly(r)'
  <2>1. {SeesOrder(r)'[p] : p \in Visible(r)'} = Consecutive(Cardinality(Visible(r)'))
    BY <1>1, <1>6, OrderUntouched
  <2> QED
    BY <1>3, <1>6, <2>1 DEF Orderly
<1>7. CASE Row(r) /\ req[r].kind # "create" /\ ~Raise(r)
  <2>1. /\ req[r].at = "row" /\ req[r].config = Untouched /\ req[r].order = Untouched
    BY <1>1, <1>7 DEF Row, Progress
  <2>2. PICK to \in {"write", "list", "commit"} :
           Goto(r, to) /\ (req[r].kind = "delete" => to = "write")
    BY <1>1, <1>7 DEF Row
  <2>3. Turns(r, to, req[r].todo, req[r].config, req[r].order)
    BY <1>1, <2>2, GotoTurns DEF Busy, TrySteps
  <2>4. req'[r].config = Untouched /\ req'[r].order = Untouched /\ req'[r].at = to
    BY <2>1, <2>3 DEF Turns
  <2>5. \A p \in Plots : SeesConfig(r)'[p] # Gone <=> config[p] # Gone
    BY <1>1, <2>4 DEF SeesConfig, Overlay, Untouched
  <2>6. CASE req[r].kind = "update"
    BY <1>6, <2>4, <2>5, <2>6
  <2>7. CASE req[r].kind = "delete"
    BY <1>3, <2>2, <2>4, <2>7 DEF Orderly
  <2> QED
    BY <1>1, <1>7, <2>6, <2>7
<1>8. CASE Write(r) /\ ~Raise(r)
  <2>1. /\ req[r].at = "write" /\ req[r].config = Untouched /\ req[r].order = Untouched
        /\ req[r].kind # "create"
    BY <1>1, <1>8 DEF Write, Progress
  <2>2. CASE req[r].kind = "update"
    <3>1. PICK to \in {"list", "commit"} :
             req' = [req EXCEPT ![r].config[req[r].plot] = req[r].want, ![r].at = to]
      BY <1>8, <2>2 DEF Write
    <3>2. Turns(r, to, req[r].todo, [Untouched EXCEPT ![req[r].plot] = req[r].want], Untouched)
      BY <1>1, <2>1, <3>1, WriteTurns DEF TrySteps
    <3>3. /\ req'[r].config = [Untouched EXCEPT ![req[r].plot] = req[r].want]
          /\ req'[r].order = Untouched /\ req'[r].at = to
      BY <3>2 DEF Turns
    <3>4. config[req[r].plot] # Gone /\ req[r].want # Gone
      BY <1>1, <1>8, <2>2, DashboardsAssumption DEF Write, DashboardsAssumption
    <3>5. \A p \in Plots : SeesConfig(r)'[p] # Gone <=> config[p] # Gone
      BY <1>1, <3>3, <3>4 DEF SeesConfig, Overlay, Untouched
    <3> QED
      BY <1>6, <2>2, <3>3, <3>5
  <2>3. CASE req[r].kind = "delete"
    <3>1. req'[r].at \in {"cascade", "list"}
      <4>1. CASE Goto(r, "list")
        BY <1>1, <4>1 DEF Goto, TypeOK, Request
      <4>2. CASE req' = [req EXCEPT ![r].config[req[r].plot] = Gone, ![r].at = "cascade"]
        BY <1>1, <4>2, WriteTurns DEF TrySteps, Turns
      <4> QED
        BY <1>8, <2>3, <4>1, <4>2 DEF Write
    <3> QED
      BY <1>3, <2>3, <3>1 DEF Orderly
  <2> QED
    BY <1>1, <2>1, <2>2, <2>3
<1>9. CASE Cascade(r)
  <2>1. req'[r].at = "list" /\ req'[r].kind = "delete"
    BY <1>1, <1>3, <1>9, CascadeTurns DEF Turns, Cascade, Progress
  <2> QED
    BY <2>1 DEF Orderly
<1>10. CASE List(r) /\ ~Raise(r)
  <2>1. PICK todo : Reorders(r, todo) /\ Turns(r, "item", todo, req[r].config, req[r].order)
    BY <1>10, ListSteps
  <2>2. /\ req'[r].config = req[r].config /\ req'[r].order = req[r].order
        /\ req'[r].at = "item" /\ req'[r].todo = todo
    BY <2>1 DEF Turns
  <2>3. Reorders(r, req[r].todo)'
    BY <1>1, <2>1, <2>2, SameView
  <2> QED
    BY <2>2, <2>3 DEF Orderly
<1>11. CASE Item(r) /\ ~Raise(r)
  <2>1. req[r].at = "item" /\ req[r].kind # "create" /\ Reorders(r, req[r].todo)
    BY <1>1, <1>11 DEF Item, Progress, Orderly
  <2>2. ASSUME NEW to \in {"move", "commit"}, Goto(r, to), to = "commit" => req[r].todo = <<>>
        PROVE  Orderly(r)'
    <3>1. Turns(r, to, req[r].todo, req[r].config, req[r].order)
      BY <1>1, <2>2, GotoTurns DEF Busy, TrySteps
    <3>2. /\ req'[r].config = req[r].config /\ req'[r].order = req[r].order
          /\ req'[r].at = to /\ req'[r].todo = req[r].todo
      BY <3>1 DEF Turns
    <3>3. Reorders(r, req[r].todo)' /\ Visible(r)' = Visible(r) /\ SeesOrder(r)' = SeesOrder(r)
      BY <1>1, <2>1, <3>2, SameView
    <3>4. CASE to = "move"
      BY <3>2, <3>3, <3>4 DEF Orderly
    <3>5. CASE to = "commit"
      <4>1. DOMAIN req[r].todo = {}
        BY <2>2, <3>5
      <4>2. {SeesOrder(r)[p] : p \in Visible(r)} = Planned(r, req[r].todo)
        BY <4>1 DEF Planned, Plan
      <4>3. {SeesOrder(r)'[p] : p \in Visible(r)'} = Consecutive(Cardinality(Visible(r)'))
        BY <2>1, <3>3, <4>2 DEF Reorders
      <4> QED
        BY <1>3, <2>1, <3>2, <3>5, <4>3 DEF Orderly
    <3> QED
      BY <3>4, <3>5
  <2>3. ASSUME req[r].todo # <<>>, req' = [req EXCEPT ![r].todo = Tail(@)],
               Head(req[r].todo).plot \in Visible(r)
                  => SeesOrder(r)[Head(req[r].todo).plot] = Head(req[r].todo).to
        PROVE  Orderly(r)'
    <3>1. /\ req[r].todo \in Seq([plot : Visible(r), to : Nat])
          /\ Once(req[r].todo)
      BY <2>1 DEF Reorders
    <3>2. Head(req[r].todo) \in [plot : Visible(r), to : Nat]
      BY <2>3, <3>1, HeadTailProperties
    <3>3. SeesOrder(r)[Head(req[r].todo).plot] = Head(req[r].todo).to
      BY <2>3, <3>2
    <3>4. Reorders(r, Tail(req[r].todo))
      <4>1. /\ Tail(req[r].todo) \in Seq([plot : Visible(r), to : Nat]) /\ Once(Tail(req[r].todo))
            /\ \A x : x \in Plan(Visible(r), SeesOrder(r), Tail(req[r].todo))
                      <=> x \in Plan(Visible(r), SeesOrder(r), req[r].todo)
        BY <2>3, <3>1, <3>3, OneDone
      <4>2. Plan(Visible(r), SeesOrder(r), Tail(req[r].todo)) = Plan(Visible(r), SeesOrder(r), req[r].todo)
        BY <4>1
      <4> QED
        BY <2>1, <4>1, <4>2 DEF Reorders, Planned
    <3>5. /\ req'[r].config = req[r].config /\ req'[r].order = req[r].order
          /\ req'[r].at = "item" /\ req'[r].todo = Tail(req[r].todo)
      BY <1>1, <2>1, <2>3 DEF TypeOK, Request
    <3>6. Reorders(r, req[r].todo)'
      BY <1>1, <3>4, <3>5, SameView
    <3> QED
      BY <3>5, <3>6 DEF Orderly
  <2>4. \/ Goto(r, "move")
        \/ req[r].todo = <<>> /\ Goto(r, "commit")
        \/ /\ req[r].todo # <<>> /\ req' = [req EXCEPT ![r].todo = Tail(@)]
           /\ Head(req[r].todo).plot \in Visible(r)
                => SeesOrder(r)[Head(req[r].todo).plot] = Head(req[r].todo).to
    BY <1>11 DEF Item
  <2> QED
    BY <2>2, <2>3, <2>4
<1>12. CASE Move(r) /\ ~Raise(r)
  <2> DEFINE item == Head(req[r].todo)
  <2>1. /\ req[r].at = "move" /\ req[r].kind # "create" /\ Reorders(r, req[r].todo)
        /\ req[r].todo # <<>>
    BY <1>1, <1>12 DEF Move, Progress, Orderly, TypeOK
  <2>2. /\ req[r].todo \in Seq([plot : Visible(r), to : Nat])
        /\ Once(req[r].todo)
    BY <2>1 DEF Reorders
  <2>3. /\ item \in [plot : Plots, to : Nat]
        /\ Turns(r, "item", Tail(req[r].todo), req[r].config,
                 [req[r].order EXCEPT ![item.plot] = item.to])
    BY <1>12, MoveTurns
  <2>4. /\ req'[r].config = req[r].config
        /\ req'[r].order = [req[r].order EXCEPT ![item.plot] = item.to]
        /\ req'[r].at = "item" /\ req'[r].todo = Tail(req[r].todo)
        /\ item.plot \in Plots /\ item.to \in Nat
    BY <2>3 DEF Turns
  <2> HIDE DEF item
  <2>5. Visible(r)' = Visible(r)
    BY <1>1, <2>4 DEF Visible, SeesConfig, Overlay
  <2>6. req[r].order \in [Plots -> Nat \union {Gone, Kept}] /\ item.to # Kept
    BY <1>1, <2>4, TypeFacts, DashboardsAssumption DEF DashboardsAssumption
  <2>7. /\ SeesOrder(r)'[item.plot] = item.to
        /\ \A p \in Plots : p # item.plot => SeesOrder(r)'[p] = SeesOrder(r)[p]
    BY <1>1, <2>4, <2>6 DEF SeesOrder, Overlay
  <2>8. \A p \in Visible(r) : p \in Plots
    BY DEF Visible
  <2>9. Reorders(r, req[r].todo)'
    <3>1. /\ SeesOrder(r)'[Head(req[r].todo).plot] = Head(req[r].todo).to
          /\ \A p \in Visible(r) : p # Head(req[r].todo).plot => SeesOrder(r)'[p] = SeesOrder(r)[p]
      BY <2>7, <2>8 DEF item
    <3>2. /\ Tail(req[r].todo) \in Seq([plot : Visible(r), to : Nat]) /\ Once(Tail(req[r].todo))
          /\ Plan(Visible(r), SeesOrder(r)', Tail(req[r].todo))
               = Plan(Visible(r), SeesOrder(r), req[r].todo)
      <4>1. PICK u : u = SeesOrder(r)'
        OBVIOUS
      <4>2. PICK V : V = Visible(r)
        OBVIOUS
      <4>3. PICK s : s = SeesOrder(r)
        OBVIOUS
      <4>4. PICK todo \in Seq([plot : V, to : Nat]) : todo = req[r].todo /\ Once(todo) /\ todo # <<>>
        BY <2>1, <2>2, <4>2
      <4>5. /\ u[Head(todo).plot] = Head(todo).to
            /\ \A p \in V : p = Head(todo).plot \/ u[p] = s[p]
        BY <3>1, <4>1, <4>2, <4>3, <4>4
      <4>6. /\ Tail(todo) \in Seq([plot : V, to : Nat]) /\ Once(Tail(todo))
            /\ \A x : x \in Plan(V, u, Tail(todo)) <=> x \in Plan(V, s, todo)
        BY <4>4, <4>5, OneDone
      <4>7. Plan(V, u, Tail(todo)) = Plan(V, s, todo)
        BY <4>6
      <4> QED
        BY <4>1, <4>2, <4>3, <4>4, <4>6, <4>7
    <3>3. Plan(Visible(r), SeesOrder(r), req[r].todo) = Consecutive(Cardinality(Visible(r)))
      BY <2>1 DEF Reorders, Planned
    <3> QED
      BY <2>4, <2>5, <3>2, <3>3 DEF Reorders, Planned
  <2> QED
    BY <2>4, <2>9 DEF Orderly
<1>13. CASE AbortDeadlocked(r) \/ (Fails(r) /\ Trying(r))
  BY <1>4, <1>13 DEF AbortDeadlocked, Fails, Trying, TrySteps
<1>14. \/ Row(r) \/ Write(r) \/ Cascade(r) \/ List(r) \/ Item(r) \/ Move(r)
       \/ AbortDeadlocked(r) \/ (Fails(r) /\ Trying(r))
  BY DEF Statement
<1> QED
  BY <1>4, <1>5, <1>7, <1>8, <1>9, <1>10, <1>11, <1>12, <1>13, <1>14

\* The created plot comes last.
LEMMA OrderInserted ==
    ASSUME TablesInv, NEW r \in Requests, req[r].at = "commit", req[r].kind = "create",
           req[r].count = Cardinality(Saved),
           {order[p] : p \in Saved} = Consecutive(Cardinality(Saved))
    PROVE  /\ Cardinality(Visible(r)) = Cardinality(Saved) + 1
           /\ {SeesOrder(r)[p] : p \in Visible(r)} = Consecutive(Cardinality(Visible(r)))
<1> DEFINE n == Cardinality(Saved)
<1>1. PICK p \in Plots : p = req[r].plot
  BY TypeFacts DEF TablesInv, Trying, TrySteps
<1>2. /\ TypeOK /\ ConfigDrafts(r) /\ OrderDrafts(r) /\ Progress(r) /\ Trying(r)
      /\ req[r].want \in Configs /\ n \in Nat
  BY TypeFacts, SavedPlots DEF TablesInv, Trying, TrySteps
<1>3. /\ config[p] = Gone /\ req[r].config[p] = req[r].want /\ req[r].order[p] = n
      /\ \A q \in Plots \ {p} : req[r].config[q] = Kept /\ req[r].order[q] = Kept
  <2>1. config[p] = Gone /\ req[r].config[p] = req[r].want /\ req[r].order[p] = n
    BY <1>1, <1>2 DEF Progress
  <2>2. \A q \in Plots \ {p} : req[r].config[q] = Kept /\ req[r].order[q] = Kept
    BY <1>1, <1>2 DEF ConfigDrafts, OrderDrafts
  <2> QED
    BY <2>1, <2>2
<1> HIDE DEF n
<1>4. /\ SeesConfig(r)[p] = req[r].want /\ SeesOrder(r)[p] = n
      /\ \A q \in Plots \ {p} : SeesConfig(r)[q] = config[q] /\ SeesOrder(r)[q] = order[q]
      /\ req[r].want # Gone
  <2>1. req[r].want # Gone /\ req[r].want # Kept /\ n # Kept
    BY <1>2, DashboardsAssumption DEF DashboardsAssumption
  <2> QED
    BY <1>1, <1>3, <2>1, Sees
<1>5. Visible(r) = Saved \union {p} /\ p \notin Saved
  BY <1>3, <1>4 DEF Visible, Saved
<1>6. Cardinality(Visible(r)) = n + 1
  BY <1>2, <1>5, SavedPlots, FS_AddElement DEF n
<1>7. {SeesOrder(r)[q] : q \in Visible(r)} = {order[q] : q \in Saved} \union {n}
  <2>1. \A q \in Saved : q \in Plots \ {p}
    BY <1>5 DEF Saved
  <2> QED
    BY <1>4, <1>5, <2>1
<1>8. Consecutive(n) \union {n} = Consecutive(n + 1)
  <2>1. n + 1 \in 0..MaxPlots /\ MaxPlots \in Nat
    BY <1>6, VisiblePlots, DashboardsAssumption DEF DashboardsAssumption
  <2> QED
    BY <1>2, <2>1 DEF Consecutive
<1> QED
  BY <1>6, <1>7, <1>8 DEF n

LEMMA OrderCommit ==
    ASSUME OrderInv, StoresInv, StoresInv', NEW r \in Requests, Commit(r)
    PROVE  OrderInv'
<1>1. /\ TablesInv /\ TypeOK /\ req[r].at = "commit" /\ Publish(r) /\ Serving(r)
      /\ req[r].kind \in {"create", "update", "delete"} /\ overlapped' = overlapped
      /\ Limit \in Nat
  BY TypeFacts, DashboardsAssumption
     DEF StoresInv, CleanInv, TablesInv, Commit, Serving, Busy, TrySteps, DashboardsAssumption
<1>2. SUFFICES ASSUME ~overlapped
               PROVE  /\ Cardinality(Saved)' <= Limit
                      /\ {order'[p] : p \in Saved'} = Consecutive(Cardinality(Saved)')
                      /\ \A s \in Requests : Orderly(s)'
  BY <1>1 DEF OrderInv
<1>3. /\ Cardinality(Saved) <= Limit /\ Orderly(r)
      /\ {order[p] : p \in Saved} = Consecutive(Cardinality(Saved))
  BY <1>2 DEF OrderInv
<1>4. Saved' = Visible(r) /\ order' = SeesOrder(r)
  BY <1>1 DEF Publish, Saved, Visible
<1>5. {SeesOrder(r)[p] : p \in Visible(r)} = Consecutive(Cardinality(Visible(r)))
      /\ Cardinality(Visible(r)) <= Limit
  <2>1. CASE req[r].kind = "create"
    <3>1. req[r].count = Cardinality(Saved) /\ Cardinality(Saved) < Limit
      BY <1>1, <1>3, <2>1 DEF Orderly
    <3>2. Cardinality(Saved) \in Nat
      BY <1>1, SavedPlots
    <3> QED
      BY <1>1, <1>3, <2>1, <3>1, <3>2, OrderInserted
  <2>2. CASE req[r].kind # "create"
    <3>1. {SeesOrder(r)[p] : p \in Visible(r)} = Consecutive(Cardinality(Visible(r)))
      BY <1>1, <1>3, <2>2 DEF Orderly
    <3>2. Visible(r) \subseteq Saved
      <4>1. \A p \in Plots : config'[p] # Gone => config[p] # Gone
        BY <1>1, <2>2, Published
      <4> QED
        BY <1>1, <4>1 DEF Visible, Saved, Publish
    <3>3. /\ IsFiniteSet(Saved) /\ Cardinality(Saved) \in Nat
          /\ Cardinality(Visible(r)) \in Nat
      BY <1>1, SavedPlots, VisiblePlots
    <3>4. Cardinality(Visible(r)) <= Cardinality(Saved)
      BY <3>2, <3>3, FS_Subset
    <3> QED
      BY <1>1, <1>3, <3>1, <3>3, <3>4
  <2> QED
    BY <2>1, <2>2
<1>6. /\ req'[r].at \in {"idle", "undo"} /\ \A s \in Requests \ {r} : req'[s] = req[s]
  <2>1. CASE Done(r)
    BY <1>1, <2>1, Replaced, FreshType DEF Done
  <2>2. CASE req' = [req EXCEPT ![r].at = "undo", ![r].config = Untouched, ![r].order = Untouched,
                                ![r].todo = <<>>, ![r].before = Gone]
    BY <1>1, <2>2 DEF TypeOK, Request
  <2> QED
    BY <2>1, <2>2 DEF Commit
<1>7. ASSUME NEW s \in Requests
      PROVE  Orderly(s)'
  <2>1. Bystanders(r)
    BY <1>6 DEF Bystanders
  <2>2. CASE s = r
    BY <1>6, <2>2, OrderlyEnd
  <2>3. CASE s # r
    BY <1>1, <1>2, <2>1, <2>3, SoloOthers DEF Orderly
  <2> QED
    BY <2>2, <2>3
<1> QED
  BY <1>4, <1>5, <1>7

LEMMA OrderCall ==
    ASSUME OrderInv, StoresInv, StoresInv', NEW r \in Requests, CallGrafana(r)
    PROVE  OrderInv'
<1>1. /\ TypeOK /\ req[r].at = "call" /\ Serving(r) /\ req[r] \in Request
      /\ req[r].kind \in {"create", "update", "delete"}
      /\ config' = config /\ order' = order /\ overlapped' = overlapped
      /\ req[r].order = Untouched
  BY DEF StoresInv, CleanInv, TablesInv, CallGrafana, Serving, Busy, TrySteps, TypeOK, Request, tables
<1>2. PICK p \in Plots : req' = [req EXCEPT ![r].at = "row", ![r].plot = p] \/ Fail(r, Gone)
  BY DEF CallGrafana
<1>3. CASE Fail(r, Gone)
  <2>1. req'[r].at = "failed" /\ Bystanders(r)
    BY <1>1, <1>3, Failed DEF Bystanders
  <2> QED
    BY <1>1, <2>1, OrderlyEnd, OrderStays
<1>4. CASE req' = [req EXCEPT ![r].at = "row", ![r].plot = p]
  <2> DEFINE e == [req[r] EXCEPT !.at = "row", !.plot = p]
  <2>1. /\ e.at = "row" /\ e.kind = req[r].kind /\ e.count = req[r].count /\ e.order = req[r].order
    BY <1>1 DEF Request
  <2>2. req' = [req EXCEPT ![r] = e]
    BY <1>1, <1>4 DEF TypeOK, Request
  <2> HIDE DEF e
  <2>3. req'[r] = e /\ \A s \in Requests \ {r} : req'[s] = req[s]
    BY <1>1, <2>2, Replaced
  <2>4. Bystanders(r)
    BY <2>3 DEF Bystanders
  <2>5. Saved' = Saved /\ Untouched' = Untouched
    BY <1>1 DEF Saved, Untouched
  <2>6. Orderly(r) => Orderly(r)'
    BY <1>1, <2>1, <2>3, <2>5 DEF Orderly
  <2> QED
    BY <1>1, <2>4, <2>6, OrderStays
<1> QED
  BY <1>2, <1>3, <1>4

LEMMA OrderUndo ==
    ASSUME OrderInv, StoresInv, StoresInv', NEW r \in Requests,
           Undo(r) \/ (Fails(r) /\ ~Trying(r))
    PROVE  OrderInv'
<1>1. /\ TypeOK /\ Serving(r) /\ config' = config /\ order' = order /\ overlapped' = overlapped
      /\ \E before \in {Gone, req[r].before} : Fail(r, before)
  BY DEF StoresInv, CleanInv, TablesInv, Undo, Fails, Trying, Serving, Busy, tables
<1>2. req'[r].at = "failed" /\ Bystanders(r)
  BY <1>1, Failed DEF Bystanders
<1> QED
  BY <1>1, <1>2, OrderlyEnd, OrderStays

LEMMA OrderStatement ==
    ASSUME OrderInv, StoresInv, StoresInv', NEW r \in Requests, Statement(r)
    PROVE  OrderInv'
<1>1. TablesInv /\ TablesInv'
  BY DEF StoresInv, CleanInv
<1>2. Advances(r)
  BY <1>1, Advancing DEF Statement
<1>3. /\ Serving(r) /\ config' = config /\ order' = order /\ overlapped' = overlapped
  BY <1>2 DEF Advances, Serving, Busy, Trying
<1>4. Bystanders(r)
  BY <1>2 DEF Advances, Bystanders, Turns
<1>5. ~overlapped /\ Orderly(r) => Orderly(r)'
  BY <1>1, OrderlyStatement DEF OrderInv
<1> QED
  BY <1>3, <1>4, <1>5, OrderStays

LEMMA OrderBegin ==
    ASSUME OrderInv, TypeOK, NEW r \in Requests, ~Serving(r), NEW e, Begin(r, e),
           e.at \in {"call", "row"}, e.at = "row" => e.kind = "update", e.order = Untouched,
           e.kind = "create" => e.count = Cardinality(Saved) /\ Cardinality(Saved) < Limit
    PROVE  OrderInv'
<1>1. /\ config' = config /\ order' = order /\ req'[r] = e
      /\ \A s \in Requests \ {r} : req'[s] = [req[s] EXCEPT !.before = Gone]
      /\ overlapped' = (overlapped \/ ~Nobody)
  BY DEF Begin, tables
<1>2. Saved' = Saved /\ Untouched' = Untouched
  BY <1>1 DEF Saved, Untouched
<1>3. SUFFICES ASSUME ~overlapped, Nobody
               PROVE  \A s \in Requests : Orderly(s)'
  BY <1>1, <1>2 DEF OrderInv
<1>4. Orderly(r)'
  BY <1>1, <1>2 DEF Orderly
<1>5. ASSUME NEW s \in Requests \ {r}
      PROVE  Orderly(s)'
  <2>1. req[s] \in Request /\ req'[s] = [req[s] EXCEPT !.before = Gone]
    BY <1>1 DEF TypeOK
  <2>2. req'[s].at = req[s].at
    BY <2>1 DEF Request
  <2> QED
    BY <1>3, <2>2 DEF Orderly, Nobody, Serving
<1> QED
  BY <1>4, <1>5

LEMMA OrderAsk ==
    ASSUME OrderInv, StoresInv, NEW r \in Requests, Ask(r)
    PROVE  OrderInv'
<1>1. TypeOK
  BY DEF StoresInv, CleanInv, TablesInv
<1>2. ASSUME NEW want \in Configs, AskCreate(r, want)
      PROVE  OrderInv'
  <2> DEFINE e == [Fresh EXCEPT !.at = "call", !.kind = "create", !.want = want,
                                !.count = Cardinality(Saved), !.before = Snapshot]
  <2>1. Begin(r, e) /\ ~Serving(r) /\ Cardinality(Saved) < Limit
    BY <1>2 DEF AskCreate
  <2>2. Clear(e) /\ e.at = "call" /\ e.kind = "create" /\ e.count = Cardinality(Saved)
    BY <1>1, CreateAsked
  <2> HIDE DEF e
  <2> QED
    BY <1>1, <2>1, <2>2, OrderBegin DEF Clear
<1>3. ASSUME NEW want \in Configs, NEW p \in Plots, NEW target \in Targets \union {Gone},
             AskUpdate(r, p, want, target)
      PROVE  OrderInv'
  <2> DEFINE e == Update(want, p, target)
  <2>1. p \in Saved /\ Begin(r, e) /\ ~Serving(r)
    BY <1>3 DEF AskUpdate, Update
  <2>2. Clear(e) /\ e.at \in {"call", "row"} /\ e.kind = "update"
    BY <1>1, <1>3, <2>1, UpdateAsked
  <2> HIDE DEF e
  <2> QED
    BY <1>1, <2>1, <2>2, OrderBegin DEF Clear
<1>4. ASSUME NEW p \in Plots, AskDelete(r, p)
      PROVE  OrderInv'
  <2> DEFINE e == [Fresh EXCEPT !.at = "call", !.kind = "delete", !.plot = p,
                                !.old = config[p], !.before = Snapshot]
  <2>1. p \in Saved /\ Begin(r, e) /\ ~Serving(r)
    BY <1>4 DEF AskDelete
  <2>2. Clear(e) /\ e.at = "call" /\ e.kind = "delete"
    BY <1>1, <2>1, DeleteAsked
  <2> HIDE DEF e
  <2> QED
    BY <1>1, <2>1, <2>2, OrderBegin DEF Clear
<1> QED
  BY <1>2, <1>3, <1>4 DEF Ask

LEMMA OrderCrash ==
    ASSUME OrderInv, Crash
    PROVE  OrderInv'
<1>1. /\ config' = config /\ order' = order /\ overlapped' = overlapped
      /\ \A r \in Requests : req'[r] = Fresh \/ (req'[r] = req[r] /\ ~Serving(r))
  BY DEF Crash, tables
<1>2. Saved' = Saved
  BY <1>1 DEF Saved
<1>3. \A r \in Requests : Orderly(r)'
  BY <1>1, FreshType DEF Orderly, Serving, Busy, TrySteps
<1> QED
  BY <1>1, <1>2, <1>3 DEF OrderInv

LEMMA OrderHolds == Spec => []OrderInv
<1>1. Init /\ StoresInv => OrderInv
  <2> SUFFICES ASSUME Init, StoresInv PROVE OrderInv
    OBVIOUS
  <2>1. \A r \in Requests : Orderly(r)
    BY FreshType DEF Init, Orderly, Serving, Busy, TrySteps
  <2>2. Saved = {} /\ Cardinality({}) = 0
    BY FS_EmptySet DEF Init, Saved
  <2>3. Consecutive(0) = {} /\ Limit \in Nat
    BY DashboardsAssumption DEF Consecutive, DashboardsAssumption
  <2> QED
    BY <2>1, <2>2, <2>3 DEF OrderInv
<1>2. OrderInv /\ StoresInv /\ StoresInv' /\ [Next]_vars => OrderInv'
  <2> SUFFICES ASSUME OrderInv, StoresInv, StoresInv', [Next]_vars
               PROVE  OrderInv'
    OBVIOUS
  <2>1. CASE UNCHANGED vars
    <3>1. /\ config' = config /\ order' = order /\ req' = req /\ overlapped' = overlapped
          /\ Saved' = Saved /\ Untouched' = Untouched
      BY <2>1 DEF vars, tables, Saved, Untouched
    <3>2. ASSUME NEW r \in Requests
          PROVE  Orderly(r) => Orderly(r)'
      <4>1. /\ SeesOrder(r)' = SeesOrder(r) /\ Visible(r)' = Visible(r)
            /\ \A todo : Reorders(r, todo) => Reorders(r, todo)'
        BY <3>1, SameView
      <4>2. Reorders(r, req[r].todo) => Reorders(r, req[r].todo)'
        BY <3>1, <4>1
      <4>3. {SeesOrder(r)[p] : p \in Visible(r)}' = {SeesOrder(r)[p] : p \in Visible(r)}
        BY <4>1
      <4> QED
        BY <3>1, <4>1, <4>2, <4>3 DEF Orderly, Serving
    <3> QED
      BY <3>1, <3>2 DEF OrderInv
  <2>2. ASSUME NEW r \in Requests, Handle(r) \/ AbortDeadlocked(r) \/ Fails(r)
        PROVE  OrderInv'
    <3>1. CallGrafana(r) \/ Commit(r) \/ Undo(r) \/ Statement(r) \/ (Fails(r) /\ ~Trying(r))
      BY <2>2 DEF Handle, Statement
    <3> QED
      BY <3>1, OrderCall, OrderCommit, OrderUndo, OrderStatement
  <2> QED
    BY <2>1, <2>2, OrderAsk, OrderCrash DEF Next
<1> QED
  BY <1>1, <1>2, StoresHold, PTL DEF Spec

\* While the requests of a run come one after the other, whatever statement, call or process
\* fails between two of their steps, the run has no more plots than it may have, and they are
\* numbered from 0 without a gap.
THEOREM OrderIsKept == Spec => []PlotsKeepTheirOrder
<1>1. OrderInv => PlotsKeepTheirOrder
  BY DEF OrderInv, PlotsKeepTheirOrder, Consecutive
<1> QED
  BY <1>1, OrderHolds, PTL
=============================================================================
