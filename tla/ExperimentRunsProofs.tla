------------------------- MODULE ExperimentRunsProofs -------------------------
(***************************************************************************)
(* Theorems about ExperimentRuns, for any sets of runs, steps, batches and *)
(* scripts and any bounds: first what is true of the runs, then of the     *)
(* experiment page, which only reads.                                      *)
(***************************************************************************)
EXTENDS ExperimentRuns, TLAPS, SequenceTheorems, FiniteSetTheorems

-----------------------------------------------------------------------------
(* The inductive invariant.                                                *)

Existing == {r \in Runs : Exists(r)}

\* A number read before the INSERT may be taken by now, but it is never too large.
Numbered ==
    /\ IsFiniteSet(Existing)
    /\ Numbers = 1..Cardinality(Existing)
    /\ \A i \in DOMAIN calls :
         calls[i].kind = "start" /\ calls[i].at = "write"
             => calls[i].num \in 1..(Cardinality(Existing) + 1)

\* A run is created by one call, before any other call names it.
Created ==
    /\ \A i \in DOMAIN calls :
         /\ calls[i].kind = "start" /\ calls[i].at \in {"arrived", "write"}
              => ~Exists(calls[i].run)
         /\ calls[i].kind # "start" \/ calls[i].at = "ok" => Exists(calls[i].run)
    /\ \A i, j \in DOMAIN calls :
         /\ calls[i].kind = "start" /\ calls[j].kind = "start"
         /\ calls[i].run = calls[j].run
         => i = j

Ending == {"complete", "fail"}

EndStatus(kind) == IF kind = "complete" THEN "COMPLETED" ELSE "FAILED"

\* What a script knows of its run and of the call it waits for.
Informed(c) ==
    /\ ctx[c].at = "new" => ctx[c].run = None
    /\ ctx[c].at \in {"body", "exit"} => ctx[c].run # None
    /\ ctx[c].run # None => Exists(ctx[c].run)
    /\ Waiting(c) =>
         /\ ctx[c].at \in {"new", "body", "exit"}
         /\ calls[ctx[c].call].kind = "start" <=> ctx[c].at = "new"
         /\ ctx[c].at # "new" => calls[ctx[c].call].run = ctx[c].run
         /\ ctx[c].at = "exit" => calls[ctx[c].call].kind \in Ending
    /\ ctx[c].terminal => ctx[c].run # None /\ status[ctx[c].run] \in Terminal
    /\ ctx[c].at = "left" /\ ctx[c].clean => ctx[c].terminal

\* Scripts have runs of their own: nobody else names a run that is being created, or drives
\* one that exists.
Separate ==
    /\ \A c, d \in Contexts :
         c # d => /\ Waiting(c) => ctx[c].call # ctx[d].call
                  /\ ctx[c].run # None => ctx[c].run # ctx[d].run
    /\ \A c \in Contexts : Waiting(c) /\ calls[ctx[c].call].kind = "start" =>
         /\ \A d \in Contexts : ctx[d].run # calls[ctx[c].call].run
         /\ \A j \in DOMAIN calls : calls[j].run = calls[ctx[c].call].run => j = ctx[c].call

\* A call that ended its run left it ended.
Ended ==
    \A i \in DOMAIN calls :
        calls[i].kind \in Ending /\ calls[i].at = "ok" => status[calls[i].run] \in Terminal

\* As long as no script has given up on a call, a run has one call at a time, none of them
\* passes the check of an ended run, and what a script was told of its run is so.
Sequential == timeouts = 0 =>
    /\ \A i, j \in DOMAIN calls :
         /\ calls[i].at \notin Finished /\ calls[j].at \notin Finished
         /\ calls[i].run = calls[j].run
         => i = j
    /\ \A i \in DOMAIN calls, c \in Contexts :
         /\ calls[i].at \notin Finished
         /\ ctx[c].at = "body" /\ ctx[c].run = calls[i].run
         => ctx[c].call = i
    /\ \A i \in DOMAIN calls :
         /\ calls[i].at = "write" => status[calls[i].run] \notin Terminal
         /\ calls[i].kind \in Ending /\ calls[i].at = "ok"
              => status[calls[i].run] = EndStatus(calls[i].kind)
    /\ \A c \in Contexts : ctx[c].terminal => status[ctx[c].run] = ctx[c].told

\* The rows of a batch are rows of its steps.
Placed ==
    \A r \in Runs, s \in Steps :
        rows[r][s] # None => \E k \in DOMAIN StepsOf[rows[r][s]] : StepsOf[rows[r][s]][k] = s

RunsInvariant ==
    /\ TablesTypeOK /\ Numbered /\ Created /\ Ended /\ Separate
    /\ \A c \in Contexts : Informed(c)
    /\ Sequential
    /\ Placed /\ BatchesDoNotMix

-----------------------------------------------------------------------------
(* The shapes of a step.                                                   *)

\* The next-state values of c's context and of those of the others.
Alone(c, q) ==
    /\ ctx' \in [Contexts -> Context]
    /\ ctx'[c] = q
    /\ \A d \in Contexts : d # c => ctx'[d] = ctx[d]

\* One more call.
Appended(q) ==
    /\ calls' \in Seq(Call)
    /\ Len(calls) \in Nat /\ DOMAIN calls = 1..Len(calls)
    /\ DOMAIN calls' = DOMAIN calls \union {Len(calls) + 1}
    /\ calls'[Len(calls) + 1] = q
    /\ \A i \in DOMAIN calls : calls'[i] = calls[i]

\* One call that is served.
Served(i, q) ==
    /\ calls' \in Seq(Call)
    /\ DOMAIN calls' = DOMAIN calls
    /\ calls'[i] = q
    /\ \A j \in DOMAIN calls : j # i => calls'[j] = calls[j]

LEMMA AloneShape ==
    ASSUME ctx \in [Contexts -> Context], NEW c \in Contexts, NEW q \in Context,
           ctx' = [ctx EXCEPT ![c] = q]
    PROVE  Alone(c, q)
BY DEF Alone

LEMMA AppendShape ==
    ASSUME calls \in Seq(Call), NEW q \in Call, calls' = Append(calls, q)
    PROVE  Appended(q)
BY DEF Appended

LEMMA ServedShape ==
    ASSUME calls \in Seq(Call), NEW i \in DOMAIN calls, NEW q \in Call,
           calls' = [calls EXCEPT ![i] = q]
    PROVE  Served(i, q)
<1>1. i \in 1..Len(calls) /\ DOMAIN calls = 1..Len(calls)
  BY LenProperties
<1>2. calls' \in Seq(Call)
  BY <1>1, ExceptSeq
<1> QED
  BY <1>1, <1>2 DEF Served

LEMMA CallTypes ==
    ASSUME TablesTypeOK, NEW i \in DOMAIN calls
    PROVE  /\ calls \in Seq(Call) /\ calls[i] \in Call
           /\ calls[i].run \in Runs /\ calls[i].kind \in Kinds
           /\ calls[i].held \in Nat /\ calls[i].num \in Nat
<1>1. calls \in Seq(Call)
  BY DEF TablesTypeOK
<1>2. calls[i] \in Call
  BY <1>1, LenProperties, ElementOfSeq
<1> QED
  BY <1>1, <1>2 DEF Call

LEMMA ContextTypes ==
    ASSUME TablesTypeOK, NEW c \in Contexts
    PROVE  /\ ctx[c] \in Context
           /\ ctx[c].run \in Runs \union {None} /\ None \notin Runs
           /\ ctx[c].call \in {0} \union DOMAIN calls
           /\ calls \in Seq(Call) /\ DOMAIN calls = 1..Len(calls)
           /\ Len(calls) \in Nat /\ 0 \notin DOMAIN calls
<1>1. calls \in Seq(Call)
  BY DEF TablesTypeOK
<1>2. DOMAIN calls = 1..Len(calls) /\ Len(calls) \in Nat
  BY <1>1, LenProperties
<1>3. ctx[c] \in Context /\ ctx[c].call \in {0} \union DOMAIN calls
  BY DEF TablesTypeOK
<1>4. ctx[c].run \in Runs \union {None}
  BY <1>3 DEF Context
<1>5. None \notin Runs
  BY RunsAssumption DEF RunsAssumption
<1> QED
  BY <1>1, <1>2, <1>3, <1>4, <1>5

-----------------------------------------------------------------------------
(* A request leaves: Enter, LogBatch, EndInBody and Exit.                  *)

\* What these have in common: c, which waits for nothing, sends q and waits for its
\* answer; q starts a run nobody names, or is about c's own.
Sends(c, q, at) ==
    /\ q \in Call /\ q.at = "arrived" /\ q.held = 0
    /\ q.kind = "append" <=> q.batch # None
    /\ Appended(q)
    /\ Alone(c, [ctx[c] EXCEPT !.call = Len(calls) + 1, !.at = at])
    /\ UNCHANGED <<status, number, rows, timeouts, faults>>
    /\ ~Waiting(c)
    /\ \/ /\ q.kind = "start" /\ ctx[c].at = "new" /\ at = "new"
          /\ ~Exists(q.run) /\ \A i \in DOMAIN calls : calls[i].run # q.run
       \/ /\ q.kind # "start" /\ ctx[c].at = "body" /\ q.run = ctx[c].run
          /\ \/ at = "body"
             \/ at = "exit" /\ q.kind \in Ending

LEMMA SendsContext ==
    ASSUME TablesTypeOK, NEW c \in Contexts, NEW q, NEW at, Sends(c, q, at)
    PROVE  /\ ctx'[c].call = Len(calls) + 1 /\ ctx'[c].at = at
           /\ ctx'[c].run = ctx[c].run /\ ctx'[c].terminal = ctx[c].terminal
           /\ ctx'[c].told = ctx[c].told /\ ctx'[c].clean = ctx[c].clean
           /\ ctx' \in [Contexts -> Context]
           /\ \A d \in Contexts : d # c => ctx'[d] = ctx[d]
           /\ Len(calls) + 1 # 0 /\ Len(calls) + 1 \notin DOMAIN calls
<1>1. ctx[c] \in Context /\ Len(calls) \in Nat /\ DOMAIN calls = 1..Len(calls)
  BY ContextTypes
<1>2. ctx'[c] = [ctx[c] EXCEPT !.call = Len(calls) + 1, !.at = at]
  BY DEF Sends, Alone
<1> QED
  BY <1>1, <1>2 DEF Sends, Alone, Context

LEMMA SendsType ==
    ASSUME TablesTypeOK, NEW c \in Contexts, NEW q, NEW at, Sends(c, q, at)
    PROVE  TablesTypeOK'
<1>1. /\ ctx' \in [Contexts -> Context] /\ ctx'[c].call = Len(calls) + 1
      /\ \A d \in Contexts : d # c => ctx'[d] = ctx[d]
  BY SendsContext
<1>2. /\ calls' \in Seq(Call) /\ DOMAIN calls' = DOMAIN calls \union {Len(calls) + 1}
      /\ \A i \in DOMAIN calls : calls'[i] = calls[i]
      /\ calls'[Len(calls) + 1] = q
  BY DEF Sends, Appended
<1>3. \A d \in Contexts : ctx'[d].call \in {0} \union DOMAIN calls'
  BY <1>1, <1>2 DEF TablesTypeOK
<1>4. \A i \in DOMAIN calls' :
        /\ calls'[i].kind = "append" <=> calls'[i].batch # None
        /\ calls'[i].held # 0 => calls'[i].kind = "append" /\ calls'[i].at = "write"
  BY <1>2 DEF TablesTypeOK, Sends
<1>5. UNCHANGED <<status, number, rows, timeouts, faults>>
  BY DEF Sends
<1> QED
  BY <1>1, <1>2, <1>3, <1>4, <1>5 DEF TablesTypeOK

LEMMA SendsKeeps ==
    ASSUME RunsInvariant, NEW c \in Contexts, NEW q, NEW at, Sends(c, q, at)
    PROVE  RunsInvariant'
<1> DEFINE n == Len(calls) + 1
<1>1. TablesTypeOK /\ Created /\ Separate /\ Informed(c)
  BY DEF RunsInvariant
<1>2. /\ ctx'[c].call = n /\ ctx'[c].at = at
      /\ ctx'[c].run = ctx[c].run /\ ctx'[c].terminal = ctx[c].terminal
      /\ ctx'[c].told = ctx[c].told /\ ctx'[c].clean = ctx[c].clean
      /\ \A d \in Contexts : d # c => ctx'[d] = ctx[d]
      /\ n # 0 /\ n \notin DOMAIN calls
  BY <1>1, SendsContext
<1>3. /\ DOMAIN calls' = DOMAIN calls \union {n}
      /\ calls'[n] = q /\ \A i \in DOMAIN calls : calls'[i] = calls[i]
      /\ q.at = "arrived" /\ ctx[c].call = 0
      /\ UNCHANGED <<status, number, rows, timeouts, faults>>
  BY DEF Sends, Appended, Waiting
<1>4. \/ /\ q.kind = "start" /\ ctx[c].at = "new" /\ at = "new"
         /\ ~Exists(q.run) /\ \A i \in DOMAIN calls : calls[i].run # q.run
         /\ q.run \in Runs
      \/ /\ q.kind # "start" /\ ctx[c].at = "body" /\ q.run = ctx[c].run
         /\ \/ at = "body"
            \/ at = "exit" /\ q.kind \in Ending
  BY DEF Sends, Call
<1>5. /\ \A d \in Contexts : ctx[d].call = 0 \/ ctx[d].call \in DOMAIN calls
      /\ \A d \in Contexts : ctx[d].run # None => Exists(ctx[d].run)
  BY <1>1 DEF RunsInvariant, TablesTypeOK, Informed
<1>6. None \notin Runs
  BY RunsAssumption DEF RunsAssumption
<1> HIDE DEF n
<1>7. TablesTypeOK'
  BY <1>1, SendsType
<1>8. Numbered'
  BY <1>3 DEF RunsInvariant, Numbered, Existing, Exists, Numbers
<1>9. Created'
  BY <1>1, <1>3, <1>4, <1>5 DEF Created, Informed, Exists
<1>10. Ended'
  BY <1>3, <1>4 DEF RunsInvariant, Ended
<1>11. Separate'
  <2>1. ASSUME NEW d \in Contexts, NEW e \in Contexts, d # e
        PROVE  /\ Waiting(d)' => ctx'[d].call # ctx'[e].call
               /\ ctx'[d].run # None => ctx'[d].run # ctx'[e].run
    <3>1. ctx'[d].run = ctx[d].run /\ ctx'[e].run = ctx[e].run
      BY <1>2
    <3>2. /\ ctx[d].call # 0 => ctx[d].call # ctx[e].call
          /\ ctx[d].run # None => ctx[d].run # ctx[e].run
      BY <1>1, <2>1 DEF Separate, Waiting
    <3>3. ctx'[d].call # 0 => ctx'[d].call # ctx'[e].call
      BY <1>2, <1>5, <2>1, <3>2
    <3> QED
      BY <3>1, <3>2, <3>3 DEF Waiting
  <2>2. ASSUME NEW d \in Contexts, Waiting(d)', calls'[ctx'[d].call].kind = "start"
        PROVE  /\ \A e \in Contexts : ctx'[e].run # calls'[ctx'[d].call].run
               /\ \A j \in DOMAIN calls' :
                    calls'[j].run = calls'[ctx'[d].call].run => j = ctx'[d].call
    <3>1. CASE d = c
      <4>1. q.kind = "start" /\ ctx'[d].call = n
        BY <1>2, <1>3, <2>2, <3>1
      <4>2. ~Exists(q.run) /\ q.run # None /\ \A i \in DOMAIN calls : calls[i].run # q.run
        BY <1>4, <1>6, <4>1
      <4>3. \A e \in Contexts : ctx'[e].run = ctx[e].run
        BY <1>2
      <4>4. \A e \in Contexts : ctx'[e].run # q.run
        BY <1>5, <4>2, <4>3
      <4> QED
        BY <1>3, <4>1, <4>2, <4>4
    <3>2. CASE d # c
      <4>1. /\ ctx'[d] = ctx[d] /\ ctx[d].call \in DOMAIN calls
            /\ Waiting(d) /\ calls[ctx[d].call].kind = "start"
            /\ calls'[ctx[d].call] = calls[ctx[d].call]
        <5>1. ctx'[d] = ctx[d] /\ ctx[d].call # 0
          BY <1>2, <2>2, <3>2 DEF Waiting
        <5> QED
          BY <1>3, <1>5, <2>2, <5>1 DEF Waiting
      <4>2. /\ \A e \in Contexts : ctx[e].run # calls[ctx[d].call].run
            /\ \A j \in DOMAIN calls :
                 calls[j].run = calls[ctx[d].call].run => j = ctx[d].call
        BY <1>1, <4>1 DEF Separate
      <4>3. q.run # calls[ctx[d].call].run
        BY <1>4, <4>1, <4>2
      <4> QED
        BY <1>2, <1>3, <4>1, <4>2, <4>3
    <3> QED
      BY <3>1, <3>2
  <2> QED
    BY <2>1, <2>2 DEF Separate
<1>12. \A d \in Contexts : Informed(d)'
  <2>1. Informed(c)'
    <3>1. CASE q.kind = "start"
      BY <1>1, <1>2, <1>3, <1>4, <3>1 DEF Informed, Waiting, Exists
    <3>2. CASE q.kind # "start"
      BY <1>1, <1>2, <1>3, <1>4, <3>2 DEF Informed, Waiting, Exists
    <3> QED
      BY <3>1, <3>2
  <2>2. ASSUME NEW d \in Contexts, d # c PROVE Informed(d)'
    <3>1. Informed(d) /\ ctx'[d] = ctx[d]
      BY <1>2, <2>2 DEF RunsInvariant
    <3>2. Waiting(d) => calls'[ctx[d].call] = calls[ctx[d].call]
      BY <1>3, <1>5 DEF Waiting
    <3> QED
      BY <1>3, <3>1, <3>2 DEF Informed, Waiting, Exists
  <2> QED
    BY <2>1, <2>2
<1>13. Sequential'
  <2> SUFFICES ASSUME timeouts = 0 PROVE Sequential'
    BY <1>3 DEF Sequential
  <2>1. \A i \in DOMAIN calls : calls[i].at \notin Finished => calls[i].run # q.run
    BY <1>1, <1>3, <1>4, <1>5, <1>2, ContextTypes DEF RunsInvariant, Sequential
  <2>2. \A i, j \in DOMAIN calls' :
          /\ calls'[i].at \notin Finished /\ calls'[j].at \notin Finished
          /\ calls'[i].run = calls'[j].run
          => i = j
    BY <1>3, <2>1 DEF RunsInvariant, Sequential
  <2>3. ASSUME NEW i \in DOMAIN calls', NEW d \in Contexts, calls'[i].at \notin Finished,
               ctx'[d].at = "body", ctx'[d].run = calls'[i].run
        PROVE  ctx'[d].call = i
    <3>1. CASE d = c
      BY <1>2, <1>3, <1>4, <2>1, <2>3, <3>1
    <3>2. CASE d # c /\ i = n
      <4>1. ctx[d].run = q.run /\ ctx[d].run # None
        <5>1. Informed(d) /\ ctx'[d] = ctx[d]
          BY <1>2, <3>2 DEF RunsInvariant
        <5> QED
          BY <1>3, <2>3, <3>2, <5>1 DEF Informed
      <4>2. q.run = ctx[c].run
        BY <1>4, <1>5, <4>1
      <4> QED
        BY <1>1, <3>2, <4>1, <4>2 DEF Separate
    <3>3. CASE d # c /\ i # n
      BY <1>2, <1>3, <2>3, <3>3 DEF RunsInvariant, Sequential
    <3> QED
      BY <3>1, <3>2, <3>3
  <2>4. \A i \in DOMAIN calls' :
          /\ calls'[i].at = "write" => status'[calls'[i].run] \notin Terminal
          /\ calls'[i].kind \in Ending /\ calls'[i].at = "ok"
               => status'[calls'[i].run] = EndStatus(calls'[i].kind)
    BY <1>3 DEF RunsInvariant, Sequential
  <2>5. \A d \in Contexts : ctx'[d].terminal => status'[ctx'[d].run] = ctx'[d].told
    BY <1>2, <1>3 DEF RunsInvariant, Sequential
  <2> QED
    BY <2>2, <2>3, <2>4, <2>5 DEF Sequential
<1>14. Placed' /\ BatchesDoNotMix'
  BY <1>3 DEF RunsInvariant, Placed, BatchesDoNotMix
<1> QED
  BY <1>7, <1>8, <1>9, <1>10, <1>11, <1>12, <1>13, <1>14 DEF RunsInvariant

-----------------------------------------------------------------------------
(* A script learns something: Deliver, LoseAnswer, TimeOut and Kill, and   *)
(* Exit when there is nothing to send.                                     *)

\* What these have in common: c waits for nothing any more; if it is in the body then the
\* call it waited for is over, or has been given up.
Hears(c, q) ==
    /\ q \in Context /\ q.call = 0
    /\ Alone(c, q)
    /\ UNCHANGED <<status, number, rows, calls>>
    /\ timeouts' \in 0..MaxTimeouts /\ faults' \in 0..MaxFaults
    /\ timeouts' = 0 => timeouts = 0
    /\ Informed(c)'
    /\ \/ /\ q.run = ctx[c].run
          /\ timeouts' = 0 /\ q.at = "body" =>
                /\ ctx[c].at = "body"
                /\ Waiting(c) /\ calls[ctx[c].call].at \in Finished
       \/ /\ Waiting(c) /\ q.run = calls[ctx[c].call].run
          /\ calls[ctx[c].call].kind = "start" /\ calls[ctx[c].call].at = "ok"
    /\ timeouts' = 0 /\ q.terminal => status[q.run] = q.told

LEMMA HearsKeeps ==
    ASSUME RunsInvariant, NEW c \in Contexts, NEW q, Hears(c, q)
    PROVE  RunsInvariant'
<1>1. TablesTypeOK /\ Created /\ Separate /\ Informed(c)
  BY DEF RunsInvariant
<1>2. /\ ctx' \in [Contexts -> Context] /\ ctx'[c] = q /\ q.call = 0
      /\ \A d \in Contexts : d # c => ctx'[d] = ctx[d]
      /\ UNCHANGED <<status, number, rows, calls>>
      /\ timeouts' = 0 => timeouts = 0
  BY DEF Hears, Alone
<1>3. /\ \A d \in Contexts : ctx[d].call = 0 \/ ctx[d].call \in DOMAIN calls
      /\ \A d \in Contexts : ctx[d].run # None => Exists(ctx[d].run)
  BY <1>1 DEF RunsInvariant, TablesTypeOK, Informed
<1>4. \/ /\ q.run = ctx[c].run
         /\ timeouts' = 0 /\ q.at = "body" =>
               /\ ctx[c].at = "body" /\ ctx[c].call # 0
               /\ calls[ctx[c].call].at \in Finished
      \/ /\ ctx[c].call # 0 /\ q.run = calls[ctx[c].call].run
         /\ calls[ctx[c].call].kind = "start" /\ calls[ctx[c].call].at \in Finished
  BY DEF Hears, Waiting, Finished
<1>5. TablesTypeOK'
  <2>1. \A d \in Contexts : ctx'[d].call \in {0} \union DOMAIN calls
    BY <1>1, <1>2 DEF TablesTypeOK
  <2>2. timeouts' \in 0..MaxTimeouts /\ faults' \in 0..MaxFaults
    BY DEF Hears
  <2> QED
    BY <1>1, <1>2, <2>1, <2>2 DEF TablesTypeOK
<1>6. Numbered'
  BY <1>2 DEF RunsInvariant, Numbered, Existing, Exists, Numbers
<1>7. Created' /\ Ended' /\ Placed' /\ BatchesDoNotMix'
  BY <1>1, <1>2 DEF RunsInvariant, Created, Ended, Placed, BatchesDoNotMix, Exists
<1>8. Separate'
  <2>1. ASSUME NEW d \in Contexts, NEW e \in Contexts, d # e
        PROVE  /\ ctx'[d].call # 0 => ctx'[d].call # ctx'[e].call
               /\ ctx'[d].run # None => ctx'[d].run # ctx'[e].run
    <3>1. /\ ctx[d].call # 0 => ctx[d].call # ctx[e].call
          /\ ctx[d].run # None => ctx[d].run # ctx[e].run
      BY <1>1, <2>1 DEF Separate, Waiting
    <3>2. ctx'[d].call # 0 => ctx'[d].call # ctx'[e].call
      BY <1>2, <2>1, <3>1
    <3>3. q.run = ctx[c].run \/ \A x \in Contexts : ctx[x].run # q.run
      BY <1>1, <1>4 DEF Separate, Waiting
    <3> QED
      BY <1>2, <2>1, <3>1, <3>2, <3>3
  <2>2. ASSUME NEW d \in Contexts, ctx'[d].call # 0, calls[ctx'[d].call].kind = "start"
        PROVE  /\ \A e \in Contexts : ctx'[e].run # calls[ctx'[d].call].run
               /\ \A j \in DOMAIN calls :
                    calls[j].run = calls[ctx'[d].call].run => j = ctx'[d].call
    <3>1. d # c /\ ctx'[d] = ctx[d]
      BY <1>2, <2>2
    <3>2. /\ \A e \in Contexts : ctx[e].run # calls[ctx[d].call].run
          /\ \A j \in DOMAIN calls :
               calls[j].run = calls[ctx[d].call].run => j = ctx[d].call
      BY <1>1, <2>2, <3>1 DEF Separate, Waiting
    <3>3. ctx[c].call # 0 => ctx[c].call # ctx[d].call
      BY <1>1, <3>1 DEF Separate, Waiting
    <3>4. q.run # calls[ctx[d].call].run
      BY <1>3, <1>4, <3>2, <3>3
    <3> QED
      BY <1>2, <3>1, <3>2, <3>4
  <2> QED
    BY <1>2, <2>1, <2>2 DEF Separate, Waiting
<1>9. \A d \in Contexts : Informed(d)'
  <2> SUFFICES ASSUME NEW d \in Contexts, d # c PROVE Informed(d)'
    BY DEF Hears
  <2>1. Informed(d) /\ ctx'[d] = ctx[d]
    BY <1>2 DEF RunsInvariant
  <2> QED
    BY <1>2, <2>1 DEF Informed, Waiting, Exists
<1>10. Sequential'
  <2> SUFFICES ASSUME timeouts' = 0 PROVE Sequential'
    BY DEF Sequential
  <2>1. timeouts = 0 /\ Sequential
    BY <1>2 DEF RunsInvariant
  <2>2. ASSUME NEW i \in DOMAIN calls, calls[i].at \notin Finished,
               q.at = "body", q.run = calls[i].run
        PROVE  FALSE
    <3>1. CASE q.run = ctx[c].run /\ ctx[c].at = "body" /\ calls[ctx[c].call].at \in Finished
      BY <2>1, <2>2, <3>1 DEF Sequential
    <3>2. CASE /\ ctx[c].call # 0 /\ q.run = calls[ctx[c].call].run
               /\ calls[ctx[c].call].kind = "start" /\ calls[ctx[c].call].at \in Finished
      <4>1. i = ctx[c].call
        BY <1>1, <2>2, <3>2 DEF Separate, Waiting
      <4> QED
        BY <2>2, <3>2, <4>1
    <3> QED
      BY <1>4, <2>2, <3>1, <3>2
  <2>3. \A i \in DOMAIN calls, d \in Contexts :
          /\ calls[i].at \notin Finished
          /\ ctx'[d].at = "body" /\ ctx'[d].run = calls[i].run
          => ctx'[d].call = i
    BY <1>2, <2>1, <2>2 DEF Sequential
  <2>4. \A d \in Contexts : ctx'[d].terminal => status[ctx'[d].run] = ctx'[d].told
    BY <1>2, <2>1 DEF Hears, Sequential
  <2> QED
    BY <1>2, <2>1, <2>3, <2>4 DEF Sequential
<1> QED
  BY <1>5, <1>6, <1>7, <1>8, <1>9, <1>10 DEF RunsInvariant

\* What the answer m, or the lack of one, makes of c: the run has started; the call is over;
\* the run has ended; an error has left the with statement.
Heard(c, m, q) ==
    \/ /\ m.at = "ok" /\ m.kind = "start" /\ ctx[c].at = "new"
       /\ q.at = "body" /\ q.run = m.run /\ q.terminal = ctx[c].terminal
    \/ /\ m.at = "ok" => m.kind = "append"
       /\ q.at = "body" /\ ctx[c].at = "body"
       /\ q.run = ctx[c].run /\ q.terminal = ctx[c].terminal /\ q.told = ctx[c].told
    \/ /\ m.at = "ok" /\ m.kind \in Ending
       /\ m.run = ctx[c].run /\ ctx[c].run # None
       /\ q.run = ctx[c].run /\ q.terminal = TRUE /\ q.told = EndStatus(m.kind)
       /\ \/ q.at = "body" /\ ctx[c].at = "body"
          \/ q.at = "left"
    \/ /\ m.at # "ok" /\ q.at = "left" /\ q.clean = FALSE
       /\ q.run = ctx[c].run /\ q.terminal = ctx[c].terminal /\ q.told = ctx[c].told

LEMMA HearTypes ==
    ASSUME NEW x \in Context
    PROVE  /\ \A r \in Runs : [x EXCEPT !.at = "body", !.run = r, !.call = 0] \in Context
           /\ [x EXCEPT !.call = 0, !.at = "left", !.clean = FALSE] \in Context
BY DEF Context

LEMMA HearEndType ==
    ASSUME NEW x \in Context, NEW told \in Terminal, NEW at \in {"body", "left"}, NEW q,
           q = [x EXCEPT !.call = 0, !.terminal = TRUE, !.told = told, !.at = at]
    PROVE  q \in Context
BY DEF Context

LEMMA HearShape ==
    ASSUME TablesTypeOK, NEW c \in Contexts, Informed(c), Waiting(c),
           NEW m \in Call, m.kind = calls[ctx[c].call].kind, m.run = calls[ctx[c].call].run,
           NEW q, q = Hear(ctx[c], m)
    PROVE  q \in Context /\ q.call = 0 /\ Heard(c, m, q)
<1>1. ctx[c] \in Context
  BY ContextTypes
<1>2. m.kind \in Kinds /\ m.run \in Runs /\ None \notin Runs
  BY ContextTypes DEF Call
<1>3. /\ ctx[c].at \in {"new", "body", "exit"}
      /\ m.kind = "start" <=> ctx[c].at = "new"
      /\ ctx[c].at # "new" => m.run = ctx[c].run
      /\ ctx[c].at = "exit" => m.kind \in Ending
  BY DEF Informed
<1>4. CASE m.at = "ok" /\ m.kind = "start"
  <2>1. q = [ctx[c] EXCEPT !.at = "body", !.run = m.run, !.call = 0]
    BY <1>4 DEF Hear
  <2>2. q \in Context
    BY <1>1, <1>2, <2>1, HearTypes
  <2>3. q.call = 0 /\ q.at = "body" /\ q.run = m.run /\ q.terminal = ctx[c].terminal
    BY <1>1, <2>1 DEF Context
  <2> QED
    BY <1>3, <1>4, <2>2, <2>3 DEF Heard
<1>5. CASE m.at = "ok" /\ m.kind = "append"
  <2>1. q = [ctx[c] EXCEPT !.call = 0]
    BY <1>5 DEF Hear
  <2>2. ctx[c].at = "body"
    BY <1>3, <1>5 DEF Ending
  <2> QED
    BY <1>1, <1>5, <2>1, <2>2 DEF Context, Heard
<1>6. CASE m.at = "ok" /\ m.kind \in Ending
  <2> DEFINE at == IF ctx[c].at = "exit" THEN "left" ELSE ctx[c].at
  <2>1. q = [ctx[c] EXCEPT !.call = 0, !.terminal = TRUE, !.told = EndStatus(m.kind),
                           !.at = at]
    BY <1>6 DEF Hear, Ending, EndStatus
  <2>2. ctx[c].at \in {"body", "exit"}
    BY <1>3, <1>6 DEF Ending
  <2>3. q \in Context
    <3>1. EndStatus(m.kind) \in Terminal
      BY DEF EndStatus, Terminal
    <3>2. at \in {"body", "left"}
      BY <2>2
    <3> HIDE DEF at
    <3> QED
      BY <1>1, <2>1, <3>1, <3>2, HearEndType
  <2>4. /\ q.call = 0 /\ q.run = ctx[c].run /\ q.terminal = TRUE
        /\ q.told = EndStatus(m.kind)
        /\ q.at = IF ctx[c].at = "exit" THEN "left" ELSE ctx[c].at
    BY <1>1, <2>1 DEF Context, EndStatus
  <2> QED
    BY <1>3, <1>6, <1>2, <2>2, <2>3, <2>4 DEF Heard
<1>7. CASE m.at # "ok" /\ ctx[c].at = "body"
  <2>1. q = [ctx[c] EXCEPT !.call = 0]
    BY <1>7 DEF Hear
  <2> QED
    BY <1>1, <1>7, <2>1 DEF Context, Heard
<1>8. CASE m.at # "ok" /\ ctx[c].at # "body"
  <2>1. q = [ctx[c] EXCEPT !.call = 0, !.at = "left", !.clean = FALSE]
    BY <1>8 DEF Hear
  <2>2. q \in Context
    BY <1>1, <2>1, HearTypes
  <2>3. /\ q.call = 0 /\ q.at = "left" /\ q.clean = FALSE /\ q.run = ctx[c].run
        /\ q.terminal = ctx[c].terminal /\ q.told = ctx[c].told
    BY <1>1, <2>1 DEF Context
  <2> QED
    BY <1>8, <2>2, <2>3 DEF Heard
<1> QED
  BY <1>4, <1>5, <1>6, <1>7, <1>8, <1>2 DEF Kinds, Ending

LEMMA HearKeeps ==
    ASSUME RunsInvariant, NEW c \in Contexts, Waiting(c),
           NEW m \in Call, m.kind = calls[ctx[c].call].kind, m.run = calls[ctx[c].call].run,
           m.at = "ok" => calls[ctx[c].call].at = "ok",
           timeouts' = 0 => timeouts = 0 /\ calls[ctx[c].call].at \in Finished,
           ctx' = [ctx EXCEPT ![c] = Hear(ctx[c], m)],
           UNCHANGED <<status, number, rows, calls>>,
           timeouts' \in 0..MaxTimeouts, faults' \in 0..MaxFaults
    PROVE  RunsInvariant'
<1> DEFINE q == Hear(ctx[c], m)
<1> DEFINE call == calls[ctx[c].call]
<1>1. TablesTypeOK /\ Informed(c) /\ Created /\ Ended
  BY DEF RunsInvariant
<1>2. ctx' = [ctx EXCEPT ![c] = q] /\ q = Hear(ctx[c], m)
  OBVIOUS
<1>3. ctx[c].call \in DOMAIN calls
  BY <1>1, ContextTypes DEF Waiting
<1>4. m.kind = call.kind /\ m.run = call.run /\ (m.at = "ok" => call.at = "ok")
  OBVIOUS
<1> HIDE DEF q, call
<1>5. q \in Context /\ q.call = 0 /\ Heard(c, m, q)
  BY <1>1, <1>2, HearShape
<1>6. Alone(c, q)
  BY <1>1, <1>2, <1>5, AloneShape DEF TablesTypeOK
<1>7. ctx'[c] = q
  BY <1>6 DEF Alone
<1>8. m.at = "ok" /\ m.kind = "start" => Exists(m.run) /\ m.run # None
  <2>1. m.run \in Runs /\ None \notin Runs
    BY <1>1, ContextTypes DEF Call
  <2> QED
    BY <1>1, <1>3, <1>4, <2>1 DEF Created, call
<1>9. /\ ctx[c].at = "new" => ctx[c].run = None
      /\ ctx[c].at \in {"body", "exit"} => ctx[c].run # None
      /\ ctx[c].run # None => Exists(ctx[c].run)
      /\ ctx[c].terminal => ctx[c].run # None /\ status[ctx[c].run] \in Terminal
  BY <1>1 DEF Informed
<1>10. m.at = "ok" /\ m.kind \in Ending => status[m.run] \in Terminal
  BY <1>1, <1>3, <1>4 DEF Ended, call
<1>11. Informed(c)'
  <2>1. /\ q.at # "new" /\ q.at \in {"body", "left"} /\ (q.at = "body" => q.run # None)
        /\ q.run # None => Exists(q.run)
        /\ q.terminal => q.run # None /\ status[q.run] \in Terminal
        /\ q.at = "left" /\ q.clean => q.terminal
    BY <1>5, <1>8, <1>9, <1>10 DEF Heard
  <2> QED
    BY <1>5, <1>7, <2>1 DEF Informed, Waiting, Exists
<1>12. timeouts' = 0 /\ q.terminal => status[q.run] = q.told
  <2> SUFFICES ASSUME timeouts' = 0, q.terminal PROVE status[q.run] = q.told
    OBVIOUS
  <2>1. Sequential /\ timeouts = 0
    BY DEF RunsInvariant
  <2>2. ctx[c].terminal => status[ctx[c].run] = ctx[c].told
    BY <2>1 DEF Sequential
  <2>3. m.at = "ok" /\ m.kind \in Ending => status[m.run] = EndStatus(m.kind)
    BY <1>3, <1>4, <2>1 DEF Sequential, call
  <2> QED
    BY <1>5, <1>9, <2>2, <2>3 DEF Heard
<1>13. \/ /\ q.run = ctx[c].run
          /\ timeouts' = 0 /\ q.at = "body" =>
                /\ ctx[c].at = "body"
                /\ Waiting(c) /\ calls[ctx[c].call].at \in Finished
       \/ /\ Waiting(c) /\ q.run = calls[ctx[c].call].run
          /\ calls[ctx[c].call].kind = "start" /\ calls[ctx[c].call].at = "ok"
  BY <1>4, <1>5 DEF Heard, Finished, call
<1>14. Hears(c, q)
  BY <1>5, <1>6, <1>11, <1>12, <1>13 DEF Hears
<1> QED
  BY <1>14, HearsKeeps

LEMMA FaultType ==
    ASSUME TablesTypeOK
    PROVE  /\ faults \in 0..MaxFaults /\ timeouts \in 0..MaxTimeouts
           /\ faults < MaxFaults => faults + 1 \in 0..MaxFaults
           /\ timeouts < MaxTimeouts =>
                timeouts + 1 \in 0..MaxTimeouts /\ timeouts + 1 # 0
BY RunsAssumption DEF TablesTypeOK, RunsAssumption

LEMMA BrokenShape ==
    ASSUME NEW call \in Call
    PROVE  /\ Broken(call) \in Call /\ Broken(call).at = "error"
           /\ Broken(call).kind = call.kind /\ Broken(call).run = call.run
BY DEF Broken, Call, Finished

LEMMA ScriptHears ==
    ASSUME RunsInvariant, NEW c \in Contexts, Deliver(c) \/ LoseAnswer(c) \/ TimeOut(c)
    PROVE  RunsInvariant'
<1> DEFINE call == calls[ctx[c].call]
<1>1. TablesTypeOK /\ Waiting(c)
  BY DEF RunsInvariant, Deliver, LoseAnswer, TimeOut
<1>2. ctx[c].call \in DOMAIN calls
  BY <1>1, ContextTypes DEF Waiting
<1>3. call \in Call
  BY <1>1, <1>2, CallTypes
<1>4. /\ Broken(call) \in Call /\ Broken(call).at # "ok"
      /\ Broken(call).kind = call.kind /\ Broken(call).run = call.run
  BY <1>3, BrokenShape
<1>5. /\ faults \in 0..MaxFaults /\ timeouts \in 0..MaxTimeouts
      /\ faults < MaxFaults => faults + 1 \in 0..MaxFaults
      /\ timeouts < MaxTimeouts => timeouts + 1 \in 0..MaxTimeouts /\ timeouts + 1 # 0
  BY <1>1, FaultType
<1>6. CASE Deliver(c)
  <2>1. /\ call.at \in Finished /\ ctx' = [ctx EXCEPT ![c] = Hear(ctx[c], call)]
        /\ UNCHANGED <<status, number, rows, calls>>
        /\ UNCHANGED <<timeouts, faults>>
    BY <1>6 DEF Deliver, tables, budget
  <2> QED
    BY <1>1, <1>3, <1>5, <2>1, HearKeeps
<1>7. CASE LoseAnswer(c)
  <2>1. /\ call.at \in Finished /\ ctx' = [ctx EXCEPT ![c] = Hear(ctx[c], Broken(call))]
        /\ UNCHANGED <<status, number, rows, calls>>
        /\ timeouts' = timeouts /\ faults' = faults + 1 /\ faults < MaxFaults
    BY <1>7 DEF LoseAnswer, tables
  <2> QED
    BY <1>1, <1>4, <1>5, <2>1, HearKeeps
<1>8. CASE TimeOut(c)
  <2>1. /\ ctx' = [ctx EXCEPT ![c] = Hear(ctx[c], Broken(call))]
        /\ UNCHANGED <<status, number, rows, calls>>
        /\ timeouts' = timeouts + 1 /\ faults' = faults /\ timeouts < MaxTimeouts
    BY <1>8 DEF TimeOut, tables
  <2> QED
    BY <1>1, <1>4, <1>5, <2>1, HearKeeps
<1> QED
  BY <1>6, <1>7, <1>8

LEMMA KillKeeps ==
    ASSUME RunsInvariant, NEW c \in Contexts, Kill(c)
    PROVE  RunsInvariant'
<1> DEFINE q == [ctx[c] EXCEPT !.at = "dead", !.call = 0]
<1>1. TablesTypeOK /\ Informed(c) /\ ctx[c] \in Context /\ ctx \in [Contexts -> Context]
  BY ContextTypes DEF RunsInvariant, TablesTypeOK
<1>2. /\ ctx' = [ctx EXCEPT ![c] = q]
      /\ UNCHANGED <<status, number, rows, calls, timeouts, faults>>
  BY <1>1 DEF Kill, tables, budget
<1>3. q \in Context
  BY <1>1 DEF Context
<1>4. /\ q.at = "dead" /\ q.call = 0 /\ q.run = ctx[c].run
      /\ q.terminal = ctx[c].terminal /\ q.told = ctx[c].told
  BY <1>1 DEF Context
<1> HIDE DEF q
<1>5. Alone(c, q)
  BY <1>1, <1>2, <1>3, AloneShape
<1>6. Informed(c)'
  BY <1>1, <1>2, <1>4, <1>5 DEF Informed, Waiting, Alone, Exists
<1>7. timeouts = 0 /\ q.terminal => status[q.run] = q.told
  BY <1>4 DEF RunsInvariant, Sequential
<1>8. Hears(c, q)
  BY <1>1, <1>2, <1>3, <1>4, <1>5, <1>6, <1>7, FaultType DEF Hears
<1> QED
  BY <1>8, HearsKeeps

-----------------------------------------------------------------------------
(* The script sends.                                                       *)

LEMMA AwaitType ==
    ASSUME NEW x \in Context, NEW n \in Nat, NEW at \in {"new", "body", "exit"}, NEW p,
           p = [x EXCEPT !.call = n, !.at = at]
    PROVE  p \in Context
BY DEF Context

LEMMA SendShape ==
    ASSUME TablesTypeOK, NEW c \in Contexts, NEW kind \in Kinds, NEW run \in Runs,
           NEW batch \in Batches \union {None}, kind = "append" <=> batch # None,
           NEW at, Send(kind, run, batch), Await(c, at),
           at \in {"new", "body", "exit"},
           UNCHANGED <<tables, budget>>, ~Waiting(c),
           \/ /\ kind = "start" /\ ctx[c].at = "new" /\ at = "new"
              /\ ~Exists(run) /\ \A i \in DOMAIN calls : calls[i].run # run
           \/ /\ kind # "start" /\ ctx[c].at = "body" /\ run = ctx[c].run
              /\ \/ at = "body"
                 \/ at = "exit" /\ kind \in Ending
    PROVE  \E q : Sends(c, q, at)
<1> DEFINE q == [kind |-> kind, run |-> run, batch |-> batch,
                 at |-> "arrived", num |-> 0, held |-> 0]
<1> DEFINE p == [ctx[c] EXCEPT !.call = Len(calls) + 1, !.at = at]
<1>1. /\ ctx \in [Contexts -> Context] /\ ctx[c] \in Context
      /\ calls \in Seq(Call) /\ Len(calls) \in Nat
  BY ContextTypes DEF TablesTypeOK
<1>2. calls' = Append(calls, q) /\ ctx' = [ctx EXCEPT ![c] = p]
  BY <1>1 DEF Send, Await, Context
<1>3. q \in Call
  BY DEF Call
<1>4. p \in Context
  <2>1. Len(calls) + 1 \in Nat
    BY <1>1
  <2> QED
    BY <1>1, <2>1, AwaitType
<1>5. q.kind = kind /\ q.run = run /\ q.batch = batch /\ q.at = "arrived" /\ q.held = 0
  OBVIOUS
<1> HIDE DEF q
<1>6. Appended(q)
  BY <1>1, <1>2, <1>3, AppendShape
<1>7. Alone(c, p)
  <2> HIDE DEF p
  <2> QED
    BY <1>1, <1>2, <1>4, AloneShape
<1>8. UNCHANGED <<status, number, rows, timeouts, faults>>
  BY DEF tables, budget
<1> QED
  BY <1>3, <1>5, <1>6, <1>7, <1>8 DEF Sends

LEMMA ScriptSends ==
    ASSUME RunsInvariant, NEW c \in Contexts,
           Enter(c) \/ LogBatch(c) \/ EndInBody(c) \/ Exit(c)
    PROVE  RunsInvariant'
<1>1. TablesTypeOK /\ Informed(c) /\ None \notin Runs \union Batches
  BY RunsAssumption DEF RunsInvariant, RunsAssumption
<1>2. ctx[c].run \in Runs \union {None}
  BY <1>1, ContextTypes
<1>3. CASE Enter(c)
  <2>1. PICK r \in Runs : /\ ~Exists(r) /\ \A i \in DOMAIN calls : calls[i].run # r
                          /\ Send("start", r, None)
    BY <1>3 DEF Enter
  <2>2. /\ ctx[c].at = "new" /\ ~Waiting(c) /\ Await(c, "new")
        /\ UNCHANGED <<tables, budget>>
    BY <1>3 DEF Enter
  <2>3. \E q : Sends(c, q, "new")
    BY <1>1, <2>1, <2>2, SendShape DEF Kinds
  <2> QED
    BY <2>3, SendsKeeps
<1>4. ASSUME InBody(c), NEW kind \in Kinds, NEW batch \in Batches \union {None},
             kind # "start", kind = "append" <=> batch # None,
             NEW at, at = "body" \/ (at = "exit" /\ kind \in Ending),
             Send(kind, ctx[c].run, batch), Await(c, at), UNCHANGED <<tables, budget>>
      PROVE  RunsInvariant'
  <2>1. ctx[c].at = "body" /\ ~Waiting(c) /\ ctx[c].run \in Runs
    BY <1>1, <1>2, <1>4 DEF InBody, Informed
  <2>2. \E q : Sends(c, q, at)
    BY <1>1, <1>4, <2>1, SendShape
  <2> QED
    BY <2>2, SendsKeeps
<1>5. CASE LogBatch(c)
  <2>1. PICK b \in Batches : Send("append", ctx[c].run, b)
    BY <1>5 DEF LogBatch
  <2> QED
    BY <1>1, <1>4, <1>5, <2>1 DEF LogBatch, Kinds
<1>6. ASSUME InBody(c), NEW at \in {"body", "exit"}, EndOnce(c, at),
             UNCHANGED <<tables, budget>>
      PROVE  RunsInvariant'
  <2>1. PICK kind \in {"complete", "fail"} : Send(kind, ctx[c].run, None)
    BY <1>6 DEF EndOnce
  <2> QED
    BY <1>1, <1>4, <1>6, <2>1 DEF EndOnce, Kinds, Ending
<1>7. CASE EndInBody(c)
  BY <1>6, <1>7 DEF EndInBody
<1>8. ASSUME InBody(c), ctx[c].terminal, ctx' = [ctx EXCEPT ![c].at = "left"],
             UNCHANGED <<tables, calls, budget>>
      PROVE  RunsInvariant'
  <2> DEFINE q == [ctx[c] EXCEPT !.at = "left"]
  <2>1. ctx[c] \in Context /\ ctx \in [Contexts -> Context]
    BY <1>1, ContextTypes DEF TablesTypeOK
  <2>2. /\ ctx' = [ctx EXCEPT ![c] = q]
        /\ UNCHANGED <<status, number, rows, calls, timeouts, faults>>
    BY <1>8, <2>1 DEF tables, budget
  <2>3. q \in Context
    BY <2>1 DEF Context
  <2>4. /\ q.at = "left" /\ q.call = 0 /\ q.run = ctx[c].run
        /\ q.terminal = ctx[c].terminal /\ q.told = ctx[c].told
    BY <1>8, <2>1 DEF Context, InBody, Waiting
  <2> HIDE DEF q
  <2>5. Alone(c, q)
    BY <2>1, <2>2, <2>3, AloneShape
  <2>6. Informed(c)'
    BY <1>1, <1>8, <2>2, <2>4, <2>5 DEF Informed, Waiting, Alone, Exists
  <2>7. timeouts = 0 /\ q.terminal => status[q.run] = q.told
    BY <2>4 DEF RunsInvariant, Sequential
  <2>8. Hears(c, q)
    BY <1>1, <2>2, <2>3, <2>4, <2>5, <2>6, <2>7, FaultType DEF Hears
  <2> QED
    BY <2>8, HearsKeeps
<1>9. CASE Exit(c)
  BY <1>6, <1>8, <1>9 DEF Exit
<1> QED
  BY <1>3, <1>5, <1>7, <1>9

-----------------------------------------------------------------------------
(* A handler takes a step.                                                 *)

\* What these have in common: call i, which is not over, becomes q.
Serves(i, q) ==
    /\ q \in Call /\ Served(i, q)
    /\ q.kind = calls[i].kind /\ q.run = calls[i].run /\ q.batch = calls[i].batch
    /\ q.held # 0 => q.kind = "append" /\ q.at = "write"
    /\ calls[i].at \in {"arrived", "write"}
    /\ UNCHANGED <<ctx, timeouts>> /\ faults' \in 0..MaxFaults

\* What remains to be shown of a step of a handler.
LEMMA ServesKeeps ==
    ASSUME RunsInvariant, NEW i \in DOMAIN calls, NEW q, Serves(i, q),
           status' \in [Runs -> {"none", "RUNNING"} \union Terminal],
           number' \in [Runs -> Nat],
           rows' \in [Runs -> [Steps -> Batches \union {None}]],
           \A r \in Runs : status[r] # "none" => status'[r] # "none",
           \A r \in Runs : status[r] \in Terminal => status'[r] \in Terminal,
           Numbered', Created', Ended', Placed', BatchesDoNotMix',
           timeouts = 0 =>
             /\ \A j \in DOMAIN calls :
                  /\ calls'[j].at = "write" => status'[calls'[j].run] \notin Terminal
                  /\ calls'[j].kind \in Ending /\ calls'[j].at = "ok"
                       => status'[calls'[j].run] = EndStatus(calls'[j].kind)
             /\ \A c \in Contexts : ctx[c].terminal => status'[ctx[c].run] = ctx[c].told
    PROVE  RunsInvariant'
<1>1. /\ calls' \in Seq(Call) /\ DOMAIN calls' = DOMAIN calls /\ calls'[i] = q
      /\ \A j \in DOMAIN calls : j # i => calls'[j] = calls[j]
      /\ UNCHANGED <<ctx, timeouts>>
  BY DEF Serves, Served
<1>2. \A j \in DOMAIN calls :
        /\ calls'[j].kind = calls[j].kind /\ calls'[j].run = calls[j].run
        /\ calls'[j].batch = calls[j].batch
        /\ calls'[j].at \notin Finished => calls[j].at \notin Finished
  BY <1>1 DEF Serves, Finished
<1>3. TablesTypeOK'
  <2>1. \A j \in DOMAIN calls :
          /\ calls'[j].kind = "append" <=> calls'[j].batch # None
          /\ calls'[j].held # 0 => calls'[j].kind = "append" /\ calls'[j].at = "write"
    BY <1>1 DEF RunsInvariant, TablesTypeOK, Serves
  <2>2. faults' \in 0..MaxFaults
    BY DEF Serves
  <2> QED
    BY <1>1, <2>1, <2>2 DEF RunsInvariant, TablesTypeOK
<1>4. \A c \in Contexts : ctx[c].call # 0 =>
        /\ calls'[ctx[c].call].kind = calls[ctx[c].call].kind
        /\ calls'[ctx[c].call].run = calls[ctx[c].call].run
  BY <1>2 DEF RunsInvariant, TablesTypeOK
<1>5. Separate'
  BY <1>1, <1>2, <1>4 DEF RunsInvariant, Separate, Waiting
<1>6. ASSUME NEW c \in Contexts
      PROVE  Informed(c)'
  <2>1. Informed(c)
    BY DEF RunsInvariant
  <2>2. ctx[c].run # None => ctx[c].run \in Runs
    BY ContextTypes DEF RunsInvariant
  <2>3. /\ ctx[c].run # None => status'[ctx[c].run] # "none"
        /\ ctx[c].terminal => ctx[c].run # None /\ status'[ctx[c].run] \in Terminal
    <3>1. /\ ctx[c].run # None => status[ctx[c].run] # "none"
          /\ ctx[c].terminal => ctx[c].run # None /\ status[ctx[c].run] \in Terminal
      BY <2>1 DEF Informed, Exists
    <3> QED
      BY <2>2, <3>1
  <2> QED
    BY <1>1, <1>4, <2>1, <2>3 DEF Informed, Waiting, Exists
<1>7. Sequential'
  <2> SUFFICES ASSUME timeouts = 0 PROVE Sequential'
    BY <1>1 DEF Sequential
  <2>1. \A j, k \in DOMAIN calls :
          /\ calls'[j].at \notin Finished /\ calls'[k].at \notin Finished
          /\ calls'[j].run = calls'[k].run
          => j = k
    BY <1>2 DEF RunsInvariant, Sequential
  <2>2. \A j \in DOMAIN calls, c \in Contexts :
          /\ calls'[j].at \notin Finished
          /\ ctx[c].at = "body" /\ ctx[c].run = calls'[j].run
          => ctx[c].call = j
    BY <1>2 DEF RunsInvariant, Sequential
  <2> QED
    BY <1>1, <2>1, <2>2 DEF Sequential
<1> QED
  BY <1>3, <1>5, <1>6, <1>7 DEF RunsInvariant

\* A step that writes no table and does not end the call well.
LEMMA ServesOnly ==
    ASSUME RunsInvariant, NEW i \in DOMAIN calls, NEW q, Serves(i, q),
           UNCHANGED <<status, number, rows>>, q.at # "ok",
           q.kind = "start" /\ q.at = "write" => q.num \in 1..(Cardinality(Existing) + 1),
           timeouts = 0 /\ q.at = "write" => status[q.run] \notin Terminal
    PROVE  RunsInvariant'
<1>1. /\ DOMAIN calls' = DOMAIN calls /\ calls'[i] = q
      /\ \A j \in DOMAIN calls : j # i => calls'[j] = calls[j]
      /\ q.kind = calls[i].kind /\ q.run = calls[i].run
      /\ calls[i].at \in {"arrived", "write"}
  BY DEF Serves, Served
<1>2. /\ status \in [Runs -> {"none", "RUNNING"} \union Terminal]
      /\ number \in [Runs -> Nat]
      /\ rows \in [Runs -> [Steps -> Batches \union {None}]]
  BY DEF RunsInvariant, TablesTypeOK
<1>3. Numbered'
  BY <1>1 DEF RunsInvariant, Numbered, Existing, Exists, Numbers
<1>4. Created'
  BY <1>1 DEF RunsInvariant, Created, Exists
<1>5. Ended' /\ Placed' /\ BatchesDoNotMix'
  BY <1>1 DEF RunsInvariant, Ended, Placed, BatchesDoNotMix
<1>6. timeouts = 0 =>
        /\ \A j \in DOMAIN calls :
             /\ calls'[j].at = "write" => status[calls'[j].run] \notin Terminal
             /\ calls'[j].kind \in Ending /\ calls'[j].at = "ok"
                  => status[calls'[j].run] = EndStatus(calls'[j].kind)
        /\ \A c \in Contexts : ctx[c].terminal => status[ctx[c].run] = ctx[c].told
  BY <1>1 DEF RunsInvariant, Sequential
<1> QED
  BY <1>2, <1>3, <1>4, <1>5, <1>6, ServesKeeps

LEMMA ServingFacts ==
    ASSUME RunsInvariant, NEW i \in DOMAIN calls
    PROVE  /\ TablesTypeOK /\ calls \in Seq(Call) /\ calls[i] \in Call
           /\ calls[i].run \in Runs /\ calls[i].kind \in Kinds
           /\ calls[i].held \in Nat /\ calls[i].num \in Nat
           /\ calls[i].held # 0 => calls[i].kind = "append" /\ calls[i].at = "write"
           /\ faults \in 0..MaxFaults
           /\ faults < MaxFaults => faults + 1 \in 0..MaxFaults
<1>1. TablesTypeOK
  BY DEF RunsInvariant
<1> QED
  BY <1>1, CallTypes, FaultType DEF TablesTypeOK

\* The end of a handler, well or not.
Over(q, call, outcome) ==
    /\ q \in Call /\ q.at = outcome /\ q.held = 0
    /\ q.kind = call.kind /\ q.run = call.run /\ q.batch = call.batch

LEMMA FinishServes ==
    ASSUME RunsInvariant, NEW i \in DOMAIN calls, calls[i].at \in {"arrived", "write"},
           NEW outcome \in Finished, Finish(i, outcome),
           UNCHANGED <<ctx, timeouts>>, faults' \in 0..MaxFaults
    PROVE  \E q : Serves(i, q) /\ Over(q, calls[i], outcome)
<1> DEFINE q == [calls[i] EXCEPT !.at = outcome, !.held = 0]
<1>1. calls \in Seq(Call) /\ calls[i] \in Call
  BY ServingFacts
<1>2. calls' = [calls EXCEPT ![i] = q]
  BY <1>1 DEF Finish
<1>3. q \in Call
  BY <1>1 DEF Call
<1>4. /\ q.at = outcome /\ q.held = 0 /\ q.kind = calls[i].kind
      /\ q.run = calls[i].run /\ q.batch = calls[i].batch
  BY <1>1 DEF Call
<1> HIDE DEF q
<1>5. Served(i, q)
  BY <1>1, <1>2, <1>3, ServedShape
<1> QED
  BY <1>3, <1>4, <1>5 DEF Serves, Over

LEMMA FailureKeeps ==
    ASSUME RunsInvariant, NEW i \in DOMAIN calls, calls[i].at \in {"arrived", "write"},
           NEW outcome \in {"conflict", "error"}, Finish(i, outcome),
           UNCHANGED <<status, number, rows, ctx, timeouts>>, faults' \in 0..MaxFaults
    PROVE  RunsInvariant'
<1>1. PICK q : Serves(i, q) /\ Over(q, calls[i], outcome)
  BY FinishServes DEF Finished
<1> QED
  BY <1>1, ServesOnly DEF Over

\* What get_next_number returns.
LEMMA NextNumber ==
    ASSUME Numbered
    PROVE  SetMax(Numbers \union {0}) + 1 = Cardinality(Existing) + 1
<1> DEFINE n == Cardinality(Existing)
<1>1. n \in Nat
  BY FS_CardinalityType DEF Numbered
<1>2. Numbers \union {0} = 0..n
  BY <1>1 DEF Numbered
<1> HIDE DEF n
<1>3. n \in 0..n /\ \A m \in 0..n : m <= n
  BY <1>1
<1>4. \A k \in 0..n : (\A m \in 0..n : m <= k) => k = n
  BY <1>1, <1>3
<1>5. SetMax(0..n) \in 0..n /\ \A m \in 0..n : m <= SetMax(0..n)
  BY <1>3 DEF SetMax
<1>6. SetMax(0..n) = n
  BY <1>4, <1>5
<1> QED
  BY <1>2, <1>6 DEF n

LEMMA ReadNumberKeeps ==
    ASSUME RunsInvariant, NEW i \in DOMAIN calls, ReadNumber(i)
    PROVE  RunsInvariant'
<1> DEFINE n == SetMax(Numbers \union {0}) + 1
<1> DEFINE q == [calls[i] EXCEPT !.at = "write", !.num = n]
<1>1. /\ calls \in Seq(Call) /\ calls[i] \in Call /\ calls[i].run \in Runs
      /\ calls[i].held # 0 => calls[i].at = "write"
      /\ faults \in 0..MaxFaults
  BY ServingFacts
<1>2. /\ calls[i].kind = "start" /\ calls[i].at = "arrived"
      /\ UNCHANGED <<status, number, rows, ctx, timeouts, faults>>
  BY DEF ReadNumber, tables, budget
<1>3. n = Cardinality(Existing) + 1 /\ n \in Nat /\ n \in 1..(Cardinality(Existing) + 1)
  <2>1. Cardinality(Existing) \in Nat
    BY FS_CardinalityType DEF RunsInvariant, Numbered
  <2> QED
    BY <2>1, NextNumber DEF RunsInvariant
<1>4. calls' = [calls EXCEPT ![i] = q]
  BY <1>1 DEF ReadNumber
<1> HIDE DEF n
<1>5. q \in Call
  BY <1>1, <1>3 DEF Call
<1>6. /\ q.at = "write" /\ q.num = n /\ q.held = calls[i].held
      /\ q.kind = calls[i].kind /\ q.run = calls[i].run /\ q.batch = calls[i].batch
  BY <1>1 DEF Call
<1> HIDE DEF q
<1>7. Served(i, q)
  BY <1>1, <1>4, <1>5, ServedShape
<1>8. Serves(i, q)
  BY <1>1, <1>2, <1>5, <1>6, <1>7 DEF Serves
<1>9. status[q.run] \notin Terminal
  BY <1>2, <1>6 DEF RunsInvariant, Created, Exists, Terminal
<1> QED
  BY <1>2, <1>3, <1>6, <1>8, <1>9, ServesOnly

LEMMA ReadRunKeeps ==
    ASSUME RunsInvariant, NEW i \in DOMAIN calls, ReadRun(i)
    PROVE  RunsInvariant'
<1>1. /\ calls \in Seq(Call) /\ calls[i] \in Call /\ faults \in 0..MaxFaults
      /\ calls[i].held # 0 => calls[i].kind = "append" /\ calls[i].at = "write"
  BY ServingFacts
<1>2. /\ calls[i].kind # "start" /\ calls[i].at = "arrived"
      /\ UNCHANGED <<status, number, rows, ctx, timeouts, faults>>
  BY DEF ReadRun, tables, budget
<1>3. CASE Finish(i, "conflict")
  BY <1>1, <1>2, <1>3, FailureKeeps
<1>4. ASSUME status[calls[i].run] = "RUNNING", calls' = [calls EXCEPT ![i].at = "write"]
      PROVE  RunsInvariant'
  <2> DEFINE q == [calls[i] EXCEPT !.at = "write"]
  <2>1. q \in Call
    BY <1>1 DEF Call
  <2>2. /\ q.at = "write" /\ q.held = calls[i].held /\ q.batch = calls[i].batch
        /\ q.kind = calls[i].kind /\ q.run = calls[i].run
    BY <1>1 DEF Call
  <2>3. calls' = [calls EXCEPT ![i] = q]
    BY <1>1, <1>4
  <2> HIDE DEF q
  <2>4. Served(i, q)
    BY <1>1, <2>1, <2>3, ServedShape
  <2>5. Serves(i, q)
    BY <1>1, <1>2, <2>1, <2>2, <2>4 DEF Serves
  <2>6. status[q.run] \notin Terminal
    BY <1>4, <2>2 DEF Terminal
  <2> QED
    BY <1>2, <2>2, <2>5, <2>6, ServesOnly
<1> QED
  BY <1>3, <1>4 DEF ReadRun

LEMMA UpsertRowKeeps ==
    ASSUME RunsInvariant, NEW i \in DOMAIN calls, UpsertRow(i)
    PROVE  RunsInvariant'
<1> DEFINE q == [calls[i] EXCEPT !.held = @ + 1]
<1>1. /\ calls \in Seq(Call) /\ calls[i] \in Call /\ calls[i].held \in Nat
      /\ faults \in 0..MaxFaults
  BY ServingFacts
<1>2. /\ calls[i].kind = "append" /\ calls[i].at = "write"
      /\ UNCHANGED <<status, number, rows, ctx, timeouts, faults>>
      /\ calls' = [calls EXCEPT ![i].held = @ + 1]
  BY DEF UpsertRow, Appending, tables, budget
<1>3. calls' = [calls EXCEPT ![i] = q]
  BY <1>1, <1>2
<1>4. q \in Call
  <2>1. calls[i].held + 1 \in Nat
    BY <1>1
  <2> QED
    BY <1>1, <2>1 DEF Call
<1>5. /\ q.at = "write" /\ q.batch = calls[i].batch
      /\ q.kind = calls[i].kind /\ q.run = calls[i].run
  BY <1>1, <1>2 DEF Call
<1> HIDE DEF q
<1>6. Served(i, q)
  BY <1>1, <1>3, <1>4, ServedShape
<1>7. Serves(i, q)
  BY <1>1, <1>2, <1>4, <1>5, <1>6 DEF Serves
<1>8. timeouts = 0 => status[q.run] \notin Terminal
  BY <1>2, <1>5 DEF RunsInvariant, Sequential
<1> QED
  BY <1>2, <1>5, <1>7, <1>8, ServesOnly

LEMMA FailingKeeps ==
    ASSUME RunsInvariant, NEW i \in DOMAIN calls, AbortDeadlocked(i) \/ HandlerFails(i)
    PROVE  RunsInvariant'
<1>1. /\ calls[i] \in Call /\ faults \in 0..MaxFaults
      /\ faults < MaxFaults => faults + 1 \in 0..MaxFaults
  BY ServingFacts
<1>2. CASE AbortDeadlocked(i)
  <2>1. Appending(i)
    BY <1>2 DEF AbortDeadlocked, Deadlocked
  <2> QED
    BY <1>1, <1>2, <2>1, FailureKeeps
       DEF AbortDeadlocked, Rollback, Appending, tables, budget
<1>3. CASE HandlerFails(i)
  <2>1. calls[i].at \in {"arrived", "write"} /\ faults' \in 0..MaxFaults
    BY <1>1, <1>3 DEF HandlerFails, Call
  <2> QED
    BY <1>3, <2>1, FailureKeeps DEF HandlerFails, Rollback, tables
<1> QED
  BY <1>2, <1>3

\* A row with the next number.
LEMMA OneMoreRun ==
    ASSUME TablesTypeOK, Numbered, NEW r \in Runs, ~Exists(r),
           NEW n \in 1..(Cardinality(Existing) + 1), ~NumberTaken(n),
           status' = [status EXCEPT ![r] = "RUNNING"],
           number' = [number EXCEPT ![r] = n]
    PROVE  /\ Existing' = Existing \union {r}
           /\ IsFiniteSet(Existing')
           /\ Cardinality(Existing') = Cardinality(Existing) + 1
           /\ Numbers' = 1..Cardinality(Existing')
<1>1. /\ status \in [Runs -> {"none", "RUNNING"} \union Terminal]
      /\ number \in [Runs -> Nat]
  BY DEF TablesTypeOK
<1>2. /\ \A s \in Runs : s # r => status'[s] = status[s] /\ number'[s] = number[s]
      /\ status'[r] = "RUNNING" /\ number'[r] = n
  BY <1>1
<1>3. Existing' = Existing \union {r} /\ r \notin Existing
  BY <1>2 DEF Existing, Exists
<1>4. IsFiniteSet(Existing) /\ Numbers = 1..Cardinality(Existing)
  BY DEF Numbered
<1>5. /\ IsFiniteSet(Existing') /\ Cardinality(Existing') = Cardinality(Existing) + 1
      /\ Cardinality(Existing) \in Nat
  BY <1>3, <1>4, FS_AddElement, FS_CardinalityType
<1>6. n = Cardinality(Existing) + 1
  BY <1>4, <1>5 DEF NumberTaken
<1>7. Numbers' = Numbers \union {n}
  <2>1. Numbers' = {number'[s] : s \in Existing'}
    BY DEF Numbers, Existing
  <2>2. Numbers = {number[s] : s \in Existing}
    BY DEF Numbers, Existing
  <2>3. \A s \in Existing : number'[s] = number[s]
    BY <1>2, <1>3 DEF Existing
  <2> QED
    BY <1>2, <1>3, <2>1, <2>2, <2>3
<1>8. Numbers' = 1..(Cardinality(Existing) + 1)
  BY <1>4, <1>5, <1>6, <1>7
<1> QED
  BY <1>3, <1>5, <1>8

LEMMA InsertRunKeeps ==
    ASSUME RunsInvariant, NEW i \in DOMAIN calls, InsertRun(i)
    PROVE  RunsInvariant'
<1> DEFINE r == calls[i].run
<1> DEFINE n == calls[i].num
<1>1. /\ TablesTypeOK /\ faults \in 0..MaxFaults /\ calls[i] \in Call
      /\ r \in Runs /\ n \in Nat
  BY ServingFacts
<1>2. /\ calls[i].kind = "start" /\ calls[i].at = "write"
      /\ UNCHANGED <<ctx, timeouts, faults>>
  BY DEF InsertRun, budget
<1>3. ASSUME Finish(i, "error"), UNCHANGED tables
      PROVE  RunsInvariant'
  BY <1>1, <1>2, <1>3, FailureKeeps DEF tables
<1>4. ASSUME ~NumberTaken(n),
             status' = [status EXCEPT ![r] = "RUNNING"],
             number' = [number EXCEPT ![r] = n],
             Finish(i, "ok"), UNCHANGED rows
      PROVE  RunsInvariant'
  <2>1. PICK q : Serves(i, q) /\ Over(q, calls[i], "ok")
    BY <1>1, <1>2, <1>4, FinishServes DEF Finished
  <2>2. /\ DOMAIN calls' = DOMAIN calls /\ calls'[i] = q
        /\ \A j \in DOMAIN calls : j # i => calls'[j] = calls[j]
        /\ q.kind = "start" /\ q.run = r /\ q.at = "ok"
    BY <1>2, <2>1 DEF Serves, Served, Over
  <2>3. ~Exists(r)
    BY <1>2 DEF RunsInvariant, Created
  <2>4. Numbered /\ n \in 1..(Cardinality(Existing) + 1)
    BY <1>2 DEF RunsInvariant, Numbered
  <2> HIDE DEF r, n
  <2>5. /\ Existing' = Existing \union {r} /\ IsFiniteSet(Existing')
        /\ Cardinality(Existing') = Cardinality(Existing) + 1
        /\ Numbers' = 1..Cardinality(Existing')
    BY <1>1, <1>4, <2>3, <2>4, OneMoreRun
  <2>6. Cardinality(Existing) \in Nat
    BY <2>4, FS_CardinalityType DEF Numbered
  <2>7. Numbered'
    <3>1. ASSUME NEW j \in DOMAIN calls, calls'[j].kind = "start", calls'[j].at = "write"
          PROVE  calls'[j].num \in 1..(Cardinality(Existing') + 1)
      <4>1. calls[j].kind = "start" /\ calls[j].at = "write" /\ calls'[j] = calls[j]
        BY <2>2, <3>1
      <4>2. calls[j].num \in 1..(Cardinality(Existing) + 1)
        BY <2>4, <4>1 DEF Numbered
      <4> QED
        BY <2>5, <2>6, <4>1, <4>2
    <3> QED
      BY <2>2, <2>5, <3>1 DEF Numbered
  <2>8. /\ status \in [Runs -> {"none", "RUNNING"} \union Terminal]
        /\ number \in [Runs -> Nat]
        /\ rows \in [Runs -> [Steps -> Batches \union {None}]]
    BY <1>1 DEF TablesTypeOK
  <2>9. /\ status'[r] = "RUNNING" /\ status[r] = "none"
        /\ \A x \in Runs : x # r => status'[x] = status[x]
    BY <1>1, <1>4, <2>3, <2>8 DEF Exists
  <2>10. \A j \in DOMAIN calls : j # i /\ calls[j].run = r =>
           calls[j].kind # "start"
    BY <1>2 DEF RunsInvariant, Created, r
  <2>11. \A j \in DOMAIN calls : calls[j].run \in Runs
    BY <1>1, CallTypes
  <2>12. \A j \in DOMAIN calls : j # i /\ calls[j].run = r => FALSE
    BY <2>3, <2>10 DEF RunsInvariant, Created
  <2>13. Created'
    BY <2>2, <2>9, <2>11, <2>12 DEF RunsInvariant, Created, Exists
  <2>14. Ended'
    BY <2>2, <2>9, <2>11, <2>12 DEF RunsInvariant, Ended, Ending
  <2>15. Placed' /\ BatchesDoNotMix'
    BY <1>4 DEF RunsInvariant, Placed, BatchesDoNotMix
  <2>16. "none" \notin Terminal /\ "RUNNING" \notin Terminal
    BY DEF Terminal
  <2>17. timeouts = 0 =>
        /\ \A j \in DOMAIN calls :
             /\ calls'[j].at = "write" => status'[calls'[j].run] \notin Terminal
             /\ calls'[j].kind \in Ending /\ calls'[j].at = "ok"
                  => status'[calls'[j].run] = EndStatus(calls'[j].kind)
        /\ \A c \in Contexts : ctx[c].terminal => status'[ctx[c].run] = ctx[c].told
    <3> SUFFICES ASSUME timeouts = 0
                 PROVE  /\ \A j \in DOMAIN calls :
                             /\ calls'[j].at = "write" => status'[calls'[j].run] \notin Terminal
                             /\ calls'[j].kind \in Ending /\ calls'[j].at = "ok"
                                  => status'[calls'[j].run] = EndStatus(calls'[j].kind)
                        /\ \A c \in Contexts :
                             ctx[c].terminal => status'[ctx[c].run] = ctx[c].told
      OBVIOUS
    <3>1. \A j \in DOMAIN calls :
             /\ calls'[j].at = "write" => status'[calls'[j].run] \notin Terminal
             /\ calls'[j].kind \in Ending /\ calls'[j].at = "ok"
                  => status'[calls'[j].run] = EndStatus(calls'[j].kind)
      BY <2>2, <2>9, <2>11, <2>12 DEF RunsInvariant, Sequential, Ending
    <3>2. ASSUME NEW c \in Contexts, ctx[c].terminal
          PROVE  status'[ctx[c].run] = ctx[c].told
      <4>1. status[ctx[c].run] \in Terminal /\ ctx[c].run # None
        BY <3>2 DEF RunsInvariant, Informed
      <4>2. ctx[c].run \in Runs /\ ctx[c].run # r
        BY <1>1, <2>9, <2>16, <4>1, ContextTypes
      <4> QED
        BY <2>9, <3>2, <4>2 DEF RunsInvariant, Sequential
    <3> QED
      BY <3>1, <3>2
  <2>18. /\ status' \in [Runs -> {"none", "RUNNING"} \union Terminal]
         /\ number' \in [Runs -> Nat]
         /\ rows' \in [Runs -> [Steps -> Batches \union {None}]]
    BY <1>1, <1>4, <2>8
  <2>19. /\ \A x \in Runs : status[x] # "none" => status'[x] # "none"
         /\ \A x \in Runs : status[x] \in Terminal => status'[x] \in Terminal
    BY <2>9, <2>16
  <2> QED
    BY <2>1, <2>7, <2>13, <2>14, <2>15, <2>17, <2>18, <2>19, ServesKeeps
<1> QED
  BY <1>3, <1>4 DEF InsertRun

LEMMA EndRunKeeps ==
    ASSUME RunsInvariant, NEW i \in DOMAIN calls, EndRun(i)
    PROVE  RunsInvariant'
<1> DEFINE r == calls[i].run
<1> DEFINE s == EndStatus(calls[i].kind)
<1>1. /\ TablesTypeOK /\ faults \in 0..MaxFaults /\ calls[i] \in Call /\ r \in Runs
  BY ServingFacts
<1>2. /\ calls[i].kind \in Ending /\ calls[i].at = "write"
      /\ UNCHANGED <<number, rows, ctx, timeouts, faults>>
      /\ status' = [status EXCEPT ![r] = s] /\ Finish(i, "ok")
  BY DEF EndRun, Ending, EndStatus, budget
<1>3. s \in Terminal
  BY DEF EndStatus, Terminal
<1>4. PICK q : Serves(i, q) /\ Over(q, calls[i], "ok")
  BY <1>1, <1>2, FinishServes DEF Finished
<1>5. /\ DOMAIN calls' = DOMAIN calls /\ calls'[i] = q
      /\ \A j \in DOMAIN calls : j # i => calls'[j] = calls[j]
      /\ q.kind = calls[i].kind /\ q.run = r /\ q.at = "ok"
  BY <1>4 DEF Serves, Served, Over
<1>6. Exists(r)
  BY <1>2 DEF RunsInvariant, Created, Ending
<1>7. s = EndStatus(q.kind) /\ q.kind \in Ending
  BY <1>2, <1>5
<1>8. /\ status \in [Runs -> {"none", "RUNNING"} \union Terminal]
      /\ number \in [Runs -> Nat]
      /\ rows \in [Runs -> [Steps -> Batches \union {None}]]
  BY <1>1 DEF TablesTypeOK
<1>9. timeouts = 0 => status[r] \notin Terminal
  BY <1>2 DEF RunsInvariant, Sequential
<1>10. \A j \in DOMAIN calls : calls[j].run \in Runs
  BY <1>1, CallTypes
<1>11. timeouts = 0 =>
         \A j \in DOMAIN calls : j # i /\ calls[j].run = r => calls[j].at # "write"
  BY <1>2 DEF RunsInvariant, Sequential, Finished
<1> HIDE DEF r, s
<1>12. status'[r] = s /\ \A x \in Runs : x # r => status'[x] = status[x]
  BY <1>1, <1>2, <1>8
<1>13. "none" \notin Terminal /\ s # "none"
  BY <1>3 DEF Terminal
<1>14. \A x \in Runs : status[x] # "none" <=> status'[x] # "none"
  BY <1>6, <1>12, <1>13 DEF Exists
<1>15. Numbered'
  <2>1. Existing' = Existing
    BY <1>14 DEF Existing, Exists
  <2>2. Numbers' = Numbers
    BY <1>2, <1>14 DEF Numbers, Exists
  <2> QED
    BY <1>5, <2>1, <2>2 DEF RunsInvariant, Numbered
<1>16. Created'
  <2>1. Created /\ q.kind # "start"
    BY <1>7 DEF RunsInvariant, Ending
  <2>2. ASSUME NEW j \in DOMAIN calls
        PROVE  /\ calls'[j].kind = "start" /\ calls'[j].at \in {"arrived", "write"}
                    => status'[calls'[j].run] = "none"
               /\ calls'[j].kind # "start" \/ calls'[j].at = "ok"
                    => status'[calls'[j].run] # "none"
    <3>1. CASE j = i
      BY <1>5, <1>12, <1>13, <2>1, <3>1
    <3>2. CASE j # i
      <4>1. /\ calls'[j] = calls[j] /\ calls[j].run \in Runs
            /\ status'[calls[j].run] # "none" <=> status[calls[j].run] # "none"
        BY <1>5, <1>10, <1>14, <3>2
      <4> QED
        BY <2>1, <4>1 DEF Created, Exists
    <3> QED
      BY <3>1, <3>2
  <2>3. \A j \in DOMAIN calls : calls'[j].kind = calls[j].kind /\ calls'[j].run = calls[j].run
    BY <1>5 DEF r
  <2> QED
    BY <1>5, <2>1, <2>2, <2>3 DEF Created, Exists
<1>17. Ended'
  BY <1>3, <1>5, <1>10, <1>12 DEF RunsInvariant, Ended
<1>18. Placed' /\ BatchesDoNotMix'
  BY <1>2 DEF RunsInvariant, Placed, BatchesDoNotMix
<1>19. ASSUME timeouts = 0
       PROVE  /\ \A j \in DOMAIN calls :
                   /\ calls'[j].at = "write" => status'[calls'[j].run] \notin Terminal
                   /\ calls'[j].kind \in Ending /\ calls'[j].at = "ok"
                        => status'[calls'[j].run] = EndStatus(calls'[j].kind)
              /\ \A c \in Contexts : ctx[c].terminal => status'[ctx[c].run] = ctx[c].told
  <2>1. Sequential /\ Ended /\ status[r] \notin Terminal
    BY <1>9, <1>19 DEF RunsInvariant
  <2>2. ASSUME NEW j \in DOMAIN calls
        PROVE  /\ calls'[j].at = "write" => status'[calls'[j].run] \notin Terminal
               /\ calls'[j].kind \in Ending /\ calls'[j].at = "ok"
                    => status'[calls'[j].run] = EndStatus(calls'[j].kind)
    <3>1. CASE j = i
      BY <1>5, <1>7, <1>12, <3>1
    <3>2. CASE j # i /\ calls[j].run = r
      BY <1>5, <1>11, <1>19, <2>1, <3>2 DEF Ended
    <3>3. CASE j # i /\ calls[j].run # r
      <4>1. calls'[j] = calls[j] /\ status'[calls[j].run] = status[calls[j].run]
        BY <1>5, <1>10, <1>12, <3>3
      <4> QED
        BY <1>19, <2>1, <4>1 DEF Sequential
    <3> QED
      BY <3>1, <3>2, <3>3
  <2>3. ASSUME NEW c \in Contexts, ctx[c].terminal
        PROVE  status'[ctx[c].run] = ctx[c].told
    <3>1. status[ctx[c].run] \in Terminal /\ ctx[c].run # None
      BY <2>3 DEF RunsInvariant, Informed
    <3>2. ctx[c].run \in Runs /\ ctx[c].run # r
      BY <1>1, <2>1, <3>1, ContextTypes
    <3> QED
      BY <1>12, <1>19, <2>1, <2>3, <3>2 DEF Sequential
  <2> QED
    BY <2>2, <2>3
<1>20. status' \in [Runs -> {"none", "RUNNING"} \union Terminal]
  BY <1>1, <1>2, <1>3, <1>8
<1>21. /\ number' \in [Runs -> Nat] /\ rows' \in [Runs -> [Steps -> Batches \union {None}]]
       /\ \A x \in Runs : status[x] # "none" => status'[x] # "none"
       /\ \A x \in Runs : status[x] \in Terminal => status'[x] \in Terminal
  BY <1>2, <1>3, <1>8, <1>12, <1>14
<1> QED
  BY <1>4, <1>15, <1>16, <1>17, <1>18, <1>19, <1>20, <1>21, ServesKeeps

LEMMA CommitBatchKeeps ==
    ASSUME RunsInvariant, NEW i \in DOMAIN calls, CommitBatch(i)
    PROVE  RunsInvariant'
<1> DEFINE r == calls[i].run
<1> DEFINE b == calls[i].batch
<1>1. /\ TablesTypeOK /\ faults \in 0..MaxFaults /\ calls[i] \in Call /\ r \in Runs
  BY ServingFacts
<1>2. /\ calls[i].kind = "append" /\ calls[i].at = "write"
      /\ calls[i].held = Len(StepsOf[b])
      /\ UNCHANGED <<status, number, ctx, timeouts, faults>> /\ Finish(i, "ok")
      /\ rows' = [rows EXCEPT ![r] = [s \in Steps |-> IF Holds(i, r, s) THEN b ELSE @[s]]]
  BY DEF CommitBatch, Appending, Items, budget
<1>3. b \in Batches
  <2>1. b # None
    BY <1>1, <1>2 DEF TablesTypeOK
  <2> QED
    BY <1>1, <2>1 DEF Call
<1>4. StepsOf[b] \in Seq(Steps) /\ DOMAIN StepsOf[b] = 1..Len(StepsOf[b])
  BY <1>3, RunsAssumption, LenProperties DEF RunsAssumption
<1>5. \A s \in Steps : Holds(i, r, s) <=> \E k \in DOMAIN StepsOf[b] : StepsOf[b][k] = s
  BY <1>2, <1>4 DEF Holds, Items
<1>6. PICK q : Serves(i, q) /\ Over(q, calls[i], "ok")
  BY <1>1, <1>2, FinishServes DEF Finished
<1>7. /\ DOMAIN calls' = DOMAIN calls /\ calls'[i] = q
      /\ \A j \in DOMAIN calls : j # i => calls'[j] = calls[j]
      /\ q.kind = "append" /\ q.run = r /\ q.at = "ok"
  BY <1>2, <1>6 DEF Serves, Served, Over
<1>8. /\ status \in [Runs -> {"none", "RUNNING"} \union Terminal]
      /\ number \in [Runs -> Nat]
      /\ rows \in [Runs -> [Steps -> Batches \union {None}]]
  BY <1>1 DEF TablesTypeOK
<1>9. Exists(r)
  BY <1>2 DEF RunsInvariant, Created
<1> HIDE DEF r, b
<1>10. /\ rows' \in [Runs -> [Steps -> Batches \union {None}]]
       /\ \A x \in Runs : x # r => rows'[x] = rows[x]
       /\ \A s \in Steps : rows'[r][s] = IF Holds(i, r, s) THEN b ELSE rows[r][s]
  BY <1>1, <1>2, <1>3, <1>8
<1>11. Numbered'
  BY <1>2, <1>7 DEF RunsInvariant, Numbered, Existing, Exists, Numbers
<1>12. Created' /\ Ended'
  BY <1>2, <1>7, <1>9 DEF RunsInvariant, Created, Ended, Exists, Ending
<1>13. Placed'
  <2> SUFFICES ASSUME NEW x \in Runs, NEW s \in Steps, rows'[x][s] # None
               PROVE  \E k \in DOMAIN StepsOf[rows'[x][s]] : StepsOf[rows'[x][s]][k] = s
    BY DEF Placed
  <2>1. CASE x = r /\ Holds(i, r, s)
    BY <1>5, <1>10, <2>1
  <2>2. CASE ~(x = r /\ Holds(i, r, s))
    <3>1. rows'[x][s] = rows[x][s]
      BY <1>10, <2>2
    <3> QED
      BY <3>1 DEF RunsInvariant, Placed
  <2> QED
    BY <2>1, <2>2
<1>14. BatchesDoNotMix'
  <2> SUFFICES ASSUME NEW x \in Runs, NEW s \in Steps, NEW t \in Steps,
                      rows'[x][s] # None, rows'[x][t] # None,
                      SameSteps(rows'[x][s], rows'[x][t])
               PROVE  rows'[x][s] = rows'[x][t]
    BY DEF BatchesDoNotMix, SameSteps
  <2>1. \A u, v \in Steps :
          rows[x][u] # None /\ rows[x][v] # None /\ SameSteps(rows[x][u], rows[x][v])
            => rows[x][u] = rows[x][v]
    BY DEF RunsInvariant, BatchesDoNotMix
  <2>2. CASE x # r
    BY <1>10, <2>1, <2>2
  <2>3. ASSUME NEW u \in Steps, NEW v \in Steps, x = r, Holds(i, r, u), ~Holds(i, r, v),
               rows'[x][v] # None, SameSteps(rows'[x][u], rows'[x][v])
        PROVE  FALSE
    <3>1. rows'[x][u] = b /\ rows'[x][v] = rows[r][v]
      BY <1>10, <2>3
    <3>2. \E k \in DOMAIN StepsOf[rows[r][v]] : StepsOf[rows[r][v]][k] = v
      BY <1>1, <2>3, <3>1 DEF RunsInvariant, Placed
    <3>3. v \in {StepsOf[b][k] : k \in DOMAIN StepsOf[b]}
      BY <2>3, <3>1, <3>2 DEF SameSteps
    <3> QED
      BY <1>5, <2>3, <3>3
  <2>4. SameSteps(rows'[x][t], rows'[x][s])
    BY DEF SameSteps
  <2>5. CASE x = r
    <3>1. CASE Holds(i, r, s) /\ Holds(i, r, t)
      BY <1>10, <2>5, <3>1
    <3>2. CASE ~Holds(i, r, s) /\ ~Holds(i, r, t)
      BY <1>10, <2>1, <2>5, <3>2
    <3> QED
      BY <2>3, <2>4, <2>5, <3>1, <3>2
  <2> QED
    BY <2>2, <2>5
<1>15. timeouts = 0 =>
        /\ \A j \in DOMAIN calls :
             /\ calls'[j].at = "write" => status'[calls'[j].run] \notin Terminal
             /\ calls'[j].kind \in Ending /\ calls'[j].at = "ok"
                  => status'[calls'[j].run] = EndStatus(calls'[j].kind)
        /\ \A c \in Contexts : ctx[c].terminal => status'[ctx[c].run] = ctx[c].told
  BY <1>2, <1>7 DEF RunsInvariant, Sequential, Ending
<1>16. /\ \A x \in Runs : status[x] # "none" => status'[x] # "none"
       /\ \A x \in Runs : status[x] \in Terminal => status'[x] \in Terminal
       /\ status' \in [Runs -> {"none", "RUNNING"} \union Terminal]
       /\ number' \in [Runs -> Nat]
  BY <1>2, <1>8
<1> QED
  BY <1>6, <1>10, <1>11, <1>12, <1>13, <1>14, <1>15, <1>16, ServesKeeps

-----------------------------------------------------------------------------
(* The invariant.                                                          *)

LEMMA RunsInit ==
    ASSUME Init
    PROVE  RunsInvariant
<1>1. calls = <<>> /\ calls \in Seq(Call) /\ DOMAIN calls = {}
  BY EmptySeq DEF Init
<1>2. /\ status = [r \in Runs |-> "none"] /\ number = [r \in Runs |-> 0]
      /\ rows = [r \in Runs |-> [s \in Steps |-> None]]
      /\ ctx = [c \in Contexts |-> [at |-> "new", run |-> None, call |-> 0,
                                    terminal |-> FALSE, told |-> "RUNNING", clean |-> TRUE]]
      /\ timeouts = 0 /\ faults = 0
  BY DEF Init
<1>3. \A c \in Contexts : /\ ctx[c] \in Context /\ ctx[c].at = "new" /\ ctx[c].run = None
                          /\ ctx[c].call = 0 /\ ctx[c].terminal = FALSE
  BY <1>2 DEF Context
<1>4. TablesTypeOK
  <2>1. /\ status \in [Runs -> {"none", "RUNNING"} \union Terminal]
        /\ number \in [Runs -> Nat]
        /\ rows \in [Runs -> [Steps -> Batches \union {None}]]
    BY <1>2
  <2>2. ctx \in [Contexts -> Context]
    BY <1>2, <1>3
  <2>3. timeouts \in 0..MaxTimeouts /\ faults \in 0..MaxFaults
    BY <1>2, RunsAssumption DEF RunsAssumption
  <2>4. \A c \in Contexts : ctx[c].call \in {0} \union DOMAIN calls
    BY <1>3
  <2>5. \A i \in DOMAIN calls :
          /\ calls[i].kind = "append" <=> calls[i].batch # None
          /\ calls[i].held # 0 => calls[i].kind = "append" /\ calls[i].at = "write"
    BY <1>1
  <2> QED
    BY <1>1, <2>1, <2>2, <2>3, <2>4, <2>5 DEF TablesTypeOK
<1>5. Existing = {} /\ Numbers = {}
  BY <1>2 DEF Existing, Numbers, Exists
<1>6. Numbered
  BY <1>1, <1>5, FS_EmptySet DEF Numbered
<1>7. Created /\ Ended /\ Separate
  BY <1>1, <1>3 DEF Created, Ended, Separate, Waiting
<1>8. \A c \in Contexts : Informed(c)
  BY <1>3 DEF Informed, Waiting
<1>9. Sequential
  BY <1>1, <1>3 DEF Sequential
<1>10. Placed /\ BatchesDoNotMix
  BY <1>2 DEF Placed, BatchesDoNotMix
<1> QED
  BY <1>4, <1>6, <1>7, <1>8, <1>9, <1>10 DEF RunsInvariant

\* The experiment page only reads.
LEMMA PageReads ==
    ASSUME AskPage \/ ListRuns \/ ReadSteps \/ ShowPage
    PROVE  UNCHANGED <<status, number, rows, calls, ctx, timeouts, faults>>
BY DEF AskPage, ListRuns, ReadSteps, ShowPage, tables, budget

LEMMA StutterKeeps ==
    ASSUME RunsInvariant, UNCHANGED <<status, number, rows, calls, ctx, timeouts, faults>>
    PROVE  RunsInvariant'
<1>1. TablesTypeOK'
  BY DEF RunsInvariant, TablesTypeOK
<1>2. Numbered' /\ Created' /\ Ended'
  BY DEF RunsInvariant, Numbered, Existing, Numbers, Exists, Created, Ended
<1>3. Separate' /\ \A c \in Contexts : Informed(c)'
  BY DEF RunsInvariant, Separate, Informed, Waiting, Exists
<1>4. Sequential'
  BY DEF RunsInvariant, Sequential
<1>5. Placed' /\ BatchesDoNotMix'
  BY DEF RunsInvariant, Placed, BatchesDoNotMix
<1> QED
  BY <1>1, <1>2, <1>3, <1>4, <1>5 DEF RunsInvariant

LEMMA HandlerKeeps ==
    ASSUME RunsInvariant, NEW i \in DOMAIN calls, Handle(i) \/ HandlerFails(i)
    PROVE  RunsInvariant'
BY ReadNumberKeeps, InsertRunKeeps, ReadRunKeeps, EndRunKeeps, UpsertRowKeeps,
   CommitBatchKeeps, FailingKeeps DEF Handle

LEMMA RunsStep ==
    ASSUME RunsInvariant, [Next]_vars
    PROVE  RunsInvariant'
<1>1. CASE AskPage \/ ListRuns \/ ReadSteps \/ ShowPage
  BY <1>1, PageReads, StutterKeeps
<1>2. ASSUME NEW c \in Contexts, Enter(c) \/ LogBatch(c) \/ EndInBody(c) \/ Exit(c)
      PROVE  RunsInvariant'
  BY <1>2, ScriptSends
<1>3. ASSUME NEW c \in Contexts, Deliver(c) \/ LoseAnswer(c) \/ TimeOut(c)
      PROVE  RunsInvariant'
  BY <1>3, ScriptHears
<1>4. ASSUME NEW c \in Contexts, Kill(c)
      PROVE  RunsInvariant'
  BY <1>4, KillKeeps
<1>5. ASSUME NEW i \in DOMAIN calls, Handle(i) \/ HandlerFails(i)
      PROVE  RunsInvariant'
  BY <1>5, HandlerKeeps
<1>6. CASE UNCHANGED vars
  BY <1>6, StutterKeeps DEF vars
<1> QED
  BY <1>1, <1>2, <1>3, <1>4, <1>5, <1>6 DEF Next

\* Every state has typed tables and contexts, runs that are numbered without gaps and
\* created by one call each, scripts that know their runs and do not share them, and,
\* unless a script has given up on a call, one call at a time per run.
THEOREM RunsCorrect == Spec => []RunsInvariant
<1>1. Init => RunsInvariant
  BY RunsInit
<1>2. RunsInvariant /\ [Next]_vars => RunsInvariant'
  BY RunsStep
<1> QED
  BY <1>1, <1>2, PTL DEF Spec

-----------------------------------------------------------------------------
(* What follows from it.                                                   *)

\* Handlers that read the same highest number cannot both INSERT the next: the numbers of
\* the runs are 1..n for n runs, whatever overlaps, fails or is given up.
THEOREM NumbersStayConsecutive == Spec => []NumbersAreConsecutive
<1>1. RunsInvariant => NumbersAreConsecutive
  <2> SUFFICES ASSUME RunsInvariant PROVE NumbersAreConsecutive
    OBVIOUS
  <2>1. IsFiniteSet(Existing) /\ Numbers = 1..Cardinality(Existing)
    BY DEF RunsInvariant, Numbered
  <2>2. Cardinality(Existing) \in Nat
    BY <2>1, FS_CardinalityType
  <2>3. Cardinality(Numbers) = Cardinality(Existing)
    BY <2>1, <2>2, FS_Interval
  <2> QED
    BY <2>1, <2>3 DEF NumbersAreConsecutive, Existing
<1> QED
  BY <1>1, RunsCorrect, PTL

\* A script that leaves its with statement without an error of the SDK leaves an ended run,
\* and, unless a script has given up on a call, one that ended as the script was told.
THEOREM CleanExitsEnd == Spec => []CleanExitsEndTheRun
<1>1. RunsInvariant => CleanExitsEndTheRun
  BY DEF RunsInvariant, Informed, Sequential, CleanExitsEndTheRun
<1> QED
  BY <1>1, RunsCorrect, PTL

\* Rows are written by whole batches of their own steps, so two batches of the same steps
\* never show side by side.
THEOREM BatchesStayApart == Spec => []BatchesDoNotMix
<1>1. RunsInvariant => BatchesDoNotMix
  BY DEF RunsInvariant
<1> QED
  BY <1>1, RunsCorrect, PTL

LEMMA EndedStays ==
    ASSUME RunsInvariant, Next, timeouts = 0, NEW r \in Runs, status[r] \in Terminal
    PROVE  Frozen(r)
<1>1. /\ status \in [Runs -> {"none", "RUNNING"} \union Terminal]
      /\ rows \in [Runs -> [Steps -> Batches \union {None}]]
  BY DEF RunsInvariant, TablesTypeOK
<1>2. CASE UNCHANGED <<status, rows>>
  BY <1>2 DEF Frozen
<1>3. ASSUME NEW i \in DOMAIN calls, InsertRun(i)
      PROVE  Frozen(r)
  <2>1. ~Exists(calls[i].run)
    BY <1>3 DEF RunsInvariant, Created, InsertRun
  <2>2. calls[i].run # r
    BY <2>1 DEF Exists, Terminal
  <2> QED
    BY <1>1, <1>3, <2>2 DEF InsertRun, tables, Frozen
<1>4. ASSUME NEW i \in DOMAIN calls, EndRun(i) \/ CommitBatch(i)
      PROVE  Frozen(r)
  <2>1. calls[i].at = "write"
    BY <1>4 DEF EndRun, CommitBatch, Appending
  <2>2. calls[i].run # r
    BY <2>1 DEF RunsInvariant, Sequential
  <2> QED
    BY <1>1, <1>4, <2>2 DEF EndRun, CommitBatch, Frozen
<1>5. CASE AskPage \/ ListRuns \/ ReadSteps \/ ShowPage
  BY <1>2, <1>5, PageReads
<1>6. ASSUME NEW c \in Contexts,
             \/ Enter(c) \/ LogBatch(c) \/ EndInBody(c) \/ Exit(c)
             \/ Deliver(c) \/ LoseAnswer(c) \/ TimeOut(c) \/ Kill(c)
      PROVE  UNCHANGED <<status, rows>>
  BY <1>6 DEF Enter, LogBatch, EndInBody, Exit, Deliver, LoseAnswer, TimeOut, Kill, tables
<1>7. ASSUME NEW i \in DOMAIN calls,
             \/ ReadNumber(i) \/ ReadRun(i) \/ UpsertRow(i) \/ AbortDeadlocked(i)
             \/ HandlerFails(i)
      PROVE  UNCHANGED <<status, rows>>
  BY <1>7 DEF ReadNumber, ReadRun, UpsertRow, AbortDeadlocked, HandlerFails, tables
<1> QED
  BY <1>2, <1>3, <1>4, <1>5, <1>6, <1>7 DEF Next, Handle

\* As long as no script has given up on a call, no statement writes to an ended run: the
\* calls of a run come one at a time, and each has found it running.
THEOREM EndedStaysEnded == Spec => EndedRunsAreFrozen
<1> DEFINE Freeze == timeouts = 0 => \A r \in Runs : status[r] \in Terminal => Frozen(r)
<1>1. RunsInvariant /\ Next => Freeze
  BY EndedStays
<1>2. RunsInvariant /\ [Next]_vars => [Freeze]_vars
  BY <1>1
<1>3. Spec => [][Freeze]_vars
  BY <1>2, RunsCorrect, PTL DEF Spec
<1> QED
  BY <1>3 DEF EndedRunsAreFrozen

-----------------------------------------------------------------------------
(* The experiment page.  It reads the rows by one statement and the steps   *)
(* of each run by another, while calls go on, so what it holds is of        *)
(* several states.                                                          *)

\* The rows a listing has found, as runs.
Listed(st) == {r \in Runs : st[r] # "none"}

\* The value by which order o sorts run r of a listing that found st, and which of two
\* values it shows first.
KeyIn(o, num, st, r) ==
    IF o.by = "run_number" THEN num[r]
    ELSE CHOOSE k \in 1..3 : <<"COMPLETED", "FAILED", "RUNNING">>[k] = st[r]

GoesFirst(o, a, b) == IF o.dir = "asc" THEN a < b ELSE a > b

\* The runs shown ahead of r.
AheadIn(o, num, st, r) ==
    {s \in Listed(st) :
        \/ GoesFirst(o, KeyIn(o, num, st, s), KeyIn(o, num, st, r))
        \/ ~GoesFirst(o, KeyIn(o, num, st, r), KeyIn(o, num, st, s)) /\ num[s] > num[r]}

\* What a listing has found is still so, but for runs that have ended since.
Found ==
    \A k \in DOMAIN page.reads, r \in Runs :
        /\ page.reads[k][r] # "none" => Exists(r)
        /\ timeouts = 0 /\ page.reads[k][r] \in Terminal => status[r] = page.reads[k][r]

\* What is left of one request when the next one comes.
Rests ==
    /\ page.reads = <<>> => page.walk = <<>> /\ page.offset = 0
    /\ page.at = "closed" => page.reads = <<>>
    /\ page.at \in {"building", "shown"} => page.reads # <<>>
    /\ page.at # "building" => page.items = <<>>

\* The k-th run of a listing of which some items are built.
Entry(items, todo, k) == IF k <= Len(items) THEN items[k].run ELSE todo[k - Len(items)]

\* A listing of st holds every run it has found once, by number.
Lists(num, st, items, todo) ==
    LET all == Len(items) + Len(todo) IN
    /\ all = Cardinality(Listed(st))
    /\ \A k \in 1..all : Entry(items, todo, k) \in Listed(st)
    /\ \A i, j \in 1..all : i < j => num[Entry(items, todo, i)] > num[Entry(items, todo, j)]
    /\ \A i \in 1..Len(items) : items[i].status = st[items[i].run]

Built == page.at = "building" =>
    Lists(number, page.reads[Len(page.reads)], page.items, page.todo)

\* All listings of the walk have found the same.
Steady == \A i \in DOMAIN page.reads : page.reads[i] = page.reads[1]

\* The pages shown so far are the beginning of one order of the runs.
Walking == Steady /\ page.reads # <<>> =>
    LET st  == page.reads[1]
        all == Cardinality(Listed(st))
    IN /\ page.at # "shown" => Len(page.walk) = page.offset /\ page.offset <= all
       /\ page.at = "shown" =>
            /\ page.total = all
            /\ Len(page.walk) = IF page.offset + PageSize <= all THEN page.offset + PageSize ELSE all
       /\ \A k \in 1..Len(page.walk) :
            /\ page.walk[k].run \in Listed(st)
            /\ Cardinality(AheadIn(page.order, number, st, page.walk[k].run)) = k - 1

\* A run that is shown to have ended is shown with what it logged last.
LatestIn(row) ==
    LET logged == {s \in Steps : row[s] # None}
    IN IF logged = {} THEN None ELSE row[SetMax(logged)]

Final(st, table, v) ==
    v.status \in Terminal => st[v.run] \in Terminal /\ v.latest = LatestIn(table[v.run])

Finals == timeouts = 0 =>
    /\ \A i \in 1..Len(page.items) : Final(status, rows, page.items[i])
    /\ \A i \in 1..Len(page.walk) : Final(status, rows, page.walk[i])

PagesInvariant == page \in Page /\ Found /\ Rests /\ Built /\ Walking /\ Finals

\* Among n things that are totally ordered, as many are ahead of the k-th as k - 1.
LEMMA Ranks ==
    ASSUME NEW n \in Nat, NEW A \in [1..n -> SUBSET (1..n)],
           \A i \in 1..n : i \notin A[i],
           \A i, j \in 1..n : i \in A[j] => A[i] \subseteq A[j],
           \A i, j \in 1..n : i # j => i \in A[j] \/ j \in A[i]
    PROVE  \A k \in 1..n : \E i \in 1..n : Cardinality(A[i]) = k - 1
<1> DEFINE c == [i \in 1..n |-> Cardinality(A[i]) + 1]
<1>1. IsFiniteSet(1..n) /\ Cardinality(1..n) = n
  BY FS_Interval
<1>2. \A i \in 1..n : IsFiniteSet(A[i]) /\ Cardinality(A[i]) \in Nat
  <2> TAKE i \in 1..n
  <2>1. A[i] \in SUBSET (1..n)
    OBVIOUS
  <2>2. IsFiniteSet(A[i])
    BY <1>1, <2>1, FS_Subset
  <2> QED
    BY <2>2, FS_CardinalityType
<1>3. ASSUME NEW i \in 1..n, NEW T \in SUBSET (1..n), A[i] \subseteq T, i \in T
      PROVE  Cardinality(A[i]) + 1 <= Cardinality(T)
  <2>1. IsFiniteSet(T)
    BY <1>1, FS_Subset
  <2>2. i \notin A[i]
    OBVIOUS
  <2>3. IsFiniteSet(A[i] \union {i}) /\ Cardinality(A[i] \union {i}) = Cardinality(A[i]) + 1
    BY <1>2, <2>2, FS_AddElement
  <2>4. A[i] \union {i} \in SUBSET T
    BY <1>3
  <2> QED
    BY <2>1, <2>3, <2>4, FS_Subset
<1>4. \A i \in 1..n : c[i] \in 1..n
  <2> TAKE i \in 1..n
  <2>1. Cardinality(A[i]) + 1 <= Cardinality(1..n)
    BY <1>3
  <2> QED
    BY <1>1, <1>2, <2>1
<1>5. \A i, j \in 1..n : i \in A[j] => c[i] < c[j]
  <2> SUFFICES ASSUME NEW i \in 1..n, NEW j \in 1..n, i \in A[j]
               PROVE  c[i] < c[j]
    OBVIOUS
  <2>1. A[i] \subseteq A[j] /\ A[j] \in SUBSET (1..n)
    OBVIOUS
  <2>2. Cardinality(A[i]) + 1 <= Cardinality(A[j])
    BY <1>3, <2>1
  <2> QED
    BY <1>2, <2>2
<1>6. \A i, j \in 1..n : i # j => c[i] # c[j]
  <2> SUFFICES ASSUME NEW i \in 1..n, NEW j \in 1..n, i # j
               PROVE  c[i] # c[j]
    OBVIOUS
  <2>1. c[i] < c[j] \/ c[j] < c[i]
    BY <1>5
  <2>2. c[i] \in Int /\ c[j] \in Int
    BY <1>4
  <2> HIDE DEF c
  <2> QED
    BY <2>1, <2>2
<1>7. c \in Injection(1..n, 1..n)
  <2>1. c \in [1..n -> 1..n] /\ DOMAIN c = 1..n
    BY <1>4
  <2> HIDE DEF c
  <2> QED
    BY <1>6, <2>1 DEF Injection, IsInjective
<1>8. c \in Surjection(1..n, 1..n)
  <2> HIDE DEF c
  <2> QED
    BY <1>1, <1>7, FS_Injection
<1> QED
  <2>1. \A k \in 1..n : \E i \in 1..n : c[i] = k
    <3> HIDE DEF c
    <3> QED
      BY <1>8 DEF Surjection
  <2>2. \A i \in 1..n : c[i] = Cardinality(A[i]) + 1
    OBVIOUS
  <2> HIDE DEF c
  <2>3. ASSUME NEW k \in 1..n
        PROVE  \E i \in 1..n : Cardinality(A[i]) = k - 1
    <3>1. PICK i \in 1..n : c[i] = k
      BY <2>1
    <3>2. Cardinality(A[i]) \in Nat /\ k = Cardinality(A[i]) + 1
      BY <1>2, <2>2, <3>1
    <3> QED
      BY <3>2
  <2> QED
    BY <2>3

\* The values sorted by are numbers.
LEMMA KeyType ==
    ASSUME RunsInvariant, page \in Page, NEW st \in [Runs -> {"none", "RUNNING"} \union Terminal],
           NEW r \in Listed(st)
    PROVE  /\ r \in Runs
           /\ KeyIn(page.order, number, st, r) \in Int /\ number[r] \in Int
<1>1. r \in Runs /\ st[r] \in {"RUNNING"} \union Terminal
  BY DEF Listed
<1>2. number[r] \in Nat
  BY <1>1 DEF RunsInvariant, TablesTypeOK
<1>3. \E k \in 1..3 : <<"COMPLETED", "FAILED", "RUNNING">>[k] = st[r]
  <2>1. st[r] = "COMPLETED" \/ st[r] = "FAILED" \/ st[r] = "RUNNING"
    BY <1>1 DEF Terminal
  <2> QED
    BY <2>1
<1> QED
  BY <1>1, <1>2, <1>3 DEF KeyIn

LEMMA ViewKey ==
    ASSUME NEW st, NEW v \in View, v.status = st[v.run]
    PROVE  Key(v) = KeyIn(page.order, number, st, v.run)
BY DEF Key, KeyIn

\* A listing whose items have been built.
Complete(st, items) ==
    /\ st \in [Runs -> {"none", "RUNNING"} \union Terminal] /\ items \in Seq(View)
    /\ IsFiniteSet(Listed(st)) /\ Cardinality(Listed(st)) = Len(items)
    /\ \A i \in 1..Len(items) : items[i].run \in Listed(st) /\ items[i].status = st[items[i].run]
    /\ \A i, j \in 1..Len(items) : i < j => number[items[i].run] > number[items[j].run]

\* Its runs are all different, and those it has found.
LEMMA ListingRuns ==
    ASSUME RunsInvariant, page \in Page, NEW st, NEW items, Complete(st, items)
    PROVE  /\ \A i, j \in 1..Len(items) : i # j => items[i].run # items[j].run
           /\ \A r \in Listed(st) : \E i \in 1..Len(items) : items[i].run = r
<1> DEFINE n == Len(items)
           f == [i \in 1..n |-> items[i].run]
<1>1. /\ n \in Nat /\ \A i \in 1..n : items[i].run \in Listed(st) /\ number[items[i].run] \in Int
      /\ IsFiniteSet(Listed(st)) /\ Cardinality(Listed(st)) = n
      /\ \A i, j \in 1..n : i < j => number[items[i].run] > number[items[j].run]
  BY KeyType DEF Complete
<1> HIDE DEF n
<1>2. \A i, j \in 1..n : i # j => items[i].run # items[j].run
  <2> SUFFICES ASSUME NEW i \in 1..n, NEW j \in 1..n, i # j
               PROVE  items[i].run # items[j].run
    OBVIOUS
  <2>1. i < j \/ j < i
    BY <1>1
  <2> QED
    BY <1>1, <2>1
<1>3. f \in Injection(1..n, Listed(st))
  <2>1. f \in [1..n -> Listed(st)] /\ DOMAIN f = 1..n /\ \A i \in 1..n : f[i] = items[i].run
    BY <1>1
  <2> HIDE DEF f
  <2> QED
    BY <1>2, <2>1 DEF Injection, IsInjective
<1>4. f \in Surjection(1..n, Listed(st))
  <2>1. n \in Nat
    BY <1>1
  <2>2. Cardinality(1..n) = n
    BY <2>1, FS_Interval
  <2> HIDE DEF f
  <2> QED
    BY <1>1, <1>3, <2>2, FS_Injection
<1>5. \A r \in Listed(st) : \E i \in 1..n : f[i] = r
  <2> HIDE DEF f
  <2> QED
    BY <1>4 DEF Surjection
<1> QED
  BY <1>2, <1>5 DEF n

\* What page_items returns: the k-th item has k - 1 runs ahead of it, whatever metrics the
\* items hold.
LEMMA SortedItems ==
    ASSUME RunsInvariant, page \in Page, NEW st, NEW items, Complete(st, items)
    PROVE  /\ Sorted(items) \in Seq(View) /\ Len(Sorted(items)) = Len(items)
           /\ \A k \in 1..Len(items) :
                /\ \E i \in 1..Len(items) : Sorted(items)[k] = items[i]
                /\ Cardinality(AheadIn(page.order, number, st, Sorted(items)[k].run)) = k - 1
<1> DEFINE n == Len(items)
           o == page.order
           key(i) == KeyIn(o, number, st, items[i].run)
           Before(i, j) == IF o.dir = "asc" THEN Key(items[i]) < Key(items[j])
                                            ELSE Key(items[i]) > Key(items[j])
           Ahead(i) == {j \in DOMAIN items : Before(j, i) \/ (~Before(i, j) /\ j < i)}
           A == [i \in 1..n |-> Ahead(i)]
           s == Sorted(items)
<1>1. /\ n \in Nat /\ DOMAIN items = 1..n
      /\ \A i \in 1..n : /\ items[i] \in View /\ items[i].run \in Listed(st)
                         /\ items[i].status = st[items[i].run]
      /\ \A i, j \in 1..n : i < j => number[items[i].run] > number[items[j].run]
  BY DEF Complete
<1>2. \A i \in 1..n : key(i) \in Int /\ number[items[i].run] \in Int
  BY <1>1, KeyType DEF Complete
<1>3. \A i \in 1..n : Key(items[i]) = key(i)
  BY <1>1, ViewKey
<1>4. \A i, j \in 1..n : j < i <=> number[items[j].run] > number[items[i].run]
  <2> SUFFICES ASSUME NEW i \in 1..n, NEW j \in 1..n
               PROVE  j < i <=> number[items[j].run] > number[items[i].run]
    OBVIOUS
  <2>1. j < i \/ j = i \/ i < j
    BY <1>1
  <2> HIDE DEF n
  <2> QED
    BY <1>1, <1>2, <2>1
<1>5. \A i, j \in 1..n : Before(i, j) <=> GoesFirst(o, key(i), key(j))
  BY <1>3 DEF GoesFirst
<1> HIDE DEF key, Before
<1>6. \A i, j, k \in 1..n :
        /\ ~Before(i, i)
        /\ Before(i, j) => ~Before(j, i)
        /\ Before(i, j) /\ Before(j, k) => Before(i, k)
        /\ ~Before(i, j) /\ ~Before(j, k) => ~Before(i, k)
  BY <1>2, <1>5 DEF GoesFirst
<1>7. \A i \in 1..n : A[i] = {j \in 1..n : Before(j, i) \/ (~Before(i, j) /\ j < i)}
  BY <1>1
<1> HIDE DEF n, A
<1>8. \A k \in 1..n : \E i \in 1..n : Cardinality(A[i]) = k - 1
  <2>1. A \in [1..n -> SUBSET (1..n)]
    BY <1>1 DEF A
  <2>2. \A i \in 1..n : i \notin A[i]
    BY <1>1, <1>6, <1>7
  <2>3. ASSUME NEW i \in 1..n, NEW j \in 1..n, i \in A[j], NEW k \in A[i]
        PROVE  k \in A[j]
    <3>1. /\ k \in 1..n
          /\ Before(i, j) \/ (~Before(j, i) /\ i < j)
          /\ Before(k, i) \/ (~Before(i, k) /\ k < i)
      BY <1>7, <2>3
    <3>2. CASE Before(i, j) \/ Before(k, i)
      <4>1. Before(k, j)
        BY <1>6, <3>1, <3>2
      <4> QED
        BY <1>7, <3>1, <4>1
    <3>3. CASE ~Before(j, i) /\ i < j /\ ~Before(i, k) /\ k < i
      <4>1. ~Before(j, k) /\ k < j
        BY <1>1, <1>6, <3>1, <3>3
      <4> QED
        BY <1>7, <3>1, <4>1
    <3> QED
      BY <3>1, <3>2, <3>3
  <2>4. ASSUME NEW i \in 1..n, NEW j \in 1..n, i # j
        PROVE  i \in A[j] \/ j \in A[i]
    <3>1. i < j \/ j < i
      BY <1>1, <2>4
    <3> QED
      BY <1>6, <1>7, <3>1
  <2> QED
    BY <1>1, <2>1, <2>2, <2>3, <2>4, Ranks
<1>9. /\ DOMAIN s = 1..n
      /\ \A k \in 1..n : \E i \in 1..n : s[k] = items[i] /\ Cardinality(A[i]) = k - 1
  <2>1. s = [k \in DOMAIN items |->
                items[CHOOSE i \in DOMAIN items : Cardinality(Ahead(i)) = k - 1]]
    BY DEF Sorted, Before
  <2>2. \A i \in 1..n : A[i] = Ahead(i)
    BY <1>1, <1>7
  <2> HIDE DEF Ahead, s
  <2>3. DOMAIN s = 1..n
    BY <1>1, <2>1
  <2>4. ASSUME NEW k \in 1..n
        PROVE  \E i \in 1..n : s[k] = items[i] /\ Cardinality(A[i]) = k - 1
    <3> DEFINE at == CHOOSE i \in DOMAIN items : Cardinality(Ahead(i)) = k - 1
    <3>1. s[k] = items[at]
      BY <1>1, <2>1
    <3>2. at \in 1..n /\ Cardinality(Ahead(at)) = k - 1
      BY <1>1, <1>8, <2>2
    <3> QED
      BY <2>2, <3>1, <3>2
  <2> QED
    BY <2>3, <2>4
<1>10. ASSUME NEW i \in 1..n
       PROVE  Cardinality(AheadIn(o, number, st, items[i].run)) = Cardinality(A[i])
  <2> DEFINE T == AheadIn(o, number, st, items[i].run)
             f == [j \in A[i] |-> items[j].run]
  <2>1. A[i] \in SUBSET (1..n)
    BY <1>7
  <2>2. \A j \in 1..n : j \in A[i] <=> items[j].run \in T
    BY <1>1, <1>4, <1>5, <1>7 DEF AheadIn, key
  <2>3. \A j, k \in 1..n : j # k => items[j].run # items[k].run
    BY ListingRuns DEF n
  <2>4. \A r \in T : \E j \in 1..n : items[j].run = r
    BY ListingRuns DEF n, AheadIn
  <2> HIDE DEF T
  <2>5. f \in [A[i] -> T] /\ DOMAIN f = A[i] /\ \A j \in A[i] : f[j] = items[j].run
    BY <2>1, <2>2
  <2>6. \A r \in T : \E j \in A[i] : f[j] = r
    BY <2>1, <2>2, <2>4
  <2> HIDE DEF f
  <2>7. f \in Bijection(A[i], T)
    <3>1. IsInjective(f)
      BY <2>1, <2>3, <2>5 DEF IsInjective
    <3>2. f \in Injection(A[i], T)
      BY <2>5, <3>1 DEF Injection
    <3>3. f \in Surjection(A[i], T)
      BY <2>5, <2>6 DEF Surjection
    <3> QED
      BY <3>2, <3>3 DEF Bijection
  <2>8. IsFiniteSet(A[i])
    <3>1. IsFiniteSet(1..n)
      BY <1>1, FS_Interval
    <3> QED
      BY <2>1, <3>1, FS_Subset
  <2>9. ExistsBijection(A[i], T)
    BY <2>7 DEF ExistsBijection
  <2> QED
    BY <2>8, <2>9, FS_Bijection DEF T
<1>11. s \in Seq(View) /\ Len(s) = n
  <2>1. s = [k \in 1..n |-> s[k]]
    BY <1>9 DEF Sorted
  <2>2. \A k \in 1..n : s[k] \in View
    BY <1>1, <1>9
  <2>3. s \in [1..n -> View]
    BY <2>1, <2>2
  <2> HIDE DEF s
  <2> QED
    BY <1>1, <2>3
<1> QED
  BY <1>9, <1>10, <1>11 DEF n

\* What no step undoes.
LEMMA RowsStay ==
    ASSUME RunsInvariant, [Next]_vars, NEW r \in Runs
    PROVE  /\ Exists(r) => Exists(r)' /\ number'[r] = number[r]
           /\ timeouts' = 0 => timeouts = 0 /\ (status[r] \in Terminal => Frozen(r))
<1>1. /\ status \in [Runs -> {"none", "RUNNING"} \union Terminal] /\ number \in [Runs -> Nat]
      /\ timeouts \in Nat
  BY DEF RunsInvariant, TablesTypeOK
<1>2. Exists(r) => Exists(r)' /\ number'[r] = number[r]
  <2>1. CASE UNCHANGED <<status, number>>
    BY <2>1 DEF Exists
  <2>2. ASSUME NEW i \in DOMAIN calls, InsertRun(i), Exists(r)
        PROVE  Exists(r)' /\ number'[r] = number[r]
    <3>1. ~Exists(calls[i].run)
      BY <2>2 DEF RunsInvariant, Created, InsertRun
    <3>2. calls[i].run # r
      BY <2>2, <3>1
    <3> QED
      BY <1>1, <2>2, <3>2 DEF InsertRun, tables, Exists
  <2>3. ASSUME NEW i \in DOMAIN calls, EndRun(i)
        PROVE  (Exists(r) => Exists(r)') /\ number' = number
    <3>1. /\ status' = [status EXCEPT ![calls[i].run] =
                          IF calls[i].kind = "complete" THEN "COMPLETED" ELSE "FAILED"]
          /\ number' = number
      BY <2>3 DEF EndRun
    <3> QED
      BY <1>1, <3>1 DEF Exists
  <2>4. ASSUME NEW i \in DOMAIN calls,
               \/ ReadNumber(i) \/ ReadRun(i) \/ UpsertRow(i) \/ CommitBatch(i)
               \/ AbortDeadlocked(i) \/ HandlerFails(i)
        PROVE  UNCHANGED <<status, number>>
    BY <2>4 DEF ReadNumber, ReadRun, UpsertRow, CommitBatch, AbortDeadlocked, HandlerFails, tables
  <2>5. ASSUME NEW c \in Contexts,
               \/ Enter(c) \/ LogBatch(c) \/ EndInBody(c) \/ Exit(c)
               \/ Deliver(c) \/ LoseAnswer(c) \/ TimeOut(c) \/ Kill(c)
        PROVE  UNCHANGED <<status, number>>
    BY <2>5 DEF Enter, LogBatch, EndInBody, Exit, Deliver, LoseAnswer, TimeOut, Kill, tables
  <2>6. CASE AskPage \/ ListRuns \/ ReadSteps \/ ShowPage
    BY <2>1, <2>6, PageReads
  <2>7. CASE UNCHANGED vars
    BY <2>1, <2>7 DEF vars
  <2> QED
    BY <2>1, <2>2, <2>3, <2>4, <2>5, <2>6, <2>7 DEF Next, Handle
<1>3. timeouts' = 0 => timeouts = 0
  <2>1. timeouts' = timeouts \/ timeouts' = timeouts + 1
    <3>1. ASSUME NEW i \in DOMAIN calls, Handle(i) \/ HandlerFails(i)
          PROVE  timeouts' = timeouts
      BY <3>1 DEF Handle, ReadNumber, ReadRun, InsertRun, EndRun, UpsertRow, CommitBatch,
                  AbortDeadlocked, HandlerFails, budget
    <3>2. ASSUME NEW c \in Contexts,
                 \/ Enter(c) \/ LogBatch(c) \/ EndInBody(c) \/ Exit(c)
                 \/ Deliver(c) \/ LoseAnswer(c) \/ Kill(c)
          PROVE  timeouts' = timeouts
      BY <3>2 DEF Enter, LogBatch, EndInBody, Exit, Deliver, LoseAnswer, Kill, budget
    <3>3. ASSUME NEW c \in Contexts, TimeOut(c)
          PROVE  timeouts' = timeouts + 1
      BY <3>3 DEF TimeOut
    <3>4. CASE AskPage \/ ListRuns \/ ReadSteps \/ ShowPage
      BY <3>4, PageReads DEF budget
    <3>5. CASE UNCHANGED vars
      BY <3>5 DEF vars
    <3> QED
      BY <3>1, <3>2, <3>3, <3>4, <3>5 DEF Next
  <2> QED
    BY <1>1, <2>1
<1>4. timeouts = 0 => (status[r] \in Terminal => Frozen(r))
  <2>1. CASE Next
    BY <2>1, EndedStays
  <2>2. CASE UNCHANGED vars
    BY <2>2 DEF vars, Frozen
  <2> QED
    BY <2>1, <2>2
<1> QED
  BY <1>2, <1>3, <1>4

LEMMA AheadStays ==
    ASSUME NEW o, NEW num, NEW new, NEW st, \A s \in Listed(st) : new[s] = num[s],
           NEW r \in Listed(st)
    PROVE  AheadIn(o, new, st, r) = AheadIn(o, num, st, r)
<1>1. \A s \in Listed(st) : KeyIn(o, new, st, s) = KeyIn(o, num, st, s)
  BY DEF KeyIn
<1> QED
  BY <1>1 DEF AheadIn

\* The fields of a page.
LEMMA PageTypes ==
    ASSUME page \in Page
    PROVE  /\ page.at \in {"closed", "asked", "building", "shown"} /\ page.order \in Orders
           /\ page.offset \in Nat /\ page.total \in Nat
           /\ page.todo \in Seq(Runs) /\ page.items \in Seq(View) /\ page.walk \in Seq(View)
           /\ page.reads \in Seq([Runs -> {"none", "RUNNING"} \union Terminal])
           /\ Len(page.todo) \in Nat /\ Len(page.items) \in Nat /\ Len(page.walk) \in Nat
           /\ Len(page.reads) \in Nat /\ DOMAIN page.reads = 1..Len(page.reads)
BY DEF Page

\* The calls go on while a page is built or shown.
LEMMA OthersKeep ==
    ASSUME RunsInvariant, PagesInvariant, [Next]_vars, page' = page
    PROVE  PagesInvariant'
<1>1. /\ page \in Page /\ Found /\ Rests /\ Built /\ Walking /\ Finals
  BY DEF PagesInvariant
<1>2. page' \in Page /\ Rests'
  BY <1>1 DEF Rests
<1>3. \A r \in Runs : /\ Exists(r) => Exists(r)' /\ number'[r] = number[r]
                      /\ timeouts' = 0 => timeouts = 0 /\ (status[r] \in Terminal => Frozen(r))
  BY RowsStay
<1>4. Found'
  BY <1>1, <1>3 DEF Found, Frozen
<1>5. \A k \in 1..Len(page.reads) : \A r \in Listed(page.reads[k]) :
         r \in Runs /\ Exists(r) /\ number'[r] = number[r]
  BY <1>1, <1>3, PageTypes DEF Found, Listed
<1>6. Built'
  <2> SUFFICES ASSUME page.at = "building" PROVE Built'
    BY <1>1 DEF Built
  <2> DEFINE st == page.reads[Len(page.reads)]
             all == Len(page.items) + Len(page.todo)
             e(k) == Entry(page.items, page.todo, k)
  <2>1. Len(page.reads) \in 1..Len(page.reads)
    BY <1>1, PageTypes DEF Rests
  <2>2. Lists(number, st, page.items, page.todo)
    BY <1>1 DEF Built
  <2>3. \A k \in 1..all : e(k) \in Listed(st)
    BY <2>2 DEF Lists
  <2>4. \A k \in 1..all : number'[e(k)] = number[e(k)]
    BY <1>5, <2>1, <2>3
  <2>5. Lists(number', st, page.items, page.todo)
    BY <2>2, <2>4 DEF Lists
  <2> QED
    BY <2>5 DEF Built
<1>7. Walking'
  <2> SUFFICES ASSUME Steady, page.reads # <<>> PROVE Walking'
    BY DEF Walking, Steady
  <2>1. 1 \in 1..Len(page.reads)
    BY <1>1, PageTypes
  <2>2. \A s \in Listed(page.reads[1]) : number'[s] = number[s]
    BY <1>5, <2>1
  <2>3. \A k \in 1..Len(page.walk) :
          /\ page.walk[k].run \in Listed(page.reads[1])
          /\ Cardinality(AheadIn(page.order, number, page.reads[1], page.walk[k].run)) = k - 1
    BY <1>1 DEF Walking
  <2>4. \A k \in 1..Len(page.walk) :
          Cardinality(AheadIn(page.order, number', page.reads[1], page.walk[k].run)) = k - 1
    BY <2>2, <2>3, AheadStays
  <2> DEFINE all == Cardinality(Listed(page.reads[1]))
  <2>5. /\ page.at # "shown" => Len(page.walk) = page.offset /\ page.offset <= all
        /\ page.at = "shown" =>
             /\ page.total = all
             /\ Len(page.walk) = IF page.offset + PageSize <= all THEN page.offset + PageSize
                                 ELSE all
    BY <1>1 DEF Walking
  <2> QED
    BY <2>3, <2>4, <2>5 DEF Walking
<1>8. Finals'
  <2>1. ASSUME timeouts' = 0, NEW v \in View, Final(status, rows, v)
        PROVE  Final(status', rows', v)
    <3> SUFFICES ASSUME v.status \in Terminal
                 PROVE  status'[v.run] \in Terminal /\ v.latest = LatestIn(rows'[v.run])
      BY DEF Final
    <3>1. v.run \in Runs /\ status[v.run] \in Terminal /\ v.latest = LatestIn(rows[v.run])
      BY <2>1 DEF Final, View
    <3>2. status'[v.run] = status[v.run] /\ rows'[v.run] = rows[v.run]
      BY <1>3, <2>1, <3>1 DEF Frozen
    <3> QED
      BY <3>1, <3>2
  <2> SUFFICES ASSUME timeouts' = 0 PROVE Finals'
    BY DEF Finals
  <2>2. \A r \in Runs : timeouts = 0
    BY <1>3
  <2>3. \A i \in 1..Len(page.items) : page.items[i] \in View
    BY <1>1, PageTypes
  <2>4. \A i \in 1..Len(page.walk) : page.walk[i] \in View
    BY <1>1, PageTypes
  <2>5. timeouts = 0 => Finals'
    BY <1>1, <2>1, <2>3, <2>4 DEF Finals
  <2> QED
    BY <1>1, <2>2, <2>3, <2>4, <2>5 DEF Finals, View
<1> QED
  BY <1>2, <1>4, <1>6, <1>7, <1>8 DEF PagesInvariant

LEMMA AskKeeps ==
    ASSUME RunsInvariant, PagesInvariant, AskPage
    PROVE  PagesInvariant'
<1>1. /\ page \in Page /\ Found /\ Rests /\ Walking /\ Finals
      /\ UNCHANGED <<status, number, rows, timeouts>>
  BY PageReads DEF PagesInvariant
<1>2. PICK offset \in Nat :
        /\ page' = [page EXCEPT !.at = "asked", !.offset = offset]
        /\ \/ page.at = "closed" /\ offset = page.offset
           \/ page.at = "shown" /\ offset = page.offset + PageSize /\ offset < page.total
  <2>1. page.offset \in Nat /\ page.offset + PageSize \in Nat
    BY <1>1, PageTypes, RunsAssumption DEF RunsAssumption
  <2>2. CASE page.at = "closed" /\ page' = [page EXCEPT !.at = "asked"]
    <3>1. page' = [page EXCEPT !.at = "asked", !.offset = page.offset]
      BY <1>1, <2>2 DEF Page
    <3> QED
      BY <2>1, <2>2, <3>1
  <2> QED
    BY <2>1, <2>2 DEF AskPage
<1>3. /\ page'.at = "asked" /\ page'.offset = offset /\ page'.order = page.order
      /\ page'.todo = page.todo /\ page'.items = page.items /\ page'.total = page.total
      /\ page'.walk = page.walk /\ page'.reads = page.reads
  BY <1>1, <1>2 DEF Page
<1>4. page' \in Page
  BY <1>1, <1>2 DEF Page
<1>5. Found'
  BY <1>1, <1>3 DEF Found, Exists
<1>6. Rests'
  BY <1>1, <1>2, <1>3 DEF Rests
<1>7. Built'
  BY <1>3 DEF Built
<1>8. Walking'
  <2> SUFFICES ASSUME Steady, page.reads # <<>> PROVE Walking'
    BY <1>3 DEF Walking, Steady
  <2>1. page.at = "shown" /\ offset = page.offset + PageSize /\ offset < page.total
    BY <1>1, <1>2 DEF Rests
  <2>2. /\ page.total = Cardinality(Listed(page.reads[1]))
        /\ Len(page.walk) = IF page.offset + PageSize <= page.total THEN page.offset + PageSize
                            ELSE page.total
        /\ \A k \in 1..Len(page.walk) :
             /\ page.walk[k].run \in Listed(page.reads[1])
             /\ Cardinality(AheadIn(page.order, number, page.reads[1], page.walk[k].run)) = k - 1
    BY <1>1, <2>1 DEF Walking
  <2>3. Len(page.walk) = offset /\ offset <= Cardinality(Listed(page.reads[1]))
    BY <1>1, <2>1, <2>2, PageTypes
  <2> QED
    BY <1>1, <1>3, <2>2, <2>3 DEF Walking
<1>9. Finals'
  BY <1>1, <1>3 DEF Finals
<1> QED
  BY <1>4, <1>5, <1>6, <1>7, <1>8, <1>9 DEF PagesInvariant

\* The sequence that one statement finds.
LEMMA ListingShape ==
    ASSUME RunsInvariant, NEW l \in ListByExperiment
    PROVE  /\ l \in Seq(Runs) /\ Len(l) = Cardinality(Listed(status)) /\ Len(l) \in Nat
           /\ \A k \in 1..Len(l) : l[k] \in Listed(status)
           /\ \A i, j \in 1..Len(l) : i < j => number[l[i]] > number[l[j]]
<1> DEFINE n == Cardinality(Listed(status))
<1>1. Listed(status) = {r \in Runs : Exists(r)} /\ Existing = Listed(status)
  BY DEF Listed, Exists, Existing
<1>2. n \in Nat
  BY <1>1, FS_CardinalityType DEF RunsInvariant, Numbered
<1>3. /\ l \in [1..n -> Listed(status)]
      /\ \A i, j \in DOMAIN l : i < j => number[l[i]] > number[l[j]]
  BY <1>1 DEF ListByExperiment, SetToSeqs
<1>4. l \in Seq(Runs) /\ Len(l) = n
  <2>1. l \in [1..n -> Runs]
    BY <1>3 DEF Listed
  <2> QED
    BY <1>2, <2>1
<1> QED
  BY <1>2, <1>3, <1>4

LEMMA ListKeeps ==
    ASSUME RunsInvariant, PagesInvariant, ListRuns
    PROVE  PagesInvariant'
<1>1. /\ page \in Page /\ Found /\ Rests /\ Walking /\ Finals /\ page.at = "asked"
      /\ UNCHANGED <<status, number, rows, timeouts>>
  BY PageReads DEF PagesInvariant, ListRuns
<1>2. PICK l \in ListByExperiment :
        page' = [page EXCEPT !.at = "building", !.todo = l, !.reads = Append(@, status)]
  BY DEF ListRuns
<1> DEFINE reads == Append(page.reads, status)
           n == Len(page.reads)
<1>3. /\ page'.at = "building" /\ page'.todo = l /\ page'.reads = reads
      /\ page'.items = page.items /\ page'.total = page.total /\ page'.walk = page.walk
      /\ page'.order = page.order /\ page'.offset = page.offset
  BY <1>1, <1>2 DEF Page
<1>4. status \in [Runs -> {"none", "RUNNING"} \union Terminal]
  BY DEF RunsInvariant, TablesTypeOK
<1>5. /\ reads \in Seq([Runs -> {"none", "RUNNING"} \union Terminal])
      /\ reads # <<>> /\ Len(reads) = n + 1 /\ n \in Nat /\ DOMAIN reads = 1..(n + 1)
      /\ \A k \in 1..n : reads[k] = page.reads[k]
      /\ reads[n + 1] = status /\ DOMAIN page.reads = 1..n
  <2> DEFINE S == [Runs -> {"none", "RUNNING"} \union Terminal]
  <2>1. page.reads \in Seq(S) /\ n \in Nat /\ DOMAIN page.reads = 1..n
    BY <1>1, PageTypes
  <2>2. status \in S
    BY <1>4
  <2> HIDE DEF S
  <2>3. /\ reads \in Seq(S) /\ reads # <<>> /\ Len(reads) = n + 1
        /\ \A k \in 1..n : reads[k] = page.reads[k]
        /\ reads[n + 1] = status
    BY <2>1, <2>2, AppendProperties
  <2> HIDE DEF reads
  <2>4. DOMAIN reads = 1..(n + 1)
    BY <2>3, LenProperties
  <2> QED
    BY <2>1, <2>3, <2>4 DEF S
<1> HIDE DEF reads
<1>6. l \in Seq(Runs)
  BY ListingShape
<1>7. page' \in Page
  BY <1>1, <1>2, <1>5, <1>6 DEF Page, reads
<1>8. Found'
  <2>1. \A k \in 1..n, r \in Runs :
          /\ reads[k][r] # "none" => Exists(r)
          /\ timeouts = 0 /\ reads[k][r] \in Terminal => status[r] = reads[k][r]
    BY <1>1, <1>5 DEF Found
  <2>2. \A r \in Runs : reads[n + 1][r] # "none" => Exists(r)
    BY <1>5 DEF Exists
  <2>3. \A k \in 1..(n + 1), r \in Runs :
          /\ reads[k][r] # "none" => Exists(r)
          /\ timeouts = 0 /\ reads[k][r] \in Terminal => status[r] = reads[k][r]
    BY <1>5, <2>1, <2>2
  <2> QED
    BY <1>1, <1>3, <1>5, <2>3 DEF Found, Exists
<1>9. Rests'
  BY <1>1, <1>3, <1>5 DEF Rests
<1>10. page.items = <<>>
  BY <1>1 DEF Rests
<1>11. Built'
  <2>1. \A k \in 1..Len(l) : Entry(<<>>, l, k) = l[k]
    BY <1>6 DEF Entry
  <2>2. Len(<<>>) + Len(l) = Len(l)
    BY <1>6
  <2>3. Lists(number, status, <<>>, l)
    BY <2>1, <2>2, ListingShape DEF Lists
  <2> QED
    BY <1>1, <1>3, <1>5, <1>10, <2>3 DEF Built
<1>12. Walking'
  <2> SUFFICES ASSUME Steady' PROVE Walking'
    BY DEF Walking
  <2>1. CASE page.reads = <<>>
    <3>1. Len(page.walk) = 0 /\ page.offset = 0
      BY <1>1, <2>1 DEF Rests
    <3>2. reads[1] = status
      BY <1>5, <2>1
    <3>3. Cardinality(Listed(status)) \in Nat
      <4>1. Listed(status) = Existing
        BY DEF Listed, Exists, Existing
      <4> QED
        BY <4>1, FS_CardinalityType DEF RunsInvariant, Numbered
    <3> QED
      BY <1>3, <3>1, <3>2, <3>3 DEF Walking
  <2>2. CASE page.reads # <<>>
    <3>1. 1 \in 1..n
      BY <1>1, <1>5, <2>2, PageTypes
    <3>2. reads[1] = page.reads[1]
      BY <1>5, <3>1
    <3>3. Steady
      <4>1. \A i \in 1..(n + 1) : reads[i] = reads[1]
        BY <1>3, <1>5 DEF Steady
      <4> QED
        BY <1>5, <3>2, <4>1 DEF Steady
    <3> QED
      BY <1>1, <1>3, <2>2, <3>2, <3>3 DEF Walking
  <2> QED
    BY <2>1, <2>2
<1>13. Finals'
  BY <1>1, <1>3 DEF Finals
<1> QED
  BY <1>7, <1>8, <1>9, <1>11, <1>12, <1>13 DEF PagesInvariant

\* A finite set of numbers has a greatest one.
LEMMA GreatestOf ==
    ASSUME NEW S \in SUBSET Nat, IsFiniteSet(S), S # {}
    PROVE  SetMax(S) \in S
<1> DEFINE n == Cardinality(S)
<1>1. n \in Nat /\ ExistsBijection(1..n, S)
  BY FS_CardinalityType
<1>2. PICK f : f \in Bijection(1..n, S)
  BY <1>1 DEF ExistsBijection
<1>3. f \in [1..n -> S] /\ \A m \in S : \E i \in 1..n : f[i] = m
  BY <1>2 DEF Bijection, Injection, Surjection
<1>4. \A i, j \in 1..n : i # j => f[i] # f[j]
  <2>1. f \in Injection(1..n, S)
    BY <1>2 DEF Bijection
  <2> QED
    BY <1>3, <2>1 DEF Injection, IsInjective
<1> HIDE DEF n
<1> DEFINE A == [i \in 1..n |-> {j \in 1..n : f[j] > f[i]}]
<1>5. \A k \in 1..n : \E i \in 1..n : Cardinality(A[i]) = k - 1
  <2>1. A \in [1..n -> SUBSET (1..n)] /\ \A i, j \in 1..n : j \in A[i] <=> f[j] > f[i]
    OBVIOUS
  <2>2. \A i \in 1..n : f[i] \in Nat
    BY <1>3
  <2> HIDE DEF A
  <2>3. \A i \in 1..n : i \notin A[i]
    BY <2>1, <2>2
  <2>4. \A i, j \in 1..n : i \in A[j] => A[i] \subseteq A[j]
    BY <2>1, <2>2
  <2>5. \A i, j \in 1..n : i # j => i \in A[j] \/ j \in A[i]
    BY <1>4, <2>1, <2>2
  <2> QED
    BY <1>1, <2>1, <2>3, <2>4, <2>5, Ranks
<1>6. 1 \in 1..n
  <2>1. n # 0
    BY FS_EmptySet DEF n
  <2> QED
    BY <1>1, <2>1
<1>7. PICK i \in 1..n : Cardinality(A[i]) = 0
  BY <1>5, <1>6
<1>8. A[i] = {}
  <2>1. IsFiniteSet(1..n) /\ A[i] \in SUBSET (1..n)
    BY <1>1, FS_Interval
  <2>2. IsFiniteSet(A[i])
    BY <2>1, FS_Subset
  <2> QED
    BY <1>7, <2>2, FS_EmptySet
<1>9. \A m \in S : m <= f[i]
  <2>1. \A j \in 1..n : ~(f[j] > f[i]) /\ f[j] \in Nat /\ f[i] \in Nat
    BY <1>3, <1>8
  <2> HIDE DEF A
  <2> QED
    BY <1>3, <2>1
<1> QED
  BY <1>3, <1>9 DEF SetMax

LEMMA LatestType ==
    ASSUME RunsInvariant, NEW r \in Runs
    PROVE  Latest(r) \in Batches \union {None} /\ Latest(r) = LatestIn(rows[r])
<1> DEFINE logged == {s \in Steps : rows[r][s] # None}
<1>1. rows[r] \in [Steps -> Batches \union {None}]
  BY DEF RunsInvariant, TablesTypeOK
<1>2. logged \in SUBSET Nat /\ IsFiniteSet(logged) /\ logged \subseteq Steps
  BY RunsAssumption, FS_Subset DEF RunsAssumption
<1>3. logged # {} => SetMax(logged) \in Steps
  BY <1>2, GreatestOf
<1>4. Latest(r) = LatestIn(rows[r])
  BY DEF Latest, LatestIn
<1>5. Latest(r) = IF logged = {} THEN None ELSE rows[r][SetMax(logged)]
  BY DEF Latest
<1> HIDE DEF logged
<1> QED
  BY <1>1, <1>3, <1>4, <1>5

\* What a step of the builder finds.
LEMMA BuildingFacts ==
    ASSUME RunsInvariant, PagesInvariant, page.at = "building"
    PROVE  LET st == page.reads[Len(page.reads)] IN
           /\ page \in Page /\ Len(page.reads) \in 1..Len(page.reads)
           /\ Last(page.reads) = st
           /\ st \in [Runs -> {"none", "RUNNING"} \union Terminal]
           /\ IsFiniteSet(Listed(st))
           /\ Lists(number, st, page.items, page.todo)
           /\ timeouts = 0 => \A r \in Runs : st[r] \in Terminal => status[r] = st[r]
<1> DEFINE st == page.reads[Len(page.reads)]
<1>1. page \in Page /\ Found /\ Rests /\ Built
  BY DEF PagesInvariant
<1>2. Len(page.reads) \in 1..Len(page.reads)
  BY <1>1, PageTypes DEF Rests
<1>3. /\ st \in [Runs -> {"none", "RUNNING"} \union Terminal]
      /\ Last(page.reads) = st
  BY <1>1, <1>2, PageTypes, ElementOfSeq DEF Last
<1>4. /\ \A r \in Runs : st[r] # "none" => Exists(r)
      /\ timeouts = 0 => \A r \in Runs : st[r] \in Terminal => status[r] = st[r]
  BY <1>1, <1>2, PageTypes DEF Found
<1>5. IsFiniteSet(Listed(st))
  <2>1. Listed(st) \in SUBSET Existing /\ IsFiniteSet(Existing)
    BY <1>4 DEF Listed, Existing, RunsInvariant, Numbered
  <2> QED
    BY <2>1, FS_Subset
<1>6. Lists(number, st, page.items, page.todo)
  BY <1>1 DEF Built
<1> QED
  BY <1>1, <1>2, <1>3, <1>4, <1>5, <1>6

\* Building the next item of a listing does not change the listing.
LEMMA NextEntry ==
    ASSUME NEW items \in Seq(View), NEW todo \in Seq(Runs), todo # <<>>
    PROVE  LET n == Len(items) IN
           /\ n \in Nat /\ Len(todo) \in Nat /\ n + 1 \in 1..(n + Len(todo))
           /\ Entry(items, todo, n + 1) = Head(todo) /\ Head(todo) \in Runs
<1> DEFINE n == Len(items)
<1>1. n \in Nat /\ Len(todo) \in Nat \ {0} /\ Head(todo) = todo[1] /\ Head(todo) \in Runs
  OBVIOUS
<1> HIDE DEF n
<1>2. ~(n + 1 <= n) /\ (n + 1) - n = 1 /\ n + 1 \in 1..(n + Len(todo))
  BY <1>1
<1>3. Entry(items, todo, n + 1) = todo[1]
  BY <1>2 DEF Entry, n
<1> QED
  BY <1>1, <1>2, <1>3 DEF n

LEMMA EntryMoves ==
    ASSUME NEW items \in Seq(View), NEW todo \in Seq(Runs), todo # <<>>,
           NEW v \in View, v.run = Head(todo)
    PROVE  LET n == Len(items) IN
           /\ Append(items, v) \in Seq(View) /\ Tail(todo) \in Seq(Runs)
           /\ Len(Append(items, v)) = n + 1 /\ Append(items, v)[n + 1] = v
           /\ \A k \in 1..n : Append(items, v)[k] = items[k]
           /\ Len(Append(items, v)) + Len(Tail(todo)) = n + Len(todo)
           /\ \A k \in 1..(n + Len(todo)) :
                Entry(Append(items, v), Tail(todo), k) = Entry(items, todo, k)
<1> DEFINE n == Len(items)
           m == Len(todo)
           more == Append(items, v)
           rest == Tail(todo)
<1>1. n \in Nat /\ m \in Nat \ {0}
  OBVIOUS
<1>2. /\ more \in Seq(View) /\ Len(more) = n + 1 /\ more[n + 1] = v
      /\ \A k \in 1..n : more[k] = items[k]
  BY AppendProperties
<1>3. rest \in Seq(Runs) /\ Len(rest) = m - 1 /\ \A k \in 1..(m - 1) : rest[k] = todo[k + 1]
  BY HeadTailProperties
<1>4. Entry(items, todo, n + 1) = v.run
  BY NextEntry
<1> HIDE DEF n, m, more, rest
<1>5. ASSUME NEW k \in 1..(n + m)
      PROVE  Entry(more, rest, k) = Entry(items, todo, k)
  <2>1. CASE k <= n
    BY <1>1, <1>2, <2>1 DEF Entry, n
  <2>2. CASE k = n + 1
    <3>1. k <= Len(more) /\ more[k] = v
      BY <1>1, <1>2, <2>2
    <3> QED
      BY <1>4, <2>2, <3>1 DEF Entry
  <2>3. CASE k > n + 1
    <3>1. k - (n + 1) \in 1..(m - 1) /\ (k - (n + 1)) + 1 = k - n
      BY <1>1, <2>3
    <3>2. rest[k - (n + 1)] = todo[k - n]
      BY <1>3, <3>1
    <3>3. ~(k <= n) /\ ~(k <= n + 1)
      BY <1>1, <2>3
    <3> QED
      BY <1>2, <3>2, <3>3 DEF Entry, n
  <2> QED
    BY <1>1, <2>1, <2>2, <2>3
<1> QED
  BY <1>1, <1>2, <1>3, <1>5 DEF n, m, more, rest

LEMMA ReadKeeps ==
    ASSUME RunsInvariant, PagesInvariant, ReadSteps
    PROVE  PagesInvariant'
<1> DEFINE st == page.reads[Len(page.reads)]
           run == Head(page.todo)
           v == [run |-> run, status |-> st[run], latest |-> Latest(run)]
           items == Append(page.items, v)
           todo == Tail(page.todo)
           n == Len(page.items)
           m == Len(page.todo)
<1>1. /\ page \in Page /\ Found /\ Rests /\ Walking /\ Finals
      /\ page.at = "building" /\ page.todo # <<>>
      /\ UNCHANGED <<status, number, rows, timeouts>>
  BY PageReads DEF PagesInvariant, ReadSteps
<1>2. /\ st \in [Runs -> {"none", "RUNNING"} \union Terminal] /\ Last(page.reads) = st
      /\ Lists(number, st, page.items, page.todo)
      /\ timeouts = 0 => \A r \in Runs : st[r] \in Terminal => status[r] = st[r]
  BY <1>1, BuildingFacts
<1>3. page' = [page EXCEPT !.todo = todo, !.items = items]
  BY <1>2 DEF ReadSteps
<1>4. /\ page'.at = "building" /\ page'.todo = todo /\ page'.items = items
      /\ page'.order = page.order /\ page'.offset = page.offset /\ page'.total = page.total
      /\ page'.walk = page.walk /\ page'.reads = page.reads
  BY <1>1, <1>3 DEF Page
<1>5. page.items \in Seq(View) /\ page.todo \in Seq(Runs)
  BY <1>1, PageTypes
<1>6. /\ n \in Nat /\ m \in Nat /\ n + 1 \in 1..(n + m)
      /\ Entry(page.items, page.todo, n + 1) = run
  BY <1>1, <1>5, NextEntry
<1>8. run \in Listed(st) /\ run \in Runs /\ st[run] \in {"RUNNING"} \union Terminal
  BY <1>2, <1>6 DEF Lists, Listed
<1>9. v \in View /\ v.run = run /\ v.status = st[run] /\ v.latest = LatestIn(rows[run])
  BY <1>8, LatestType DEF View
<1> HIDE DEF v
<1>10. /\ items \in Seq(View) /\ todo \in Seq(Runs) /\ Len(items) = n + 1 /\ items[n + 1] = v
       /\ \A k \in 1..n : items[k] = page.items[k]
       /\ Len(items) + Len(todo) = n + m
       /\ \A k \in 1..(n + m) : Entry(items, todo, k) = Entry(page.items, page.todo, k)
  <2> DEFINE i == page.items
             t == page.todo
  <2>1. i \in Seq(View) /\ t \in Seq(Runs) /\ t # <<>> /\ v \in View /\ v.run = Head(t)
    BY <1>1, <1>5, <1>9
  <2> HIDE DEF i, t
  <2>2. /\ Append(i, v) \in Seq(View) /\ Tail(t) \in Seq(Runs)
        /\ Len(Append(i, v)) = Len(i) + 1 /\ Append(i, v)[Len(i) + 1] = v
        /\ \A k \in 1..Len(i) : Append(i, v)[k] = i[k]
        /\ Len(Append(i, v)) + Len(Tail(t)) = Len(i) + Len(t)
        /\ \A k \in 1..(Len(i) + Len(t)) : Entry(Append(i, v), Tail(t), k) = Entry(i, t, k)
    BY <2>1, EntryMoves
  <2> QED
    BY <2>2 DEF i, t
<1> HIDE DEF items, todo, run, st, n, m
<1>11. page' \in Page
  BY <1>1, <1>3, <1>10 DEF Page
<1>12. Found' /\ Rests'
  BY <1>1, <1>4 DEF Found, Rests, Exists
<1>13. Built'
  <2>3. \A i \in 1..(n + 1) : items[i].status = st[items[i].run]
    <3>1. \A i \in 1..n : items[i].status = st[items[i].run]
      BY <1>2, <1>10 DEF Lists, n
    <3>2. items[n + 1].status = st[items[n + 1].run]
      BY <1>9, <1>10
    <3> QED
      BY <1>6, <3>1, <3>2
  <2>4. Lists(number, st, items, todo)
    BY <1>2, <1>10, <2>3 DEF Lists, n, m
  <2> QED
    BY <1>1, <1>4, <2>4 DEF Built, st
<1>14. Walking'
  BY <1>1, <1>4 DEF Walking, Steady
<1>15. Finals'
  <2> SUFFICES ASSUME timeouts = 0 PROVE Finals'
    BY <1>1 DEF Finals
  <2>1. Final(status, rows, v)
    BY <1>2, <1>8, <1>9 DEF Final
  <2>2. \A i \in 1..(n + 1) : Final(status, rows, items[i])
    BY <1>1, <1>6, <1>10, <2>1 DEF Finals, n
  <2>3. \A i \in 1..Len(page.walk) : Final(status, rows, page.walk[i])
    BY <1>1 DEF Finals
  <2> QED
    BY <1>1, <1>4, <1>10, <2>2, <2>3 DEF Finals
<1> QED
  BY <1>11, <1>12, <1>13, <1>14, <1>15 DEF PagesInvariant

LEMMA LesserOf ==
    ASSUME NEW a \in Nat, NEW b \in Nat
    PROVE  Min({a, b}) = IF a <= b THEN a ELSE b
<1> DEFINE c == IF a <= b THEN a ELSE b
<1>1. c \in {a, b} /\ \A x \in {a, b} : c <= x
  OBVIOUS
<1>2. \A y \in {a, b} : (\A x \in {a, b} : y <= x) => y = c
  OBVIOUS
<1> HIDE DEF c
<1>3. Min({a, b}) = c
  BY <1>1, <1>2 DEF Min
<1> QED
  BY <1>3 DEF c

\* A page, the elements of s after the first a, is added to those shown before.
Continues(v, w, s, a, p) ==
    /\ \A k \in 1..Len(v) : \/ \E i \in 1..Len(w) : v[k] = w[i]
                            \/ \E i \in 1..Len(s) : v[k] = s[i]
    /\ Len(w) = a /\ a <= Len(s) =>
         /\ Len(v) = IF a + p <= Len(s) THEN a + p ELSE Len(s)
         /\ \A k \in 1..Len(v) : \/ k \in 1..Len(w) /\ v[k] = w[k]
                                 \/ k \in 1..Len(s) /\ v[k] = s[k]

LEMMA SliceLength ==
    ASSUME NEW a \in Nat, NEW n \in Nat, NEW p \in Nat \ {0}, NEW m \in Nat, NEW top \in Nat,
           a <= n, top = IF a + p <= n THEN a + p ELSE n,
           m = IF a + 1 <= top THEN top - (a + 1) + 1 ELSE 0
    PROVE  a + m = IF a + p <= n THEN a + p ELSE n
OBVIOUS

LEMMA NextSlice ==
    ASSUME NEW S, NEW w \in Seq(S), NEW s \in Seq(S), NEW a \in Nat, NEW p \in Nat \ {0},
           NEW v, v = w \o SubSeq(s, a + 1, Min({a + p, Len(s)}))
    PROVE  v \in Seq(S) /\ Continues(v, w, s, a, p)
<1> DEFINE n == Len(s)
           l == Len(w)
           top == Min({a + p, n})
           t == SubSeq(s, a + 1, top)
<1>1. n \in Nat /\ l \in Nat
  OBVIOUS
<1>2. top = (IF a + p <= n THEN a + p ELSE n) /\ top \in Nat /\ top <= n
  <2>1. a + p \in Nat /\ n \in Nat
    BY <1>1
  <2> HIDE DEF n
  <2>2. top = IF a + p <= n THEN a + p ELSE n
    BY <2>1, LesserOf
  <2> HIDE DEF top
  <2>3. CASE a + p <= n
    BY <2>1, <2>2, <2>3
  <2>4. CASE ~(a + p <= n)
    BY <2>1, <2>2, <2>4
  <2> QED
    BY <2>3, <2>4
<1> HIDE DEF top
<1>3. /\ t \in Seq(S)
      /\ Len(t) = IF a + 1 <= top THEN top - (a + 1) + 1 ELSE 0
      /\ \A i \in 1..(top - (a + 1) + 1) : t[i] = s[(a + 1) + i - 1]
  <2>1. \A i \in (a + 1)..top : s[i] \in S
    BY <1>1, <1>2, ElementOfSeq
  <2>2. a + 1 \in Int /\ top \in Int
    BY <1>2
  <2> QED
    BY <2>1, <2>2, SubSeqProperties
<1>4. /\ v \in Seq(S) /\ Len(v) = l + Len(t)
      /\ \A k \in 1..(l + Len(t)) : v[k] = IF k <= l THEN w[k] ELSE t[k - l]
  <2>1. t \in Seq(S) /\ v = w \o t
    BY <1>3 DEF top
  <2> HIDE DEF t
  <2> QED
    BY <2>1, ConcatProperties
<1> DEFINE m == Len(t)
<1> HIDE DEF t, n, l, m
<1>5. m \in Nat /\ \A i \in 1..m : t[i] = s[a + i] /\ a + i \in 1..n
  <2>1. m \in Nat
    BY <1>3, LenProperties DEF m
  <2>2. m = IF a + 1 <= top THEN top - (a + 1) + 1 ELSE 0
    BY <1>3 DEF m
  <2>3. ASSUME NEW i \in 1..m
        PROVE  t[i] = s[a + i] /\ a + i \in 1..n
    <3>1. i \in 1..(top - (a + 1) + 1) /\ (a + 1) + i - 1 = a + i /\ a + i \in 1..n
      BY <1>1, <1>2, <2>1, <2>2
    <3>2. t[i] = s[(a + 1) + i - 1]
      BY <1>3, <3>1
    <3> QED
      BY <3>1, <3>2
  <2> QED
    BY <2>1, <2>3
<1>6. ASSUME NEW k \in 1..Len(v)
      PROVE  \/ k \in 1..l /\ v[k] = w[k]
             \/ /\ k - l \in 1..m /\ v[k] = s[a + (k - l)]
                /\ a + (k - l) \in 1..n
  <2>1. CASE k <= l
    <3>1. k \in 1..l /\ k \in 1..(l + Len(t))
      BY <1>1, <1>4, <2>1
    <3> QED
      BY <1>4, <2>1, <3>1
  <2>2. CASE ~(k <= l)
    <3>1. k - l \in 1..m /\ k \in 1..(l + m)
      BY <1>1, <1>4, <1>5, <2>2 DEF m
    <3>2. v[k] = t[k - l]
      BY <1>4, <2>2, <3>1 DEF m
    <3> QED
      BY <1>5, <3>1, <3>2
  <2> QED
    BY <2>1, <2>2
<1>7. \A k \in 1..Len(v) : \/ \E i \in 1..l : v[k] = w[i]
                           \/ \E i \in 1..n : v[k] = s[i]
  BY <1>6
<1>8. ASSUME l = a, a <= n
      PROVE  /\ Len(v) = IF a + p <= n THEN a + p ELSE n
             /\ \A k \in 1..Len(v) : \/ k \in 1..l /\ v[k] = w[k]
                                     \/ k \in 1..n /\ v[k] = s[k]
  <2>1. Len(v) = IF a + p <= n THEN a + p ELSE n
    <3>1. Len(v) = a + m /\ m = IF a + 1 <= top THEN top - (a + 1) + 1 ELSE 0
      BY <1>3, <1>4, <1>8 DEF m
    <3>2. a + m = IF a + p <= n THEN a + p ELSE n
      BY <1>1, <1>2, <1>5, <1>8, <3>1, SliceLength
    <3> QED
      BY <3>1, <3>2
  <2>2. ASSUME NEW k \in 1..Len(v)
        PROVE  \/ k \in 1..l /\ v[k] = w[k]
               \/ k \in 1..n /\ v[k] = s[k]
    <3>1. a + (k - l) = k
      BY <1>1, <1>8
    <3> QED
      BY <1>6, <3>1
  <2> QED
    BY <2>1, <2>2
<1> QED
  BY <1>4, <1>7, <1>8 DEF Continues, n, l

\* A listing nothing is left to read for is complete.
LEMMA ListedComplete ==
    ASSUME NEW st \in [Runs -> {"none", "RUNNING"} \union Terminal], NEW items \in Seq(View),
           IsFiniteSet(Listed(st)), Lists(number, st, items, <<>>)
    PROVE  Complete(st, items)
<1> DEFINE n == Len(items)
<1>1. n \in Nat
  OBVIOUS
<1>2. Len(<<>>) = 0 /\ n + 0 = n
  BY <1>1
<1>3. \A k \in 1..n : Entry(items, <<>>, k) = items[k].run
  BY <1>1 DEF Entry
<1>4. Cardinality(Listed(st)) = n
  BY <1>2 DEF Lists
<1>5. \A k \in 1..n : items[k].run \in Listed(st) /\ items[k].status = st[items[k].run]
  BY <1>2, <1>3 DEF Lists
<1>6. \A i, j \in 1..n : i < j => number[items[i].run] > number[items[j].run]
  BY <1>2, <1>3 DEF Lists
<1> QED
  BY <1>4, <1>5, <1>6 DEF Complete

LEMMA ShowKeeps ==
    ASSUME RunsInvariant, PagesInvariant, ShowPage
    PROVE  PagesInvariant'
<1> DEFINE st == page.reads[Len(page.reads)]
           n == Len(page.items)
           s == Sorted(page.items)
           walk == page.walk \o SubSeq(s, page.offset + 1, Min({page.offset + PageSize, Len(s)}))
<1>1. /\ page \in Page /\ Found /\ Rests /\ Walking /\ Finals
      /\ page.at = "building" /\ page.todo = <<>>
      /\ UNCHANGED <<status, number, rows, timeouts>>
  BY PageReads DEF PagesInvariant, ShowPage
<1>2. /\ n \in Nat /\ page.items \in Seq(View) /\ page.offset \in Nat
      /\ page.walk \in Seq(View) /\ Len(page.walk) \in Nat
      /\ PageSize \in Nat \ {0}
  BY <1>1, PageTypes, RunsAssumption DEF RunsAssumption
<1>5. Complete(st, page.items)
  <2>1. /\ st \in [Runs -> {"none", "RUNNING"} \union Terminal] /\ IsFiniteSet(Listed(st))
        /\ Lists(number, st, page.items, <<>>)
    BY <1>1, BuildingFacts
  <2> HIDE DEF st
  <2> QED
    BY <1>2, <2>1, ListedComplete
<1>3. page' = [page EXCEPT !.at = "shown", !.total = n, !.items = <<>>, !.walk = walk]
  <2>1. Len(s) = n
    BY <1>1, <1>5, SortedItems
  <2>2. page' = [page EXCEPT !.at = "shown", !.total = n, !.items = <<>>,
                   !.walk = page.walk \o SubSeq(s, page.offset + 1, Min({page.offset + PageSize, n}))]
    BY <1>1 DEF ShowPage, Page
  <2> QED
    BY <2>1, <2>2
<1>4. /\ page'.at = "shown" /\ page'.todo = page.todo /\ page'.items = <<>>
      /\ page'.order = page.order /\ page'.offset = page.offset /\ page'.total = n
      /\ page'.walk = walk /\ page'.reads = page.reads
  BY <1>1, <1>3 DEF Page
<1>6. /\ s \in Seq(View) /\ Len(s) = n
      /\ \A k \in 1..n :
           /\ \E i \in 1..n : s[k] = page.items[i]
           /\ Cardinality(AheadIn(page.order, number, st, s[k].run)) = k - 1
  <2> DEFINE i == page.items
  <2>1. Complete(st, i) /\ page \in Page
    BY <1>1, <1>5
  <2> HIDE DEF st, i
  <2>2. /\ Sorted(i) \in Seq(View) /\ Len(Sorted(i)) = Len(i)
        /\ \A k \in 1..Len(i) :
             /\ \E j \in 1..Len(i) : Sorted(i)[k] = i[j]
             /\ Cardinality(AheadIn(page.order, number, st, Sorted(i)[k].run)) = k - 1
    BY <2>1, SortedItems
  <2> QED
    BY <2>2 DEF i
<1>7. /\ Cardinality(Listed(st)) = n
      /\ \A i \in 1..n : page.items[i].run \in Listed(st)
  BY <1>5 DEF Complete
<1> HIDE DEF s, st, n
<1>8. /\ walk \in Seq(View)
      /\ \A k \in 1..Len(walk) : \/ \E i \in 1..Len(page.walk) : walk[k] = page.walk[i]
                                 \/ \E i \in 1..n : walk[k] = s[i]
      /\ Len(page.walk) = page.offset /\ page.offset <= n =>
           /\ Len(walk) = IF page.offset + PageSize <= n THEN page.offset + PageSize ELSE n
           /\ \A k \in 1..Len(walk) : \/ k \in 1..Len(page.walk) /\ walk[k] = page.walk[k]
                                      \/ k \in 1..n /\ walk[k] = s[k]
  <2>1. walk \in Seq(View) /\ Continues(walk, page.walk, s, page.offset, PageSize)
    BY <1>2, <1>6, NextSlice
  <2> HIDE DEF walk
  <2> QED
    BY <1>6, <2>1 DEF Continues
<1> HIDE DEF walk
<1>12. page' \in Page
  <2>1. <<>> \in Seq(View)
    OBVIOUS
  <2> QED
    BY <1>1, <1>2, <1>3, <1>8, <2>1 DEF Page
<1>13. Found' /\ Rests' /\ Built'
  BY <1>1, <1>4 DEF Found, Rests, Built, Exists
<1>14. Walking'
  <2> SUFFICES ASSUME Steady, page.reads # <<>> PROVE Walking'
    BY <1>4 DEF Walking, Steady
  <2>1. page.reads[1] = st
    <3>1. Len(page.reads) \in DOMAIN page.reads
      BY <1>1, PageTypes, BuildingFacts
    <3> QED
      BY <3>1 DEF Steady, st
  <2>2. /\ Len(page.walk) = page.offset /\ page.offset <= n
        /\ \A k \in 1..Len(page.walk) :
             /\ page.walk[k].run \in Listed(st)
             /\ Cardinality(AheadIn(page.order, number, st, page.walk[k].run)) = k - 1
    BY <1>1, <1>7, <2>1 DEF Walking
  <2>3. Len(walk) = IF page.offset + PageSize <= n THEN page.offset + PageSize ELSE n
    BY <1>8, <2>2
  <2>4. ASSUME NEW k \in 1..Len(walk)
        PROVE  /\ walk[k].run \in Listed(st)
               /\ Cardinality(AheadIn(page.order, number, st, walk[k].run)) = k - 1
    <3>1. CASE k \in 1..Len(page.walk) /\ walk[k] = page.walk[k]
      BY <2>2, <3>1
    <3>2. CASE k \in 1..n /\ walk[k] = s[k]
      BY <1>6, <1>7, <3>2
    <3> QED
      BY <1>8, <2>2, <3>1, <3>2
  <2> QED
    BY <1>1, <1>4, <1>7, <2>1, <2>3, <2>4 DEF Walking
<1>15. Finals'
  <2> SUFFICES ASSUME timeouts = 0 PROVE Finals'
    BY <1>1 DEF Finals
  <2>1. /\ \A i \in 1..n : Final(status, rows, page.items[i])
        /\ \A i \in 1..Len(page.walk) : Final(status, rows, page.walk[i])
    BY <1>1 DEF Finals, n
  <2>2. ASSUME NEW k \in 1..Len(walk)
        PROVE  Final(status, rows, walk[k])
    <3>1. ASSUME NEW i \in 1..n
          PROVE  Final(status, rows, s[i])
      BY <1>6, <2>1
    <3> QED
      BY <1>8, <2>1, <3>1
  <2>3. Len(<<>>) = 0
    OBVIOUS
  <2> QED
    BY <1>1, <1>4, <2>2, <2>3 DEF Finals
<1> QED
  BY <1>12, <1>13, <1>14, <1>15 DEF PagesInvariant

LEMMA PagesInit == Init => PagesInvariant
<1> SUFFICES ASSUME Init PROVE PagesInvariant
  OBVIOUS
<1>1. /\ page.at = "closed" /\ page.order \in Orders /\ page.offset = 0 /\ page.todo = <<>>
      /\ page.items = <<>> /\ page.total = 0 /\ page.walk = <<>> /\ page.reads = <<>>
  BY DEF Init
<1>2. /\ <<>> \in Seq(Runs) /\ <<>> \in Seq(View)
      /\ <<>> \in Seq([Runs -> {"none", "RUNNING"} \union Terminal])
      /\ Len(<<>>) = 0 /\ DOMAIN <<>> = {}
  OBVIOUS
<1>3. page \in Page
  <2>1. 0 \in Nat
    OBVIOUS
  <2>2. [at : {"closed"}, order : Orders, offset : {0}, todo : {<<>>},
         items : {<<>>}, total : {0}, walk : {<<>>}, reads : {<<>>}] \subseteq Page
    BY <1>2, <2>1 DEF Page
  <2> QED
    BY <2>2 DEF Init
<1> QED
  BY <1>1, <1>2, <1>3 DEF PagesInvariant, Found, Rests, Built, Walking, Finals

LEMMA PagesStep ==
    ASSUME RunsInvariant, PagesInvariant, [Next]_vars
    PROVE  PagesInvariant'
<1>1. CASE page' = page
  BY <1>1, OthersKeep
<1>2. CASE AskPage \/ ListRuns \/ ReadSteps \/ ShowPage
  BY <1>2, AskKeeps, ListKeeps, ReadKeeps, ShowKeeps
<1>3. ASSUME NEW c \in Contexts,
             \/ Enter(c) \/ LogBatch(c) \/ EndInBody(c) \/ Exit(c)
             \/ Deliver(c) \/ LoseAnswer(c) \/ TimeOut(c) \/ Kill(c)
      PROVE  page' = page
  BY <1>3 DEF Enter, LogBatch, EndInBody, Exit, Deliver, LoseAnswer, TimeOut, Kill
<1>4. ASSUME NEW i \in DOMAIN calls, Handle(i) \/ HandlerFails(i)
      PROVE  page' = page
  BY <1>4 DEF Handle, ReadNumber, ReadRun, InsertRun, EndRun, UpsertRow, CommitBatch,
              AbortDeadlocked, HandlerFails
<1>5. CASE UNCHANGED vars
  BY <1>1, <1>5 DEF vars
<1> QED
  BY <1>1, <1>2, <1>3, <1>4, <1>5 DEF Next

\* Every listing in the making holds the runs its first statement has found, and the pages
\* shown are the beginning of one order of the runs as long as nothing has changed between
\* them, whatever calls are served meanwhile.
THEOREM PagesCorrect == Spec => [](RunsInvariant /\ PagesInvariant)
<1>1. Init => PagesInvariant
  BY PagesInit
<1>2. RunsInvariant /\ PagesInvariant /\ [Next]_vars => PagesInvariant'
  BY PagesStep
<1> QED
  BY <1>1, <1>2, RunsCorrect, PTL DEF Spec

\* Every value is of its type, the page and what it shows included.
THEOREM TypeCorrect == Spec => []TypeOK
<1>1. RunsInvariant /\ PagesInvariant => TypeOK
  BY DEF RunsInvariant, PagesInvariant, TypeOK
<1> QED
  BY <1>1, PagesCorrect, PTL

\* Whoever goes through the pages sees every run exactly once as long as nothing has changed
\* between them, and no run is shown to have ended without its final metrics.
THEOREM PagesShow == Spec => []PagesShowTheRuns
<1>1. RunsInvariant /\ PagesInvariant => PagesShowTheRuns
  <2> SUFFICES ASSUME RunsInvariant, PagesInvariant, page.at = "shown"
               PROVE  /\ Steady => Cardinality(Walked) = Len(page.walk)
                      /\ Steady /\ page.offset + PageSize >= page.total
                           => Walked = {r \in Runs : page.reads[1][r] # "none"}
                      /\ timeouts = 0 => \A i \in DOMAIN page.walk :
                           page.walk[i].status \in Terminal
                             => page.walk[i].latest = Latest(page.walk[i].run)
    BY DEF PagesShowTheRuns, Steady
  <2> DEFINE n == Len(page.walk)
             f == [k \in 1..n |-> page.walk[k].run]
             st == page.reads[1]
  <2>1. /\ page \in Page /\ Found /\ Rests /\ Walking /\ Finals
        /\ n \in Nat /\ DOMAIN page.walk = 1..n
        /\ \A k \in 1..n : page.walk[k] \in View
    BY PageTypes DEF PagesInvariant
  <2>2. Walked = {page.walk[k].run : k \in 1..n}
    BY <2>1 DEF Walked
  <2>3. ASSUME Steady
        PROVE  /\ page.total = Cardinality(Listed(st))
               /\ n = IF page.offset + PageSize <= page.total THEN page.offset + PageSize
                      ELSE page.total
               /\ \A k \in 1..n :
                    /\ page.walk[k].run \in Listed(st)
                    /\ Cardinality(AheadIn(page.order, number, st, page.walk[k].run)) = k - 1
    BY <2>1, <2>3 DEF Walking, Rests
  <2>4. ASSUME Steady
        PROVE  Cardinality(Walked) = n
    <3>1. \A i, j \in 1..n : page.walk[i].run = page.walk[j].run => i = j
      <4> SUFFICES ASSUME NEW i \in 1..n, NEW j \in 1..n, page.walk[i].run = page.walk[j].run
                   PROVE  i = j
        OBVIOUS
      <4>1. i - 1 = j - 1
        BY <2>3, <2>4
      <4> QED
        BY <4>1
    <3>2. f \in [1..n -> Walked] /\ DOMAIN f = 1..n /\ \A k \in 1..n : f[k] = page.walk[k].run
      BY <2>2
    <3> HIDE DEF f
    <3>3. IsInjective(f)
      BY <3>1, <3>2 DEF IsInjective
    <3>4. f \in Injection(1..n, Walked)
      BY <3>2, <3>3 DEF Injection
    <3>5. \A r \in Walked : \E k \in 1..n : f[k] = r
      BY <2>2, <3>2
    <3>6. f \in Bijection(1..n, Walked)
      BY <3>2, <3>4, <3>5 DEF Bijection, Surjection
    <3>7. ExistsBijection(1..n, Walked)
      BY <3>6 DEF ExistsBijection
    <3>8. IsFiniteSet(1..n) /\ Cardinality(1..n) = n
      BY <2>1, FS_Interval
    <3> QED
      BY <3>7, <3>8, FS_Bijection
  <2>5. ASSUME Steady, page.offset + PageSize >= page.total
        PROVE  Walked = Listed(st)
    <3>1. IsFiniteSet(Listed(st))
      <4>1. 1 \in DOMAIN page.reads
        BY <2>1, PageTypes DEF Rests
      <4>2. Listed(st) \in SUBSET Existing /\ IsFiniteSet(Existing)
        BY <2>1, <4>1 DEF Found, Listed, Existing, RunsInvariant, Numbered
      <4> QED
        BY <4>2, FS_Subset
    <3>2. Walked \in SUBSET Listed(st)
      BY <2>2, <2>3, <2>5
    <3>3. n = Cardinality(Listed(st))
      <4>1. page.offset + PageSize \in Nat /\ page.total \in Nat
        BY <2>1, PageTypes, RunsAssumption DEF RunsAssumption
      <4> QED
        BY <2>3, <2>5, <4>1
    <3> QED
      BY <2>4, <2>5, <3>1, <3>2, <3>3, FS_Subset
  <2>6. ASSUME timeouts = 0, NEW i \in DOMAIN page.walk, page.walk[i].status \in Terminal
        PROVE  page.walk[i].latest = Latest(page.walk[i].run)
    <3>1. page.walk[i].run \in Runs
      BY <2>1 DEF View
    <3>2. page.walk[i].latest = LatestIn(rows[page.walk[i].run])
      BY <2>1, <2>6 DEF Finals, Final
    <3> QED
      BY <3>1, <3>2, LatestType
  <2> QED
    BY <2>4, <2>5, <2>6 DEF Listed
<1> QED
  BY <1>1, PagesCorrect, PTL
=============================================================================
