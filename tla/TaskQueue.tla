----------------------------- MODULE TaskQueue -----------------------------
(***************************************************************************)
(* What the deployment_task table promises its readers, whatever the       *)
(* number of workers: tasks are claimed oldest first, each by one worker   *)
(* and once in its life; only that worker settles it; a worker holds one   *)
(* task at a time.  A purge may withdraw tasks in any state.               *)
(***************************************************************************)
EXTENDS Naturals, Sequences

CONSTANTS Workers, Nobody

VARIABLES
    state,      \* sequence of task states, in created_at order
    holder      \* sequence of workers, or Nobody: who works on the task

queueVars == <<state, holder>>

Init == state = <<>> /\ holder = <<>>

Enqueue ==
    /\ state' = Append(state, "PENDING")
    /\ holder' = Append(holder, Nobody)

Holds(w) == \E i \in DOMAIN holder : holder[i] = w

Claim(w) ==
    \E i \in DOMAIN state :
        /\ state[i] = "PENDING"
        /\ \A j \in 1..(i - 1) : state[j] # "PENDING"
        /\ ~Holds(w)
        /\ state' = [state EXCEPT ![i] = "IN_PROGRESS"]
        /\ holder' = [holder EXCEPT ![i] = w]

\* The holder records how the task ended and lets go of it.  When the answer to
\* COMPLETED is lost it keeps the task and records FAILED over it.
Settle(i, outcome, keep) ==
    /\ holder[i] # Nobody
    /\ state[i] = "IN_PROGRESS" \/ (state[i] = "COMPLETED" /\ outcome = "FAILED")
    /\ state' = [state EXCEPT ![i] = outcome]
    /\ holder' = IF keep THEN holder ELSE [holder EXCEPT ![i] = Nobody]
    /\ keep => outcome = "COMPLETED"

\* The holder dies, or finds its task withdrawn.
LetGo(i) ==
    /\ holder[i] # Nobody
    /\ holder' = [holder EXCEPT ![i] = Nobody]
    /\ UNCHANGED state

Withdraw ==
    /\ \E S \in SUBSET DOMAIN state :
          state' = [i \in DOMAIN state |-> IF i \in S THEN "GONE" ELSE state[i]]
    /\ UNCHANGED holder

Next ==
    \/ Enqueue
    \/ \E w \in Workers : Claim(w)
    \/ \E i \in DOMAIN state, outcome \in {"COMPLETED", "FAILED"}, keep \in BOOLEAN :
         Settle(i, outcome, keep)
    \/ \E i \in DOMAIN state : LetGo(i)
    \/ Withdraw

Spec == Init /\ [][Next]_queueVars
=============================================================================
