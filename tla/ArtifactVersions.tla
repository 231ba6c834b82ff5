-------------------------- MODULE ArtifactVersions --------------------------
(***************************************************************************)
(* What both registries promise about the versions of an artifact, however *)
(* the requests for them, the bucket and its reports interleave: a version *)
(* appears once and stays; what is stored for it comes from a writer that  *)
(* was given this version, and is never taken away; and the version is     *)
(* READY only after something has been stored, from then on for ever.      *)
(***************************************************************************)
CONSTANTS Versions, Writers, Nobody

VARIABLES
    given,      \* [Writers -> Versions \union {Nobody}] the version a writer may store
    state,      \* [Versions -> {"none", "PENDING", "READY"}]
    bytes       \* [Versions -> Writers \union {Nobody}] whose bytes it is downloaded with

versionVars == <<given, state, bytes>>

Init ==
    /\ given = [w \in Writers |-> Nobody]
    /\ state = [v \in Versions |-> "none"]
    /\ bytes = [v \in Versions |-> Nobody]

WritersOf(v) == {w \in Writers : given[w] = v}

Give(w, v) ==
    /\ given[w] = Nobody
    /\ given' = [given EXCEPT ![w] = v]
    /\ UNCHANGED <<state, bytes>>

\* The row is committed.  A writer that was quick has stored its bytes before.
Reserve(v) ==
    /\ state[v] = "none"
    /\ state' = [state EXCEPT ![v] = "PENDING"]
    /\ \E b \in {Nobody} \union WritersOf(v) : bytes' = [bytes EXCEPT ![v] = b]
    /\ UNCHANGED given

\* Bytes are stored, or the row is made to name others that have been.
Store(v) ==
    /\ state[v] # "none"
    /\ \E w \in WritersOf(v) : bytes' = [bytes EXCEPT ![v] = w]
    /\ UNCHANGED <<given, state>>

Confirm(v) ==
    /\ state[v] = "PENDING"
    /\ state' = [state EXCEPT ![v] = "READY"]
    /\ \E w \in WritersOf(v) : bytes' = [bytes EXCEPT ![v] = w]
    /\ UNCHANGED given

Next ==
    \/ \E w \in Writers, v \in Versions : Give(w, v)
    \/ \E v \in Versions : Reserve(v) \/ Store(v) \/ Confirm(v)

Spec == Init /\ [][Next]_versionVars
=============================================================================
