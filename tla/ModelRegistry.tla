--------------------------- MODULE ModelRegistry ---------------------------
(***************************************************************************)
(* The versions of one model repository: log_model in scripts, callers that *)
(* replace the artifact of a version, the handlers of the requests they     *)
(* make, MinIO's bucket and webhook, and the repository's soft deletion.    *)
(*                                                                         *)
(* Every request is a PostgreSQL transaction under READ COMMITTED that is   *)
(* committed after its answer has been sent, so that the next request of    *)
(* the same script can start before.  The ORM keeps no row between two      *)
(* repository calls: each call selects the row again, and flushes an UPDATE *)
(* only when it sets another value than the one just read.                  *)
(*                                                                         *)
(* Definitions named Bug... are not part of the specification: each is the  *)
(* definition below it with a plausible programming error.                  *)
(***************************************************************************)
EXTENDS Naturals, FiniteSets

CONSTANTS
    Versions,       \* versions of models, all of one name
    Files,          \* names of objects under {user_id}/{slug}/{model name}/
    FilesOf,        \* [Versions -> SUBSET Files] the file names a version's artifacts have
    Clients,        \* scripts, each uploads one artifact
    None,
    MaxFaults       \* bound: transactions that break, reports lost, calls given up, the deletion

ASSUME ModelsAssumption ==
    /\ FilesOf \in [Versions -> SUBSET Files]
    /\ None \notin Versions \union Files \union Clients
    /\ MaxFaults \in Nat

VARIABLES
    row,        \* [Versions -> Row] the committed model rows
    deleted,    \* model_repository.is_deleted
    tx,         \* [Ids -> Tx] the transactions of requests and webhooks
    client,     \* [Clients -> Client] where each script is, and its artifact
    store,      \* [Files -> Clients \union {None}] whose bytes the bucket holds
    events,     \* stored objects MinIO has still to report
    faults      \* environment events so far

vars == <<row, deleted, tx, client, store, events, faults>>

\* A script makes each request once; of one object one report is served at a time.
Ids == (Clients \X {"create", "upload", "confirm"}) \union (Files \X {"hook"})

Row == [status : {"none", "PENDING", "READY"},
        file   : Files \union {None}]           \* the last part of s3_uri

\* "answered" is not committed yet; "lost" has answered and was rolled back.
Tx == [at   : {"none", "started", "read", "checked", "located", "answered",
               "committed", "failed", "lost"},
       v    : Versions \union {None},
       file : Files \union {None},      \* the location it has read or will set
       sets : SUBSET {"row", "file", "ready"}]  \* what it has written

Client == [at   : {"idle", "create", "upload", "put", "confirm", "done", "raised"},
           v    : Versions \union {None},
           file : Files \union {None}]

TypeOK ==
    /\ row \in [Versions -> Row]
    /\ deleted \in BOOLEAN
    /\ tx \in [Ids -> Tx]
    /\ client \in [Clients -> Client]
    /\ store \in [Files -> Clients \union {None}]
    /\ events \subseteq Files
    /\ faults \in 0..MaxFaults
    /\ \A v \in Versions : /\ row[v].status = "none" => row[v].file = None
                           /\ row[v].status = "READY" => row[v].file # None

Idle == [at |-> "none", v |-> None, file |-> None, sets |-> {}]

Init ==
    /\ row = [v \in Versions |-> [status |-> "none", file |-> None]]
    /\ deleted = FALSE
    /\ tx = [i \in Ids |-> Idle]
    /\ client = [c \in Clients |-> [at |-> "idle", v |-> None, file |-> None]]
    /\ store = [f \in Files |-> None]
    /\ events = {}
    /\ faults = 0

-----------------------------------------------------------------------------
(* Transactions.                                                           *)

InFlight(i) == tx[i].at \in {"started", "read", "checked", "located", "answered"}
Exists(v)   == row[v].status # "none"

\* Rows locked for sharing when they are read.
BugLocked(i) ==
    \E j \in Ids \ {i} : InFlight(j) /\ tx[j].v = tx[i].v /\ tx[j].at # "started"

\* Another transaction has inserted or updated the row and not ended.
Locked(i) ==
    \E j \in Ids \ {i} : InFlight(j) /\ tx[j].v = tx[i].v /\ tx[j].sets # {}

Goes(i, at) == tx' = [tx EXCEPT ![i].at = at]

\* i ends and its row locks with it; of a webhook's transaction nothing is remembered.
Ends(i, at) ==
    tx' = [tx EXCEPT ![i] = IF i[2] = "hook" THEN Idle ELSE [Idle EXCEPT !.at = at]]

\* i goes on to at and has written what.
Writes(i, at, what) == tx' = [tx EXCEPT ![i].at = at, ![i].sets = @ \union what]

\* The script of i, if it waits for i, goes on.
Tell(i, at) ==
    client' = [c \in Clients |->
                 IF i = <<c, client[c].at>> THEN [client[c] EXCEPT !.at = at] ELSE client[c]]

\* A request of script k starts.
Begin(k) == [at |-> "started", v |-> k.v, file |-> k.file, sets |-> {}]

\* 404, 409 or 500: the exception rolls the transaction back.
Refuse(i) ==
    /\ Ends(i, "failed")
    /\ Tell(i, "raised")
    /\ UNCHANGED <<row, deleted, store, events, faults>>

\* A row of a model is found by its version, in a repository that is not deleted.
Visible(v) == Exists(v) /\ ~deleted

\* create_model: the repository is looked up.
ReadRepository(c) ==
    LET i == <<c, "create">> IN
    /\ tx[i].at = "started"
    /\ \/ deleted /\ Refuse(i)
       \/ /\ ~deleted /\ Goes(i, "read")
          /\ UNCHANGED <<row, deleted, client, store, events, faults>>

\* UNIQUE (repository_id, version) left out of the schema.
BugTaken(v) == FALSE

\* The unique constraint on (repository_id, version).
Taken(v) == Exists(v)

\* The INSERT waits for another one of this version, and fails if that has committed.
\* Otherwise the answer is sent, and log_model asks for an upload URL.
InsertModel(c) ==
    LET i == <<c, "create">> IN
    /\ tx[i].at = "read" /\ ~Locked(i)
    /\ \/ Taken(tx[i].v) /\ Refuse(i)
       \/ /\ ~Taken(tx[i].v)
          /\ tx' = [tx EXCEPT ![i].at = "answered", ![i].sets = {"row"},
                              ![<<c, "upload">>] = IF client[c].at = "create"
                                                   THEN Begin(client[c]) ELSE @]
          /\ Tell(i, "upload")
          /\ UNCHANGED <<row, deleted, store, events, faults>>

\* get_upload_url: get_by_slug and get_by_version.
ReadForUpload(c) ==
    LET i == <<c, "upload">> IN
    /\ tx[i].at = "started"
    /\ \/ ~Visible(tx[i].v) /\ Refuse(i)
       \/ /\ Visible(tx[i].v) /\ Goes(i, "read")
          /\ UNCHANGED <<row, deleted, client, store, events, faults>>

\* update_s3_uri reads the row again: a value that is there is not written.
SameFile(i) == row[tx[i].v].file = tx[i].file

\* The version's location is set and the answer with the upload URL is sent.
Reserve(c) ==
    LET i == <<c, "upload">> IN
    /\ tx[i].at = "read"
    /\ \/ SameFile(i) /\ Goes(i, "answered")
       \/ ~SameFile(i) /\ ~Locked(i) /\ Writes(i, "answered", {"file"})
    /\ Tell(i, "put")
    /\ UNCHANGED <<row, deleted, store, events, faults>>

\* confirm_upload: get_by_slug and get_by_version; 409 without a location.
ReadForConfirm(c) ==
    LET i == <<c, "confirm">> IN
    /\ tx[i].at = "started"
    /\ \/ ~(Visible(tx[i].v) /\ row[tx[i].v].file # None) /\ Refuse(i)
       \/ /\ Visible(tx[i].v) /\ row[tx[i].v].file # None
          /\ tx' = [tx EXCEPT ![i].at = "read", ![i].file = row[tx[i].v].file]
          /\ UNCHANGED <<row, deleted, client, store, events, faults>>

\* The bucket not asked.
BugStored(f) == TRUE

\* object_exists.
Stored(f) == store[f] # None

CheckObject(c) ==
    LET i == <<c, "confirm">> IN
    /\ tx[i].at = "read"
    /\ \/ ~Stored(tx[i].file) /\ Refuse(i)
       \/ /\ Stored(tx[i].file) /\ Goes(i, "checked")
          /\ UNCHANGED <<row, deleted, client, store, events, faults>>

\* _mark_model_ready, first the location that was read ...
Relocate(i) ==
    /\ tx[i].at = "checked"
    /\ \/ SameFile(i) /\ Goes(i, "located")
       \/ ~SameFile(i) /\ ~Locked(i) /\ Writes(i, "located", {"file"})
    /\ UNCHANGED <<row, deleted, client, store, events, faults>>

\* ... then the status, and the answer.
MarkReady(i) ==
    /\ tx[i].at = "located"
    /\ \/ row[tx[i].v].status = "READY" /\ Goes(i, "answered")
       \/ row[tx[i].v].status # "READY" /\ ~Locked(i) /\ Writes(i, "answered", {"ready"})
    /\ Tell(i, "done")
    /\ UNCHANGED <<row, deleted, store, events, faults>>

\* What is written becomes visible.
Commit(i) ==
    /\ tx[i].at = "answered"
    /\ Ends(i, "committed")
    /\ LET t == tx[i] IN
       row' = [v \in Versions |->
                 IF v # t.v THEN row[v]
                 ELSE [status |-> IF "ready" \in t.sets THEN "READY"
                                  ELSE IF "row" \in t.sets THEN "PENDING" ELSE row[v].status,
                       file |-> IF "file" \in t.sets THEN t.file ELSE row[v].file]]
    /\ UNCHANGED <<deleted, client, store, events, faults>>

\* A statement or the COMMIT fails, or the process dies: the transaction is rolled back.
Break(i) ==
    /\ InFlight(i)
    /\ faults < MaxFaults /\ faults' = faults + 1
    /\ Ends(i, IF tx[i].at = "answered" THEN "lost" ELSE "failed")
    /\ Tell(i, "raised")
    /\ UNCHANGED <<row, deleted, store, events>>

-----------------------------------------------------------------------------
(* MinIO's webhook, confirm_upload_from_object_key.                        *)

\* Whatever version waits for its artifact.
BugAt(f) == {v \in Versions : row[v].status = "PENDING"}

At(f) == {v \in Versions : row[v].file = f}

\* get_by_s3_uri, which raises when two models have the location, and get_by_id of the
\* repository.  The answer is 200 whatever happens: the report is not repeated.
Notify(f) ==
    LET i == <<f, "hook">> IN
    /\ f \in events /\ events' = events \ {f}
    /\ ~InFlight(i)
    /\ IF Cardinality(At(f)) = 1 /\ ~deleted
       THEN \E v \in At(f) :
              tx' = [tx EXCEPT ![i] = [Idle EXCEPT !.at = "checked", !.v = v, !.file = f]]
       ELSE UNCHANGED tx
    /\ UNCHANGED <<row, deleted, client, store, faults>>

LoseEvent(f) ==
    /\ f \in events /\ events' = events \ {f}
    /\ faults < MaxFaults /\ faults' = faults + 1
    /\ UNCHANGED <<row, deleted, tx, client, store>>

-----------------------------------------------------------------------------
(* Scripts.                                                                *)

\* log_model's first request, the upload request of a caller that replaces the artifact
\* of a version, or the confirmation of one that has stored nothing.
Ask(c) ==
    /\ client[c].at = "idle"
    /\ \E v \in Versions, kind \in {"create", "upload", "confirm"} :
       \E f \in IF kind = "confirm" THEN {None} ELSE FilesOf[v] :
         LET k == [at |-> kind, v |-> v, file |-> f] IN
         /\ client' = [client EXCEPT ![c] = k]
         /\ tx' = [tx EXCEPT ![<<c, kind>>] = Begin(k)]
    /\ UNCHANGED <<row, deleted, store, events, faults>>

\* _upload_to_signed_url, and the request to confirm.
Put(c) ==
    /\ client[c].at = "put"
    /\ store' = [store EXCEPT ![client[c].file] = c]
    /\ events' = events \union {client[c].file}
    /\ client' = [client EXCEPT ![c].at = "confirm"]
    /\ tx' = [tx EXCEPT ![<<c, "confirm">>] = Begin(client[c])]
    /\ UNCHANGED <<row, deleted, faults>>

\* A timeout, an error answer or a failed PUT, or the script is killed.
GiveUp(c) ==
    /\ client[c].at \in {"create", "upload", "put", "confirm"}
    /\ faults < MaxFaults /\ faults' = faults + 1
    /\ client' = [client EXCEPT ![c].at = "raised"]
    /\ UNCHANGED <<row, deleted, tx, store, events>>

\* delete_repository.
DeleteRepository ==
    /\ ~deleted /\ deleted' = TRUE
    /\ faults < MaxFaults /\ faults' = faults + 1
    /\ UNCHANGED <<row, tx, client, store, events>>

-----------------------------------------------------------------------------
Finish(i) == Relocate(i) \/ MarkReady(i) \/ Commit(i)

Serve(c) ==
    \/ ReadRepository(c) \/ InsertModel(c) \/ ReadForUpload(c) \/ Reserve(c)
    \/ ReadForConfirm(c) \/ CheckObject(c)
    \/ \E kind \in {"create", "upload", "confirm"} : Finish(<<c, kind>>)

Next ==
    \/ \E c \in Clients : Serve(c) \/ Ask(c) \/ Put(c) \/ GiveUp(c)
    \/ \E f \in Files : Notify(f) \/ LoseEvent(f) \/ Finish(<<f, "hook">>)
    \/ \E i \in Ids : Break(i)
    \/ DeleteRepository

Spec == Init /\ [][Next]_vars

\* Handlers run to their end.
FairSpec ==
    /\ Spec
    /\ WF_vars(\E c \in Clients : Serve(c))
    /\ WF_vars(\E f \in Files : Finish(<<f, "hook">>))

-----------------------------------------------------------------------------
(* Properties.                                                             *)

\* What get_download_url gives a URL for.
Downloadable(v) == ~deleted /\ row[v].status = "READY" /\ row[v].file # None

\* The clients that have asked for an upload URL of v.
Askers(v) == {c \in Clients : client[c].v = v /\ tx[<<c, "upload">>].at # "none"}

OneLocation(v) == \A c, d \in Askers(v) : client[c].file = client[d].file

\* A model that can be downloaded has its bytes in the bucket, as long as nobody has asked
\* to replace its artifact by one of another name.
DownloadableIsStored ==
    \A v \in Versions : Downloadable(v) /\ OneLocation(v) => store[row[v].file] # None

\* The bytes a version is downloaded with were uploaded for that version.
DownloadsAreOfTheVersion ==
    \A v \in Versions : Downloadable(v) /\ store[row[v].file] # None =>
        client[store[row[v].file]].v = v

\* A script whose upload has been confirmed is served its own artifact, unless someone
\* else has asked to upload one to the version: the location and the status, written by
\* transactions that may be committed late, in any order or never, do not disagree.
ConfirmedIsServed ==
    \A c \in Clients : client[c].at = "done" /\ Askers(client[c].v) = {c} =>
        /\ row[client[c].v].file = client[c].file /\ store[client[c].file] = c
        /\ tx[<<c, "confirm">>].at = "committed" => row[client[c].v].status = "READY"

\* A script gets its upload URL or an error, and an artifact that is put is confirmed or
\* refused: transactions that wait for one another's rows do not wait for ever, and a
\* version whose confirmation has been answered becomes READY unless the transaction is
\* lost after that.
RequestsSettle ==
    \A c \in Clients :
        (client[c].at \in {"create", "upload", "confirm"})
            ~> (client[c].at \in {"put", "raised"} \/ tx[<<c, "confirm">>].at = "lost"
                \/ \E v \in Versions : client[c].v = v /\ row[v].status = "READY")

\* The version a script is about, and the object a version's row names.
Target(c)   == IF client[c].at = "idle" THEN None ELSE client[c].v
ObjectOf(v) == IF row[v].file = None THEN None ELSE store[row[v].file]

Models == INSTANCE ArtifactVersions
    WITH Writers <- Clients, Nobody <- None,
         given <- [c \in Clients |-> Target(c)],
         state <- [v \in Versions |-> row[v].status],
         bytes <- [v \in Versions |-> ObjectOf(v)]

\* A version of a model is never taken back, is READY only when its bytes are there, and is
\* downloaded with what was uploaded for it, as long as the artifacts of a version have one
\* name, which those of another version do not have.
VersionsAreArtifacts == Models!Spec
=============================================================================
