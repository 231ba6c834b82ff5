-------------------------- MODULE DatasetRegistry --------------------------
(***************************************************************************)
(* Dataset versions of one user: the SDK's upload_dataset in scripts, the   *)
(* handler of datasets:upload, MinIO's bucket and the webhook by which it   *)
(* reports a stored object, and download_dataset.                           *)
(*                                                                         *)
(* The handler is one PostgreSQL transaction under READ COMMITTED: each of  *)
(* its statements sees what is committed when it starts.  It answers before *)
(* it commits, because get_db, a dependency with yield, is left after the   *)
(* response has been sent.                                                  *)
(*                                                                         *)
(* Definitions named Bug... are not part of the specification: each is the  *)
(* definition below it with a plausible programming error.                  *)
(***************************************************************************)
EXTENDS Naturals, Sequences, FiniteSets

CONSTANTS
    Uploads,        \* calls of upload_dataset
    Names,          \* dataset names
    Slugs,
    Types,          \* file types
    NameOf,         \* [Uploads -> Names]
    TypeOf,         \* [Uploads -> Types]
    Candidates,     \* [Names -> Seq(Slugs)] slug_candidate(slugify(name), 1, 2, ...)
    Wanted,         \* bound: slug and version a download asks for, 0 for the latest
    None,
    MaxFaults       \* bound: transactions that break, reports that are lost, calls given up

ASSUME DatasetsAssumption ==
    /\ IsFiniteSet(Uploads)
    /\ NameOf \in [Uploads -> Names] /\ TypeOf \in [Uploads -> Types]
    /\ Candidates \in [Names -> Seq(Slugs)]
    /\ \A n \in Names : Len(Candidates[n]) > Cardinality(Uploads)
    /\ \A n \in Names : \A i, j \in DOMAIN Candidates[n] :
         Candidates[n][i] = Candidates[n][j] => i = j
    /\ Wanted \subseteq Slugs \X Nat
    /\ None \notin Uploads \union Slugs
    /\ MaxFaults \in Nat

Versions == 1..Cardinality(Uploads)

\* An object in the bucket: {user_id}/{slug}/v{version}.{file_type}.
Key == Slugs \X Versions \X Types

VARIABLES
    up,         \* [Uploads -> Upload] the handler's locals and the row it inserts
    script,     \* [Uploads -> ...] where upload_dataset is
    status,     \* [Uploads -> ...] status_id of the row upload u inserts
    uri,        \* [Uploads -> Types] the file type in its s3_uri
    store,      \* [Key -> Uploads \union {None}] whose bytes the bucket holds
    events,     \* keys of stored objects MinIO has still to report
    lost,       \* keys whose report has not reached the control plane
    reader,     \* a script that calls download_dataset, once or more
    faults      \* environment events so far

tables == <<up, status, uri>>
bucket == <<store, events, lost>>
vars   == <<up, script, status, uri, store, events, lost, reader, faults>>

\* "unsure" has answered and not committed, "lost" has answered and was rolled back.
Stages == {"idle", "latest", "slug", "version", "insert", "inserted",
           "unsure", "committed", "failed", "lost"}

\* The stages in which the version is known.
Numbered == {"insert", "inserted", "unsure", "committed", "lost"}

Upload == [at : Stages, slug : Slugs \union {None}, tried : Nat, version : Nat]

Reader == [at      : {"idle", "listed", "linked"},
           slug    : Slugs \union {None},
           version : Nat,           \* the version asked for, 0 for the latest
           seen    : Nat,           \* version in the metadata it has read
           link    : Key \union {None}]

NoDownload == [at |-> "idle", slug |-> None, version |-> 0, seen |-> 0, link |-> None]

TypeOK ==
    /\ up \in [Uploads -> Upload]
    /\ script \in [Uploads -> {"idle", "asked", "url", "poll", "returned", "raised"}]
    /\ status \in [Uploads -> {"PENDING", "READY"}]
    /\ uri \in [Uploads -> Types]
    /\ store \in [Key -> Uploads \union {None}]
    /\ events \subseteq Key /\ lost \subseteq Key
    /\ reader \in Reader
    /\ faults \in 0..MaxFaults
    /\ \A u \in Uploads :
         /\ up[u].at \in {"version"} \union Numbered => up[u].slug # None
         /\ up[u].at \in Numbered => up[u].version \in Versions
         /\ script[u] \in {"url", "poll"} => up[u].at \in {"unsure", "committed", "lost"}
         /\ script[u] = "idle" => up[u].at = "idle"
         /\ status[u] = "READY" => up[u].at = "committed"

Init ==
    /\ up = [u \in Uploads |-> [at |-> "idle", slug |-> None, tried |-> 0, version |-> 0]]
    /\ script = [u \in Uploads |-> "idle"]
    /\ status = [u \in Uploads |-> "PENDING"]
    /\ uri = TypeOf
    /\ store = [k \in Key |-> None]
    /\ events = {} /\ lost = {}
    /\ reader = NoDownload
    /\ faults = 0

-----------------------------------------------------------------------------
(* The dataset table.                                                      *)

\* A version taken, and waited for, as soon as it is computed.
BugUncommitted == {u \in Uploads : up[u].at \in {"insert", "inserted", "unsure"}}

Committed   == {u \in Uploads : up[u].at = "committed"}
Uncommitted == {u \in Uploads : up[u].at \in {"inserted", "unsure"}}

RowsOf(s)  == {u \in Committed : up[u].slug = s}
ReadyOf(s) == {u \in RowsOf(s) : status[u] = "READY"}
NamedAs(n) == {u \in Committed : NameOf[u] = n}

\* The object name of u's version.
KeyOf(u) == <<up[u].slug, up[u].version, TypeOf[u]>>

\* UNIQUE (user_id, name, version) left out of the schema.
BugNameFree(u, v) == u # v /\ up[u].slug = up[v].slug /\ up[u].version = up[v].version

\* UNIQUE (user_id, slug, version) left out of the schema.
BugSlugFree(u, v) == u # v /\ NameOf[u] = NameOf[v] /\ up[u].version = up[v].version

\* The two rows violate a unique constraint: UQ_dataset_user_slug_version or
\* UQ_dataset_user_name_version.
Conflict(u, v) ==
    /\ u # v /\ up[u].version = up[v].version
    /\ up[u].slug = up[v].slug \/ NameOf[u] = NameOf[v]

-----------------------------------------------------------------------------
(* initiate_upload.                                                        *)

Fail(u) == up' = [up EXCEPT ![u].at = "failed"]

\* get_latest_by_name: a known name keeps its slug.
ReadLatest(u) ==
    /\ up[u].at = "latest"
    /\ LET named == NamedAs(NameOf[u])
           top == {v \in named : \A w \in named : up[w].version <= up[v].version}
       IN \/ /\ named = {}
             /\ up' = [up EXCEPT ![u].at = "slug"]
          \/ \E v \in top :
                up' = [up EXCEPT ![u].at = "version", ![u].slug = up[v].slug]
    /\ UNCHANGED <<script, status, uri, bucket, reader, faults>>

\* slug_exists for the next candidate.  It asks for at most one row, so that a slug with
\* two versions or more raises MultipleResultsFound.
TrySlug(u) ==
    /\ up[u].at = "slug"
    /\ up[u].tried < Len(Candidates[NameOf[u]])
    /\ LET s == Candidates[NameOf[u]][up[u].tried + 1] IN
       \/ /\ RowsOf(s) = {}
          /\ up' = [up EXCEPT ![u].at = "version", ![u].slug = s]
       \/ /\ \E v \in RowsOf(s) : RowsOf(s) = {v}
          /\ up' = [up EXCEPT ![u].tried = @ + 1]
       \/ /\ \E v, w \in RowsOf(s) : v # w
          /\ Fail(u)
    /\ UNCHANGED <<script, status, uri, bucket, reader, faults>>

\* get_next_version: n is one more than the greatest version of the slug.
IsNextVersion(s, n) ==
    /\ \A v \in RowsOf(s) : up[v].version < n
    /\ n = 1 \/ \E v \in RowsOf(s) : up[v].version = n - 1

ReadVersion(u) ==
    /\ up[u].at = "version"
    /\ \E n \in Versions :
         /\ IsNextVersion(up[u].slug, n)
         /\ up' = [up EXCEPT ![u].at = "insert", ![u].version = n]
    /\ UNCHANGED <<script, status, uri, bucket, reader, faults>>

\* INSERT: waits for the transaction that has inserted a conflicting row to end, and
\* fails if that has committed.
InsertRow(u) ==
    /\ up[u].at = "insert"
    /\ ~\E v \in Uncommitted : Conflict(u, v)
    /\ \/ /\ \E v \in Committed : Conflict(u, v)
          /\ Fail(u)
       \/ /\ ~\E v \in Committed : Conflict(u, v)
          /\ up' = [up EXCEPT ![u].at = "inserted"]
    /\ UNCHANGED <<script, status, uri, bucket, reader, faults>>

\* generate_upload_url, and the answer is sent.
Answer(u) ==
    /\ up[u].at = "inserted"
    /\ up' = [up EXCEPT ![u].at = "unsure"]
    /\ script' = [script EXCEPT ![u] = IF @ = "asked" THEN "url" ELSE @]
    /\ UNCHANGED <<status, uri, bucket, reader, faults>>

Commit(u) ==
    /\ up[u].at = "unsure"
    /\ up' = [up EXCEPT ![u].at = "committed"]
    /\ UNCHANGED <<script, status, uri, bucket, reader, faults>>

\* A statement or the COMMIT fails, or the process dies: the transaction is rolled back.
Break(u) ==
    /\ up[u].at \in Stages \ {"idle", "committed", "failed", "lost"}
    /\ faults < MaxFaults /\ faults' = faults + 1
    /\ up' = [up EXCEPT ![u].at = IF @ = "unsure" THEN "lost" ELSE "failed"]
    /\ UNCHANGED <<script, status, uri, bucket, reader>>

Handle(u) ==
    ReadLatest(u) \/ TrySlug(u) \/ ReadVersion(u) \/ InsertRow(u) \/ Answer(u) \/ Commit(u)

-----------------------------------------------------------------------------
(* upload_dataset in a script.                                             *)

Ask(u) ==
    /\ script[u] = "idle"
    /\ script' = [script EXCEPT ![u] = "asked"]
    /\ up' = [up EXCEPT ![u].at = "latest"]
    /\ UNCHANGED <<status, uri, bucket, reader, faults>>

\* _upload_to_signed_url: MinIO stores the object and will report it.
Put(u) ==
    /\ script[u] = "url"
    /\ script' = [script EXCEPT ![u] = "poll"]
    /\ store' = [store EXCEPT ![KeyOf(u)] = u]
    /\ events' = events \union {KeyOf(u)}
    /\ UNCHANGED <<tables, lost, reader, faults>>

Leave(u, how) == script' = [script EXCEPT ![u] = how]

\* _wait_for_dataset_ready: get_dataset until the row is READY; a row that is not there
\* raises NotFoundError.
Poll(u) ==
    /\ script[u] = "poll"
    /\ LET rows == {v \in RowsOf(up[u].slug) : up[v].version = up[u].version} IN
       \/ rows = {} /\ Leave(u, "raised")
       \/ \E v \in rows : status[v] = "READY" /\ Leave(u, "returned")
    /\ UNCHANGED <<tables, bucket, reader, faults>>

\* The deadline of ready_timeout, an HTTP timeout, an error answer, a failed PUT, or the
\* script is killed.  The handler goes on.
GiveUp(u) ==
    /\ script[u] \in {"asked", "url", "poll"}
    /\ faults < MaxFaults /\ faults' = faults + 1
    /\ Leave(u, "raised")
    /\ UNCHANGED <<tables, bucket, reader>>

-----------------------------------------------------------------------------
(* MinIO's webhook and confirm_upload.                                     *)

\* The version in the object's key not looked at.
BugAnyRow(k) == {u \in RowsOf(k[1]) : status[u] = "PENDING"}

\* Only the newest version of the dataset looked for.
BugNewestRow(k) ==
    {u \in RowsOf(k[1]) : up[u].version = k[2] /\ \A v \in RowsOf(k[1]) : up[v].version <= k[2]}

\* The rows mark_ready selects for an object's key: at most one.
NamedBy(k) == {u \in RowsOf(k[1]) : up[u].version = k[2]}

\* MinIO reports a stored object.  Without the row nothing is done, and MinIO, answered
\* 200 whatever happens, does not ask again.
Notify(k) ==
    /\ k \in events /\ events' = events \ {k}
    /\ status' = [u \in Uploads |-> IF u \in NamedBy(k) THEN "READY" ELSE status[u]]
    /\ uri' = [u \in Uploads |-> IF u \in NamedBy(k) THEN k[3] ELSE uri[u]]
    /\ UNCHANGED <<up, script, store, lost, reader, faults>>

\* The control plane cannot be reached, or the webhook's transaction fails.
LoseEvent(k) ==
    /\ k \in events /\ events' = events \ {k}
    /\ faults < MaxFaults /\ faults' = faults + 1
    /\ lost' = lost \union {k}
    /\ UNCHANGED <<tables, script, store, reader>>

-----------------------------------------------------------------------------
(* download_dataset.                                                       *)

Newest(rows) == {u \in rows : \A v \in rows : up[v].version <= up[u].version}

\* _resolve_latest_ready_dataset, or get_dataset for a version that is asked for.
ReadMetadata ==
    /\ reader.at = "idle"
    /\ \E w \in Wanted :
         LET rows == IF w[2] = 0 THEN Newest(ReadyOf(w[1]))
                     ELSE {u \in RowsOf(w[1]) : up[u].version = w[2]}
         IN \E u \in rows :
              reader' = [reader EXCEPT !.at = "listed", !.slug = w[1], !.version = w[2],
                                       !.seen = up[u].version]
    /\ UNCHANGED <<tables, script, bucket, faults>>

\* get_latest_ready without its ORDER BY.
BugLinked == IF reader.version = 0 THEN ReadyOf(reader.slug)
             ELSE {u \in ReadyOf(reader.slug) : up[u].version = reader.version}

\* The row get_latest_ready or get_ready_by_slug_and_version selects.
Linked == IF reader.version = 0 THEN Newest(ReadyOf(reader.slug))
          ELSE {u \in ReadyOf(reader.slug) : up[u].version = reader.version}

\* get_download_url and get_version_download_url: 404 when no version is READY.
GetUrl ==
    /\ reader.at = "listed"
    /\ \/ Linked = {} /\ reader' = NoDownload
       \/ \E u \in Linked :
            reader' = [reader EXCEPT !.at = "linked",
                                     !.link = <<up[u].slug, up[u].version, uri[u]>>]
    /\ UNCHANGED <<tables, script, bucket, faults>>

\* _download_from_signed_url, whatever the bucket holds at the key by now.
Fetch ==
    /\ reader.at = "linked"
    /\ reader' = NoDownload
    /\ UNCHANGED <<tables, script, bucket, faults>>

-----------------------------------------------------------------------------
Next ==
    \/ \E u \in Uploads :
         Handle(u) \/ Break(u) \/ Ask(u) \/ Put(u) \/ Poll(u) \/ GiveUp(u)
    \/ \E k \in Key : Notify(k) \/ LoseEvent(k)
    \/ ReadMetadata \/ GetUrl \/ Fetch

Spec == Init /\ [][Next]_vars

\* Handlers run to their end and MinIO reports what it stores.  Nothing makes a script
\* ask or upload.
FairSpec ==
    /\ Spec
    /\ WF_vars(\E u \in Uploads : Handle(u))
    /\ WF_vars(\E k \in events : Notify(k))

-----------------------------------------------------------------------------
(* Properties.                                                             *)

\* The versions under a slug are 1, 2, 3, ... without gaps or repetitions, although each
\* is computed from rows that other transactions are adding to.
VersionsAreConsecutive ==
    \A s \in Slugs : \A u \in RowsOf(s) :
        /\ \A n \in 1..up[u].version : \E v \in RowsOf(s) : up[v].version = n
        /\ \A v \in RowsOf(s) : up[u].version = up[v].version => u = v

SharesNoSlug(n) ==
    \A u \in NamedAs(n), v \in Committed : up[u].slug = up[v].slug => NameOf[v] = n

\* All versions of a dataset have the slug of its first version, also when first versions
\* of one name are uploaded at once and find different slugs free, as long as no other
\* name has got a version under its slug.
NamesKeepTheirSlug ==
    \A n \in Names : SharesNoSlug(n) =>
        \A u, v \in NamedAs(n) : up[u].slug = up[v].slug

\* A READY version's s3_uri names an object, and it holds what the upload that was given
\* this version has stored, or one that was given it by a transaction that was then lost.
ReadyHoldsItsUpload ==
    \A u \in Uploads : status[u] = "READY" =>
        LET by == store[<<up[u].slug, up[u].version, uri[u]>>] IN
        /\ by # None
        /\ by = u \/ /\ up[by].at = "lost"
                     /\ up[by].slug = up[u].slug /\ up[by].version = up[u].version

\* A download finds the version asked for, or for the latest one at least as new as the
\* metadata it decodes the bytes with, and the bytes were stored for that version.
DownloadsGetTheVersion ==
    reader.at = "linked" =>
        /\ IF reader.version = 0 THEN reader.link[2] >= reader.seen
                                 ELSE reader.link[2] = reader.version
        /\ store[reader.link] # None
        /\ LET by == store[reader.link] IN
           up[by].slug = reader.link[1] /\ up[by].version = reader.link[2]

\* A stored object whose row has been committed makes the version READY, unless the
\* report is lost: nothing else asks the bucket.
ReportedUploadsBecomeReady ==
    \A u \in Uploads :
        (up[u].at = "committed" /\ KeyOf(u) \in events)
            ~> (status[u] = "READY" \/ KeyOf(u) \in lost)

\* Every request ends: transactions that wait for one another's rows do not wait for ever.
RequestsEnd ==
    \A u \in Uploads :
        (up[u].at = "latest") ~> (up[u].at \in {"committed", "failed", "lost"})

\* What the documentation says of slugs: unique per user, one for each dataset name.
SlugsNameOneDataset ==
    \A u, v \in Committed : up[u].slug = up[v].slug => NameOf[u] = NameOf[v]

\* The version an upload was answered with, and for a version, by its slug and number, what
\* its row says and what the object that the row names holds.
Targets == [u \in Uploads |-> IF up[u].at \in {"unsure", "committed", "lost"}
                              THEN <<up[u].slug, up[u].version>> ELSE None]

StateOf(d) == IF NamedBy(d) = {} THEN "none"
              ELSE IF \E u \in NamedBy(d) : status[u] = "READY" THEN "READY" ELSE "PENDING"

ObjectOf(d) == LET u == CHOOSE u \in NamedBy(d) : TRUE
               IN IF NamedBy(d) = {} THEN None ELSE store[<<d[1], d[2], uri[u]>>]

Datasets == INSTANCE ArtifactVersions
    WITH Versions <- Slugs \X Versions, Writers <- Uploads, Nobody <- None, given <- Targets,
         state <- [d \in Slugs \X Versions |-> StateOf(d)],
         bytes <- [d \in Slugs \X Versions |-> ObjectOf(d)]

\* A version of a dataset is never taken back, is READY only when its bytes are there, and
\* is downloaded with the bytes of an upload that was answered with this version, although
\* row, object and report come about in three places and in any order.
VersionsAreArtifacts == Datasets!Spec
=============================================================================
