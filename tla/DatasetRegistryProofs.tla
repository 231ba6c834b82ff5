----------------------- MODULE DatasetRegistryProofs -----------------------
(***************************************************************************)
(* The slugs and versions of datasets, for any number of concurrent uploads *)
(* of any names; then what downloads get; and that the registry implements  *)
(* ArtifactVersions.                                                        *)
(*                                                                         *)
(* The argument: a version is one more than a committed one of its slug, so *)
(* that all smaller ones are committed too and stay so (Grounded); and the  *)
(* unique constraints keep rows that are in the table, committed or not,    *)
(* apart (Unique).  A name with two slugs would have a version 1 under each *)
(* of them, and both would be its own unless it shares a slug.              *)
(***************************************************************************)
EXTENDS DatasetRegistry, TLAPS, SequenceTheorems

Present == Committed \union Uncommitted

\* No two rows of the table violate a unique constraint.
Unique == \A u, v \in Present : ~Conflict(u, v)

\* Below a version that a request has computed every version of the slug is committed.
Grounded ==
    \A u \in Uploads : up[u].at \in Numbered =>
        \A n \in 1..(up[u].version - 1) :
            \E v \in RowsOf(up[u].slug) : up[v].version = n

TableInv == TypeOK /\ Unique /\ Grounded

-----------------------------------------------------------------------------
(* Types.                                                                  *)

LEMMA InitTypeOK == Init => TypeOK
  BY DatasetsAssumption DEF DatasetsAssumption, Init, TypeOK, Upload, Stages, Reader,
     NoDownload, Numbered

\* A step of u's handler replaces u's record.
LEMMA RecordShape ==
    ASSUME TypeOK, NEW u \in Uploads, NEW r \in Upload, up' = [up EXCEPT ![u] = r]
    PROVE  /\ up' \in [Uploads -> Upload]
           /\ up'[u] = r
           /\ \A v \in Uploads \ {u} : up'[v] = up[v]
  BY DEF TypeOK

\* If the new record is a good one, all types are kept.
LEMMA RecordTypeOK ==
    ASSUME TypeOK, NEW u \in Uploads, NEW r \in Upload, up' = [up EXCEPT ![u] = r],
           r.at \in {"version"} \union Numbered => r.slug # None,
           r.at \in Numbered => r.version \in Versions,
           up[u].at \in {"unsure", "committed", "lost"} =>
               r.at \in {"unsure", "committed", "lost"},
           up[u].at = "committed" => r.at = "committed",
           script' \in [Uploads -> {"idle", "asked", "url", "poll", "returned", "raised"}],
           \A v \in Uploads \ {u} : script'[v] = script[v],
           script'[u] \in {"url", "poll"} =>
               script[u] \in {"url", "poll"} \/ r.at = "unsure",
           script'[u] # "idle",
           faults' \in 0..MaxFaults,
           UNCHANGED <<status, uri, bucket, reader>>
    PROVE  TypeOK'
<1>1. /\ up' \in [Uploads -> Upload]
      /\ up'[u] = r
      /\ \A v \in Uploads \ {u} : up'[v] = up[v]
  BY RecordShape
<1>2. \A v \in Uploads :
         /\ up'[v].at \in {"version"} \union Numbered => up'[v].slug # None
         /\ up'[v].at \in Numbered => up'[v].version \in Versions
         /\ script'[v] \in {"url", "poll"} => up'[v].at \in {"unsure", "committed", "lost"}
         /\ script'[v] = "idle" => up'[v].at = "idle"
         /\ status[v] = "READY" => up'[v].at = "committed"
  <2> SUFFICES ASSUME NEW v \in Uploads
               PROVE  /\ up'[v].at \in {"version"} \union Numbered => up'[v].slug # None
                      /\ up'[v].at \in Numbered => up'[v].version \in Versions
                      /\ script'[v] \in {"url", "poll"} =>
                           up'[v].at \in {"unsure", "committed", "lost"}
                      /\ script'[v] = "idle" => up'[v].at = "idle"
                      /\ status[v] = "READY" => up'[v].at = "committed"
    OBVIOUS
  <2>1. CASE v = u
    BY <1>1, <2>1 DEF TypeOK
  <2>2. CASE v # u
    BY <1>1, <2>2 DEF TypeOK
  <2> QED
    BY <2>1, <2>2
<1> QED
  BY <1>1, <1>2 DEF TypeOK, bucket

\* The steps of the handler of a request keep all types.
LEMMA HandleTypeOK ==
    ASSUME TypeOK, NEW u \in Uploads, Handle(u)
    PROVE  TypeOK'
<1> USE DEF Upload, Stages, Numbered
<1>0. /\ up[u] \in Upload /\ faults' \in 0..MaxFaults /\ script[u] # "idle"
      /\ script \in [Uploads -> {"idle", "asked", "url", "poll", "returned", "raised"}]
  BY DEF TypeOK, Handle, ReadLatest, TrySlug, ReadVersion, InsertRow, Answer, Commit
<1>1. CASE ReadLatest(u)
  <2>1. CASE up' = [up EXCEPT ![u].at = "slug"]
    <3> DEFINE r == [up[u] EXCEPT !.at = "slug"]
    <3>1. r \in Upload /\ r.at = "slug" /\ up' = [up EXCEPT ![u] = r] /\ up[u].at = "latest"
      BY <1>0, <1>1, <2>1 DEF ReadLatest
    <3> HIDE DEF r
    <3> QED
      BY <1>0, <1>1, <3>1, RecordTypeOK DEF ReadLatest
  <2>2. ASSUME NEW v \in Committed,
               up' = [up EXCEPT ![u].at = "version", ![u].slug = up[v].slug]
        PROVE  TypeOK'
    <3> DEFINE r == [up[u] EXCEPT !.at = "version", !.slug = up[v].slug]
    <3>1. up[v] \in Upload /\ up[v].slug # None
      BY DEF Committed, TypeOK
    <3>2. /\ r \in Upload /\ r.at = "version" /\ r.slug # None
          /\ up' = [up EXCEPT ![u] = r] /\ up[u].at = "latest"
      <4> DEFINE slug == up[v].slug
      <4>1. slug \in Slugs /\ "version" \in Stages
        BY <3>1
      <4>2. up' = [up EXCEPT ![u] = r] /\ up[u].at = "latest"
        BY <1>1, <2>2 DEF ReadLatest
      <4> HIDE DEF slug, Stages
      <4>3. r \in Upload /\ r.at = "version" /\ r.slug = slug
        BY <1>0, <4>1 DEF slug
      <4> QED
        BY <3>1, <4>2, <4>3 DEF slug
    <3> HIDE DEF r
    <3> QED
      BY <1>0, <1>1, <3>2, RecordTypeOK DEF ReadLatest
  <2> QED
    BY <1>1, <2>1, <2>2 DEF ReadLatest, NamedAs
<1>2. CASE TrySlug(u)
  <2> DEFINE s == Candidates[NameOf[u]][up[u].tried + 1]
  <2>1. s \in Slugs /\ s # None
    <3>1. Candidates[NameOf[u]] \in Seq(Slugs) /\ None \notin Slugs
      BY DatasetsAssumption DEF DatasetsAssumption
    <3>2. up[u].tried + 1 \in 1..Len(Candidates[NameOf[u]])
      <4>1. up[u].tried < Len(Candidates[NameOf[u]])
        BY <1>2 DEF TrySlug
      <4>2. up[u].tried \in Nat
        BY <1>0
      <4>3. Len(Candidates[NameOf[u]]) \in Nat
        BY <3>1
      <4> HIDE DEF Upload, Stages, Numbered
      <4> QED
        BY <4>1, <4>2, <4>3
    <3> QED
      BY <3>1, <3>2, ElementOfSeq
  <2> HIDE DEF s
  <2>2. /\ up[u].at = "slug"
        /\ \/ up' = [up EXCEPT ![u].at = "version", ![u].slug = s]
           \/ up' = [up EXCEPT ![u].tried = @ + 1]
           \/ up' = [up EXCEPT ![u].at = "failed"]
    BY <1>2 DEF TrySlug, s, Fail
  <2>3. \E r \in Upload :
          /\ r.at \in {"version", "slug", "failed"} /\ (r.at = "version" => r.slug # None)
          /\ up' = [up EXCEPT ![u] = r]
    <3>1. CASE up' = [up EXCEPT ![u].at = "version", ![u].slug = s]
      <4> DEFINE r == [up[u] EXCEPT !.at = "version", !.slug = s]
      <4>1. /\ r \in Upload /\ r.at = "version" /\ r.slug # None
            /\ up' = [up EXCEPT ![u] = r]
        BY <1>0, <2>1, <3>1
      <4> HIDE DEF r
      <4> QED
        BY <4>1
    <3>2. CASE up' = [up EXCEPT ![u].tried = @ + 1]
      <4>1. [up[u] EXCEPT !.tried = @ + 1] \in Upload
        BY <1>0
      <4> QED
        BY <1>0, <2>2, <3>2, <4>1
    <3>3. CASE up' = [up EXCEPT ![u].at = "failed"]
      <4>1. [up[u] EXCEPT !.at = "failed"] \in Upload
        BY <1>0
      <4> QED
        BY <1>0, <3>3, <4>1
    <3> QED
      BY <2>2, <3>1, <3>2, <3>3
  <2>4. PICK r \in Upload :
          /\ r.at \in {"version", "slug", "failed"} /\ (r.at = "version" => r.slug # None)
          /\ up' = [up EXCEPT ![u] = r]
    BY <2>3
  <2>5. UNCHANGED <<script, status, uri, bucket, reader, faults>>
    BY <1>2 DEF TrySlug
  <2> QED
    BY <1>0, <2>2, <2>4, <2>5, RecordTypeOK
<1>3. CASE ReadVersion(u)
  <2>1. PICK n \in Versions : up' = [up EXCEPT ![u].at = "insert", ![u].version = n]
    BY <1>3 DEF ReadVersion
  <2> DEFINE r == [up[u] EXCEPT !.at = "insert", !.version = n]
  <2>2. up[u].at = "version" /\ up[u].slug # None /\ n \in Nat
    BY <1>3 DEF ReadVersion, Versions, TypeOK
  <2>3. /\ r \in Upload /\ r.at = "insert" /\ r.slug # None /\ r.version \in Versions
        /\ up' = [up EXCEPT ![u] = r]
    BY <1>0, <2>1, <2>2
  <2> HIDE DEF r
  <2> QED
    BY <1>0, <1>3, <2>2, <2>3, RecordTypeOK DEF ReadVersion
<1>4. ASSUME NEW at \in Stages, up' = [up EXCEPT ![u].at = at],
             at \in {"failed", "lost"} \/ up[u].at \in Numbered,
             up[u].at \in {"unsure", "committed", "lost"} =>
                 at \in {"unsure", "committed", "lost"},
             up[u].at = "committed" => at = "committed",
             UNCHANGED <<status, uri, bucket, reader>>,
             script' \in [Uploads -> {"idle", "asked", "url", "poll", "returned", "raised"}],
             \A v \in Uploads \ {u} : script'[v] = script[v],
             script'[u] \in {"url", "poll"} =>
                 script[u] \in {"url", "poll"} \/ at = "unsure",
             script'[u] # "idle",
             at = "lost" => up[u].at \in Numbered
      PROVE  TypeOK'
  <2> DEFINE r == [up[u] EXCEPT !.at = at]
  <2>1. /\ r \in Upload /\ r.at = at /\ r.slug = up[u].slug /\ r.version = up[u].version
        /\ up' = [up EXCEPT ![u] = r]
    BY <1>0, <1>4
  <2>2. up[u].at \in Numbered => up[u].slug # None /\ up[u].version \in Versions
    BY DEF TypeOK
  <2> HIDE DEF r
  <2>3. /\ r.at \in {"version"} \union Numbered => r.slug # None
        /\ r.at \in Numbered => r.version \in Versions
    BY <1>4, <2>1, <2>2
  <2>4. /\ up[u].at \in {"unsure", "committed", "lost"} =>
              r.at \in {"unsure", "committed", "lost"}
        /\ up[u].at = "committed" => r.at = "committed"
        /\ script'[u] \in {"url", "poll"} => script[u] \in {"url", "poll"} \/ r.at = "unsure"
    BY <1>4, <2>1
  <2> QED
    BY <1>0, <1>4, <2>1, <2>3, <2>4, RecordTypeOK
<1>5. CASE InsertRow(u)
  BY <1>0, <1>4, <1>5 DEF InsertRow, Fail
<1>6. CASE Answer(u)
  BY <1>0, <1>4, <1>6 DEF Answer
<1>7. CASE Commit(u)
  BY <1>0, <1>4, <1>7 DEF Commit
<1> QED
  BY <1>1, <1>2, <1>3, <1>5, <1>6, <1>7 DEF Handle

\* So do a transaction that breaks, a script that asks, and everything else.
LEMMA NextTypeOK == TypeOK /\ [Next]_vars => TypeOK'
<1> SUFFICES ASSUME TypeOK, [Next]_vars PROVE TypeOK'
  OBVIOUS
<1>1. ASSUME NEW u \in Uploads, Break(u) PROVE TypeOK'
  <2> USE DEF Upload, Stages, Numbered
  <2> DEFINE r == [up[u] EXCEPT !.at = IF @ = "unsure" THEN "lost" ELSE "failed"]
  <2>1. /\ up[u] \in Upload /\ faults' \in 0..MaxFaults
        /\ script \in [Uploads -> {"idle", "asked", "url", "poll", "returned", "raised"}]
    BY <1>1, DatasetsAssumption DEF TypeOK, Break, DatasetsAssumption
  <2>2. script[u] # "idle" /\ script'= script /\ up[u].at # "committed" /\ up[u].at # "lost"
    BY <1>1 DEF TypeOK, Break
  <2>3. /\ r \in Upload /\ up' = [up EXCEPT ![u] = r]
        /\ up[u].at # "unsure" => r.at = "failed"
        /\ up[u].at = "unsure" => /\ r.at = "lost" /\ r.slug = up[u].slug
                                  /\ r.version = up[u].version
    BY <1>1, <2>1 DEF Break
  <2>4. UNCHANGED <<status, uri, bucket, reader>>
    BY <1>1 DEF Break
  <2>5. up[u].at = "unsure" => /\ up[u].slug # None /\ up[u].version \in Versions
    BY DEF TypeOK
  <2>6. script[u] \in {"url", "poll"} => up[u].at = "unsure"
    BY <2>2 DEF TypeOK
  <2> HIDE DEF r
  <2> QED
    BY <2>1, <2>2, <2>3, <2>4, <2>5, <2>6, RecordTypeOK
<1>2. ASSUME NEW u \in Uploads, Ask(u) PROVE TypeOK'
  <2> DEFINE r == [up[u] EXCEPT !.at = "latest"]
  <2>1. /\ up[u] \in Upload /\ faults' \in 0..MaxFaults /\ up[u].at = "idle"
    BY <1>2 DEF TypeOK, Ask
  <2>2. /\ script' \in [Uploads -> {"idle", "asked", "url", "poll", "returned", "raised"}]
        /\ script'[u] = "asked" /\ \A v \in Uploads \ {u} : script'[v] = script[v]
    BY <1>2 DEF TypeOK, Ask
  <2>3. r \in Upload /\ r.at = "latest" /\ up' = [up EXCEPT ![u] = r]
    BY <1>2, <2>1 DEF Ask, Upload, Stages
  <2>4. UNCHANGED <<status, uri, bucket, reader>>
    BY <1>2 DEF Ask
  <2> HIDE DEF r
  <2> QED
    BY <2>1, <2>2, <2>3, <2>4, RecordTypeOK DEF Numbered
<1>3. ASSUME NEW u \in Uploads, Put(u) PROVE TypeOK'
  <2>1. KeyOf(u) \in Key
    BY <1>3, DatasetsAssumption
    DEF TypeOK, Put, KeyOf, Key, Numbered, Upload, DatasetsAssumption
  <2> QED
    BY <1>3, <2>1 DEF TypeOK, Put, tables
<1>4. ASSUME NEW u \in Uploads, Poll(u) PROVE TypeOK'
  BY <1>4 DEF TypeOK, Poll, Leave, tables, bucket
<1>5. ASSUME NEW u \in Uploads, GiveUp(u) PROVE TypeOK'
  BY <1>5, DatasetsAssumption DEF TypeOK, GiveUp, Leave, tables, bucket, DatasetsAssumption
<1>6. ASSUME NEW k \in Key, Notify(k) PROVE TypeOK'
  <2>1. k[3] \in Types /\ NamedBy(k) \subseteq Committed
    BY DEF Key, NamedBy, RowsOf
  <2> QED
    BY <1>6, <2>1 DEF TypeOK, Notify, Committed
<1>7. ASSUME NEW k \in Key, LoseEvent(k) PROVE TypeOK'
  BY <1>7, DatasetsAssumption DEF TypeOK, LoseEvent, tables, DatasetsAssumption
<1>8. ASSUME ReadMetadata PROVE TypeOK'
  <2>1. PICK w \in Wanted, u \in Committed :
          reader' = [reader EXCEPT !.at = "listed", !.slug = w[1], !.version = w[2],
                                   !.seen = up[u].version]
    BY <1>8 DEF ReadMetadata, Newest, ReadyOf, RowsOf
  <2>2. w[1] \in Slugs /\ w[2] \in Nat /\ up[u].version \in Nat
    BY DatasetsAssumption DEF DatasetsAssumption, Committed, TypeOK, Upload
  <2>3. reader' \in Reader
    BY <2>1, <2>2 DEF TypeOK, Reader
  <2> QED
    BY <1>8, <2>3 DEF TypeOK, ReadMetadata, tables, bucket
<1>9. ASSUME GetUrl PROVE TypeOK'
  <2>1. ASSUME NEW u \in Linked PROVE <<up[u].slug, up[u].version, uri[u]>> \in Key
    <3>1. u \in Committed
      BY DEF Linked, Newest, ReadyOf, RowsOf
    <3> QED
      BY <3>1 DEF Committed, TypeOK, Key, Numbered, Upload
  <2>2. reader' \in Reader
    <3>1. CASE reader' = NoDownload
      BY <3>1 DEF NoDownload, Reader
    <3>2. ASSUME NEW u \in Linked,
                 reader' = [reader EXCEPT !.at = "linked",
                                          !.link = <<up[u].slug, up[u].version, uri[u]>>]
          PROVE  reader' \in Reader
      BY <2>1, <3>2 DEF TypeOK, Reader
    <3> QED
      BY <1>9, <3>1, <3>2 DEF GetUrl
  <2> QED
    BY <1>9, <2>2 DEF TypeOK, GetUrl, tables, bucket
<1>10. ASSUME Fetch PROVE TypeOK'
  BY <1>10 DEF TypeOK, Fetch, NoDownload, Reader, tables, bucket
<1>11. CASE UNCHANGED vars
  BY <1>11 DEF TypeOK, vars
<1> QED
  BY <1>1, <1>2, <1>3, <1>4, <1>5, <1>6, <1>7, <1>8, <1>9, <1>10, <1>11, HandleTypeOK
  DEF Next

\* Every record of an upload, a script, a download and the bucket has its type, and a
\* request has a version only after it has a slug.
THEOREM TypeCorrect == Spec => []TypeOK
<1> QED
  BY InitTypeOK, NextTypeOK, PTL DEF Spec

-----------------------------------------------------------------------------
(* The table.                                                              *)

\* The stages after the answer.
Answered == {"unsure", "committed", "lost"}

\* What a step can do to the record of a request: it has no row any more or not yet ...
Drops(u, r) == r.at \notin Numbered /\ up[u].at \notin Answered

\* ... it goes on with its slug and version, into the table only past the constraints ...
Keeps(u, r) ==
    /\ up[u].at \in Numbered /\ r.at \in Numbered
    /\ r.slug = up[u].slug /\ r.version = up[u].version
    /\ up[u].at \in Answered => r.at \in Answered
    /\ up[u].at = "committed" => r.at = "committed"
    /\ r.at \in {"inserted", "unsure", "committed"} =>
         u \in Present \/ \A v \in Present : ~Conflict(u, v)

\* ... or it gets its version.
Numbers(u, r) ==
    /\ up[u].at = "version" /\ r.at = "insert"
    /\ IsNextVersion(r.slug, r.version)

LEMMA StepShape ==
    ASSUME TypeOK, [Next]_vars
    PROVE  \/ up' = up
           \/ \E u \in Uploads, r \in Upload :
                /\ up' = [up EXCEPT ![u] = r]
                /\ Drops(u, r) \/ Keeps(u, r) \/ Numbers(u, r)
<1> DEFINE Shape(u) == \E r \in Upload :
                         /\ up' = [up EXCEPT ![u] = r]
                         /\ Drops(u, r) \/ Keeps(u, r) \/ Numbers(u, r)
<1>0. TypeOK'
  BY NextTypeOK
<1>1. ASSUME NEW u \in Uploads, NEW at \in Stages, up' = [up EXCEPT ![u].at = at],
             \/ at \notin Numbered /\ up[u].at \notin Answered
             \/ /\ up[u].at \in Numbered /\ at \in Numbered
                /\ up[u].at \in Answered => at \in Answered
                /\ up[u].at = "committed" => at = "committed"
                /\ at \in {"inserted", "unsure", "committed"} =>
                     u \in Present \/ \A v \in Present : ~Conflict(u, v)
      PROVE  Shape(u)
  <2> DEFINE r == [up[u] EXCEPT !.at = at]
  <2>1. up[u] \in Upload
    BY DEF TypeOK
  <2>2. /\ r \in Upload /\ r.at = at /\ r.slug = up[u].slug /\ r.version = up[u].version
        /\ up' = [up EXCEPT ![u] = r]
    BY <1>1, <2>1 DEF Upload, Stages
  <2> HIDE DEF r
  <2>3. Drops(u, r) \/ Keeps(u, r)
    BY <1>1, <2>2 DEF Drops, Keeps
  <2> QED
    BY <2>2, <2>3
<1>2. ASSUME NEW u \in Uploads, NEW r, up' = [up EXCEPT ![u] = r],
             r.at \notin Numbered /\ up[u].at \notin Answered
      PROVE  Shape(u)
  <2>1. up' \in [Uploads -> Upload]
    BY <1>0 DEF TypeOK
  <2>2. up'[u] = r
    BY <1>2 DEF TypeOK
  <2> QED
    BY <1>2, <2>1, <2>2 DEF Drops
<1>3. ASSUME NEW u \in Uploads PROVE up[u] \in Upload
  BY DEF TypeOK
<1> HIDE DEF Shape
<1>4. ASSUME NEW u \in Uploads, ReadLatest(u) PROVE Shape(u)
  <2>1. CASE up' = [up EXCEPT ![u].at = "slug"]
    BY <1>1, <1>4, <2>1 DEF ReadLatest, Stages, Numbered, Answered
  <2>2. ASSUME NEW v \in Uploads,
               up' = [up EXCEPT ![u].at = "version", ![u].slug = up[v].slug]
        PROVE  Shape(u)
    <3> DEFINE r == [up[u] EXCEPT !.at = "version", !.slug = up[v].slug]
    <3>1. up' = [up EXCEPT ![u] = r] /\ r.at = "version" /\ up[u].at = "latest"
      BY <1>3, <1>4, <2>2 DEF ReadLatest, Upload
    <3> HIDE DEF r
    <3> QED
      BY <1>2, <3>1 DEF Numbered, Answered
  <2> QED
    BY <1>4, <2>1, <2>2 DEF ReadLatest, NamedAs, Committed
<1>5. ASSUME NEW u \in Uploads, TrySlug(u) PROVE Shape(u)
  <2> DEFINE s == Candidates[NameOf[u]][up[u].tried + 1]
  <2> HIDE DEF s
  <2>1. /\ up[u].at = "slug"
        /\ \/ up' = [up EXCEPT ![u].at = "version", ![u].slug = s]
           \/ up' = [up EXCEPT ![u].tried = @ + 1]
           \/ up' = [up EXCEPT ![u].at = "failed"]
    BY <1>5 DEF TrySlug, s, Fail
  <2>2. CASE up' = [up EXCEPT ![u].at = "version", ![u].slug = s]
    <3> DEFINE r == [up[u] EXCEPT !.at = "version", !.slug = s]
    <3>1. up' = [up EXCEPT ![u] = r] /\ r.at = "version"
      BY <1>3, <2>2 DEF Upload
    <3> HIDE DEF r
    <3> QED
      BY <1>2, <2>1, <3>1 DEF Numbered, Answered
  <2>3. CASE up' = [up EXCEPT ![u].tried = @ + 1]
    <3> DEFINE r == [up[u] EXCEPT !.tried = @ + 1]
    <3>1. up' = [up EXCEPT ![u] = r] /\ r.at = "slug"
      BY <1>3, <2>1, <2>3 DEF Upload
    <3> HIDE DEF r
    <3> QED
      BY <1>2, <2>1, <3>1 DEF Numbered, Answered
  <2>4. CASE up' = [up EXCEPT ![u].at = "failed"]
    BY <1>1, <2>1, <2>4 DEF Stages, Numbered, Answered
  <2> QED
    BY <2>1, <2>2, <2>3, <2>4
<1>6. ASSUME NEW u \in Uploads, ReadVersion(u) PROVE Shape(u)
  <2>1. PICK n \in Versions : /\ IsNextVersion(up[u].slug, n)
                              /\ up' = [up EXCEPT ![u].at = "insert", ![u].version = n]
    BY <1>6 DEF ReadVersion
  <2> DEFINE r == [up[u] EXCEPT !.at = "insert", !.version = n]
  <2>2. /\ up' = [up EXCEPT ![u] = r] /\ r \in Upload
        /\ r.at = "insert" /\ r.slug = up[u].slug /\ r.version = n
    <3>1. n \in Nat
      BY DEF Versions
    <3> QED
      BY <1>3, <2>1, <3>1 DEF Upload, Stages
  <2> HIDE DEF r
  <2> QED
    BY <1>6, <2>1, <2>2 DEF ReadVersion, Numbers, Shape
<1>7. ASSUME NEW u \in Uploads, InsertRow(u) PROVE Shape(u)
  <2>1. CASE up' = [up EXCEPT ![u].at = "failed"]
    BY <1>1, <1>7, <2>1 DEF InsertRow, Stages, Numbered, Answered
  <2>2. CASE /\ up' = [up EXCEPT ![u].at = "inserted"]
             /\ ~\E v \in Committed : Conflict(u, v)
    BY <1>1, <1>7, <2>2 DEF InsertRow, Stages, Numbered, Answered, Present
  <2> QED
    BY <1>7, <2>1, <2>2 DEF InsertRow, Fail
<1>8. ASSUME NEW u \in Uploads, Answer(u) \/ Commit(u) PROVE Shape(u)
  BY <1>1, <1>8 DEF Answer, Commit, Stages, Numbered, Answered, Present, Uncommitted
<1>9. ASSUME NEW u \in Uploads, Break(u) PROVE Shape(u)
  BY <1>1, <1>9 DEF Break, Stages, Numbered, Answered
<1>10. ASSUME NEW u \in Uploads, Ask(u) PROVE Shape(u)
  <2>1. up[u].at = "idle"
    BY <1>10 DEF Ask, TypeOK
  <2> QED
    BY <1>1, <1>10, <2>1 DEF Ask, Stages, Numbered, Answered
<1>11. CASE UNCHANGED up
  BY <1>11
<1>12. ASSUME NEW u \in Uploads, Shape(u)
       PROVE  \E w \in Uploads, r \in Upload :
                /\ up' = [up EXCEPT ![w] = r]
                /\ Drops(w, r) \/ Keeps(w, r) \/ Numbers(w, r)
  BY <1>12 DEF Shape
<1>13. UNCHANGED up \/ \E u \in Uploads : Handle(u) \/ Break(u) \/ Ask(u)
  <2>1. ASSUME NEW u \in Uploads, Put(u) \/ Poll(u) \/ GiveUp(u) PROVE UNCHANGED up
    BY <2>1 DEF Put, Poll, GiveUp, tables
  <2>2. ASSUME NEW k \in Key, Notify(k) \/ LoseEvent(k) PROVE UNCHANGED up
    BY <2>2 DEF Notify, LoseEvent, tables
  <2>3. ReadMetadata \/ GetUrl \/ Fetch => UNCHANGED up
    <3>1. ReadMetadata => UNCHANGED tables
      BY DEF ReadMetadata
    <3>2. GetUrl \/ Fetch => UNCHANGED tables
      BY DEF GetUrl, Fetch
    <3> QED
      BY <3>1, <3>2 DEF tables
  <2>4. UNCHANGED vars => UNCHANGED up
    BY DEF vars
  <2> QED
    BY <2>1, <2>2, <2>3, <2>4 DEF Next
<1> QED
  BY <1>4, <1>5, <1>6, <1>7, <1>8, <1>9, <1>10, <1>11, <1>12, <1>13 DEF Handle

\* The unique constraints hold of what is in the table, also before it is committed.
LEMMA UniqueStep ==
    ASSUME TypeOK, Unique, [Next]_vars
    PROVE  Unique'
<1>1. CASE up' = up
  BY <1>1 DEF Unique, Present, Committed, Uncommitted, Conflict
<1>2. ASSUME NEW u \in Uploads, NEW r \in Upload, up' = [up EXCEPT ![u] = r],
             Drops(u, r) \/ Keeps(u, r) \/ Numbers(u, r)
      PROVE  Unique'
  <2>1. up'[u] = r /\ \A v \in Uploads \ {u} : up'[v] = up[v]
    BY <1>2, RecordShape
  <2>2. ASSUME NEW v \in Present' PROVE v \in Present \/ v = u
    BY <2>1, <2>2 DEF Present, Committed, Uncommitted
  <2>3. CASE u \notin Present'
    BY <2>1, <2>2, <2>3 DEF Unique, Present, Committed, Uncommitted, Conflict
  <2>4. CASE u \in Present'
    <3>1. Keeps(u, r)
      BY <1>2, <2>1, <2>4
      DEF Present, Committed, Uncommitted, Drops, Numbers, Numbered
    <3>2. up'[u].slug = up[u].slug /\ up'[u].version = up[u].version
      BY <2>1, <3>1 DEF Keeps
    <3>3. u \in Present \/ \A v \in Present : ~Conflict(u, v)
      BY <2>1, <2>4, <3>1 DEF Keeps, Present, Committed, Uncommitted
    <3>4. \A v, w \in Uploads : Conflict(v, w)' <=> Conflict(v, w)
      BY <2>1, <3>2 DEF Conflict
    <3>5. \A v, w \in Uploads : Conflict(v, w) => Conflict(w, v)
      BY DEF Conflict
    <3>6. \A v, w \in Present \union {u} : ~Conflict(v, w)
      BY <3>3, <3>5 DEF Unique, Present, Committed, Uncommitted, Conflict
    <3> QED
      BY <2>2, <3>4, <3>6 DEF Unique, Present, Committed, Uncommitted
  <2> QED
    BY <2>3, <2>4
<1> QED
  BY <1>1, <1>2, StepShape

\* A version is given only above committed ones, and those stay.
LEMMA GroundedStep ==
    ASSUME TypeOK, Grounded, [Next]_vars
    PROVE  Grounded'
<1>1. CASE up' = up
  BY <1>1 DEF Grounded, RowsOf, Committed
<1>2. ASSUME NEW u \in Uploads, NEW r \in Upload, up' = [up EXCEPT ![u] = r],
             Drops(u, r) \/ Keeps(u, r) \/ Numbers(u, r)
      PROVE  Grounded'
  <2>1. up'[u] = r /\ \A v \in Uploads \ {u} : up'[v] = up[v]
    BY <1>2, RecordShape
  <2>2. ASSUME NEW v \in Committed
        PROVE  v \in Committed' /\ up'[v].slug = up[v].slug /\ up'[v].version = up[v].version
    <3>1. CASE v = u
      BY <1>2, <2>1, <2>2, <3>1 DEF Drops, Keeps, Numbers, Committed, Answered
    <3>2. CASE v # u
      BY <2>1, <2>2, <3>2 DEF Committed
    <3> QED
      BY <3>1, <3>2
  <2>3. r.version \in Nat /\ \A v \in Uploads : up[v].version \in Nat
    BY DEF Upload, TypeOK
  <2>4. ASSUME r.at \in Numbered, NEW n \in 1..(r.version - 1)
        PROVE  \E w \in RowsOf(r.slug) : up[w].version = n
    <3>1. CASE Keeps(u, r)
      BY <2>4, <3>1 DEF Keeps, Grounded
    <3>2. CASE Numbers(u, r)
      <4>1. PICK v \in RowsOf(r.slug) : up[v].version = r.version - 1
        BY <2>3, <2>4, <3>2 DEF Numbers, IsNextVersion
      <4>2. CASE n = r.version - 1
        BY <4>1, <4>2
      <4>3. CASE n # r.version - 1
        <5>1. n \in 1..(up[v].version - 1)
          BY <2>3, <4>1, <4>3
        <5>2. v \in Uploads /\ up[v].at \in Numbered /\ up[v].slug = r.slug
          BY <4>1 DEF RowsOf, Committed, Numbered
        <5> QED
          BY <5>1, <5>2 DEF Grounded
      <4> QED
        BY <4>2, <4>3
    <3> QED
      BY <1>2, <2>4, <3>1, <3>2 DEF Drops
  <2>5. ASSUME NEW v \in Uploads, up'[v].at \in Numbered, NEW n \in 1..(up'[v].version - 1)
        PROVE  \E w \in RowsOf(up'[v].slug) : up[w].version = n
    <3>1. CASE v = u
      BY <2>1, <2>4, <2>5, <3>1
    <3>2. CASE v # u
      BY <2>1, <2>5, <3>2 DEF Grounded
    <3> QED
      BY <3>1, <3>2
  <2> QED
    BY <2>2, <2>5 DEF Grounded, RowsOf
<1> QED
  BY <1>1, <1>2, StepShape

\* The inductive invariant of the table.
LEMMA TableInvariant == Spec => []TableInv
<1>1. Init => TableInv
  <2>1. ASSUME Init PROVE Present = {} /\ \A u \in Uploads : up[u].at \notin Numbered
    BY <2>1 DEF Init, Present, Committed, Uncommitted, Numbered
  <2> QED
    BY <2>1, InitTypeOK DEF TableInv, Unique, Grounded
<1>2. TableInv /\ [Next]_vars => TableInv'
  BY NextTypeOK, UniqueStep, GroundedStep DEF TableInv
<1> QED
  BY <1>1, <1>2, PTL DEF Spec

\* However uploads of a dataset overlap, its committed versions are 1, 2, 3, ..., each
\* once: get_next_version reads committed rows only, and the unique constraint on the
\* slug and version refuses the second of two requests that have read the same.
THEOREM VersionsConsecutive == Spec => []VersionsAreConsecutive
<1>1. TableInv => VersionsAreConsecutive
  <2> SUFFICES ASSUME TableInv, NEW s \in Slugs, NEW u \in RowsOf(s)
               PROVE  /\ \A n \in 1..up[u].version : \E v \in RowsOf(s) : up[v].version = n
                      /\ \A v \in RowsOf(s) : up[u].version = up[v].version => u = v
    BY DEF VersionsAreConsecutive
  <2>1. /\ u \in Uploads /\ up[u].slug = s /\ up[u].at \in Numbered
        /\ up[u].version \in Nat
    BY DEF RowsOf, Committed, Numbered, TableInv, TypeOK, Upload
  <2>2. ASSUME NEW n \in 1..up[u].version PROVE \E v \in RowsOf(s) : up[v].version = n
    <3>1. n = up[u].version \/ n \in 1..(up[u].version - 1)
      BY <2>1
    <3> QED
      BY <2>1, <3>1 DEF TableInv, Grounded
  <2>3. ASSUME NEW v \in RowsOf(s), up[u].version = up[v].version PROVE u = v
    BY <2>3 DEF TableInv, Unique, Present, Conflict, RowsOf
  <2> QED
    BY <2>2, <2>3
<1> QED
  BY <1>1, TableInvariant, PTL

\* A dataset whose slugs hold no other name's versions has one slug: two would each have
\* a version 1, and the unique constraint on the name and version forbids the second.
THEOREM NamesKeepSlug == Spec => []NamesKeepTheirSlug
<1>1. TableInv => NamesKeepTheirSlug
  <2> SUFFICES ASSUME TableInv, NEW n \in Names, SharesNoSlug(n),
                      NEW u \in NamedAs(n), NEW v \in NamedAs(n)
               PROVE  up[u].slug = up[v].slug
    BY DEF NamesKeepTheirSlug
  <2>1. ASSUME NEW w \in NamedAs(n)
        PROVE  \E f \in NamedAs(n) : up[f].slug = up[w].slug /\ up[f].version = 1
    <3>1. w \in Uploads /\ w \in Committed /\ up[w].at \in Numbered
      BY DEF NamedAs, Committed, Numbered
    <3>2. up[w].version \in Nat /\ up[w].version >= 1
      BY <3>1, DatasetsAssumption DEF TableInv, TypeOK, Versions, Upload
    <3>3. \E f \in Committed : up[f].slug = up[w].slug /\ up[f].version = 1
      <4>1. CASE up[w].version = 1
        BY <3>1, <4>1
      <4>2. CASE up[w].version # 1
        <5>1. 1 \in 1..(up[w].version - 1)
          BY <3>2, <4>2
        <5> QED
          BY <3>1, <5>1 DEF TableInv, Grounded, RowsOf
      <4> QED
        BY <4>1, <4>2
    <3> QED
      BY <3>3 DEF SharesNoSlug, NamedAs
  <2>2. PICK f \in NamedAs(n) : up[f].slug = up[u].slug /\ up[f].version = 1
    BY <2>1
  <2>3. PICK g \in NamedAs(n) : up[g].slug = up[v].slug /\ up[g].version = 1
    BY <2>1
  <2>4. f = g
    BY <2>2, <2>3 DEF TableInv, Unique, Present, Conflict, NamedAs
  <2> QED
    BY <2>2, <2>3, <2>4
<1> QED
  BY <1>1, TableInvariant, PTL

-----------------------------------------------------------------------------
(* What the bucket holds for a READY version, and what a download gets.  An   *)
(* object is stored by a request that has been answered, whose slug and      *)
(* version never change again, under their key (Stored); the webhook makes a *)
(* version READY with the key of an object that is stored (Reported,         *)
(* Located); and a download asks for what it has seen READY (Seen).  That    *)
(* the object is the version's own follows from the unique constraint: a row *)
(* that is still in the table with its slug and version is the row itself.   *)


\* Every object has been stored under its key.
Stored ==
    \A k \in Key : store[k] # None =>
        up[store[k]].at \in Answered /\ KeyOf(store[k]) = k

\* MinIO reports objects that it has stored.
Reported == \A k \in events : store[k] # None

\* The s3_uri of a READY version names an object.
Located ==
    \A u \in Uploads : status[u] = "READY" =>
        store[<<up[u].slug, up[u].version, uri[u]>>] # None

\* A download that asks for the latest version has seen one that is READY, and a link
\* names an object of the version asked for.
Seen ==
    /\ reader.at = "listed" /\ reader.version = 0 =>
         \E u \in ReadyOf(reader.slug) : up[u].version = reader.seen
    /\ reader.at = "linked" =>
         /\ reader.link \in Key /\ store[reader.link] # None
         /\ IF reader.version = 0 THEN reader.link[2] >= reader.seen
                                  ELSE reader.link[2] = reader.version

BucketInv == TypeOK /\ Stored /\ Reported /\ Located /\ Seen

-----------------------------------------------------------------------------
\* The slug and version of a request do not change after its answer.
LEMMA AnsweredStays ==
    ASSUME TypeOK, [Next]_vars, NEW u \in Uploads, up[u].at \in Answered
    PROVE  /\ up'[u].at \in Answered /\ up'[u].slug = up[u].slug
           /\ up'[u].version = up[u].version
           /\ up[u].at = "committed" => up'[u].at = "committed"
<1>1. CASE up' = up
  BY <1>1
<1>2. ASSUME NEW w \in Uploads, NEW r \in Upload, up' = [up EXCEPT ![w] = r],
             Drops(w, r) \/ Keeps(w, r) \/ Numbers(w, r)
      PROVE  /\ up'[u].at \in Answered /\ up'[u].slug = up[u].slug
             /\ up'[u].version = up[u].version
             /\ up[u].at = "committed" => up'[u].at = "committed"
  <2>1. up'[w] = r /\ \A v \in Uploads \ {w} : up'[v] = up[v]
    BY <1>2, RecordShape
  <2>2. CASE u = w
    BY <1>2, <2>1, <2>2 DEF Drops, Keeps, Numbers, Answered
  <2>3. CASE u # w
    BY <2>1, <2>3
  <2> QED
    BY <2>2, <2>3
<1> QED
  BY <1>1, <1>2, StepShape

\* Objects stay, and READY versions stay READY.
LEMMA BucketGrows ==
    ASSUME TypeOK, [Next]_vars
    PROVE  /\ \A k \in Key : store[k] # None => store'[k] # None
           /\ \A u \in Uploads : status[u] = "READY" => status'[u] = "READY"
<1>1. ASSUME NEW u \in Uploads, Handle(u) \/ Break(u) \/ Ask(u) \/ Poll(u) \/ GiveUp(u)
      PROVE  store' = store /\ status' = status
  BY <1>1 DEF Handle, ReadLatest, TrySlug, ReadVersion, InsertRow, Answer, Commit, Break, Ask,
     Poll, GiveUp, tables, bucket
<1>2. ASSUME NEW u \in Uploads, Put(u)
      PROVE  /\ \A k \in Key : store[k] # None => store'[k] # None
             /\ status' = status
  BY <1>2, DatasetsAssumption DEF Put, TypeOK, tables, DatasetsAssumption
<1>3. ASSUME NEW k \in Key, Notify(k)
      PROVE  /\ store' = store
             /\ \A u \in Uploads : status[u] = "READY" => status'[u] = "READY"
  BY <1>3 DEF Notify
<1>4. ASSUME NEW k \in Key, LoseEvent(k) PROVE store' = store /\ status' = status
  BY <1>4 DEF LoseEvent, tables
<1>5. ReadMetadata => store' = store /\ status' = status
  <2>1. ReadMetadata => UNCHANGED <<tables, bucket>>
    BY DEF ReadMetadata
  <2> QED
    BY <2>1 DEF tables, bucket
<1>6. GetUrl \/ Fetch => store' = store /\ status' = status
  <2>1. GetUrl \/ Fetch => UNCHANGED <<tables, bucket>>
    BY DEF GetUrl, Fetch
  <2> QED
    BY <2>1 DEF tables, bucket
<1>7. UNCHANGED vars => store' = store /\ status' = status
  BY DEF vars
<1> QED
  BY <1>1, <1>2, <1>3, <1>4, <1>5, <1>6, <1>7 DEF Next

\* What a step other than Put and Notify leaves alone.
LEMMA OtherSteps ==
    ASSUME [Next]_vars, \A u \in Uploads : ~Put(u), \A k \in Key : ~Notify(k)
    PROVE  /\ store' = store /\ status' = status /\ uri' = uri
           /\ events' \subseteq events
<1>1. ASSUME NEW u \in Uploads, Handle(u) \/ Break(u) \/ Ask(u) \/ Poll(u) \/ GiveUp(u)
      PROVE  UNCHANGED <<status, uri, bucket>>
  BY <1>1 DEF Handle, ReadLatest, TrySlug, ReadVersion, InsertRow, Answer, Commit, Break, Ask,
     Poll, GiveUp, tables
<1>2. ASSUME NEW k \in Key, LoseEvent(k)
      PROVE  store' = store /\ UNCHANGED tables /\ events' \subseteq events
  BY <1>2 DEF LoseEvent
<1>3. ReadMetadata => UNCHANGED <<tables, bucket>>
  BY DEF ReadMetadata
<1>4. GetUrl \/ Fetch => UNCHANGED <<tables, bucket>>
  BY DEF GetUrl, Fetch
<1>5. UNCHANGED vars => UNCHANGED <<tables, bucket>>
  BY DEF vars, tables, bucket
<1> QED
  BY <1>1, <1>2, <1>3, <1>4, <1>5 DEF Next, tables, bucket

LEMMA StoredStep ==
    ASSUME TypeOK, Stored, [Next]_vars
    PROVE  Stored'
<1> DEFINE Good(k, u) == /\ up'[u].at \in Answered
                         /\ <<up'[u].slug, up'[u].version, TypeOf[u]>> = k
<1> SUFFICES ASSUME NEW k \in Key, store'[k] # None PROVE Good(k, store'[k])
  BY DEF Stored, KeyOf
<1>1. CASE store'[k] = store[k]
  <2>1. /\ store[k] \in Uploads /\ up[store[k]].at \in Answered
        /\ KeyOf(store[k]) = k
    BY <1>1 DEF Stored, TypeOK
  <2>2. /\ up'[store[k]].at \in Answered /\ up'[store[k]].slug = up[store[k]].slug
        /\ up'[store[k]].version = up[store[k]].version
    BY <2>1, AnsweredStays
  <2> QED
    BY <1>1, <2>1, <2>2 DEF KeyOf
<1>2. ASSUME NEW u \in Uploads, Put(u), store'[k] # store[k]
      PROVE  Good(k, store'[k])
  <2>1. up' = up /\ up[u].at \in Answered
    BY <1>2 DEF Put, TypeOK, tables, Answered
  <2>2. store'[k] = u /\ k = KeyOf(u)
    BY <1>2 DEF Put, TypeOK
  <2> QED
    BY <2>1, <2>2 DEF KeyOf
<1>3. CASE \A u \in Uploads : ~Put(u)
  <2>1. ASSUME NEW j \in Key, Notify(j) PROVE store' = store
    BY <2>1 DEF Notify
  <2>2. store' = store
    BY <1>3, <2>1, OtherSteps
  <2> QED
    BY <1>1, <2>2
<1> QED
  BY <1>1, <1>2, <1>3

LEMMA ReportedStep ==
    ASSUME TypeOK, Reported, [Next]_vars
    PROVE  Reported'
<1> SUFFICES ASSUME NEW k \in events' PROVE store'[k] # None
  BY DEF Reported
<1>1. CASE k \in events
  BY <1>1, BucketGrows DEF Reported, TypeOK
<1>2. CASE k \notin events
  <2>1. ASSUME NEW j \in Key, Notify(j) PROVE events' \subseteq events
    BY <2>1 DEF Notify
  <2>2. PICK u \in Uploads : Put(u)
    BY <1>2, <2>1, OtherSteps
  <2>3. k = KeyOf(u) /\ up[u].at \in Answered
    BY <1>2, <2>2 DEF Put, TypeOK, Answered
  <2>4. k \in Key
    BY <2>3, DatasetsAssumption
    DEF KeyOf, Key, TypeOK, Upload, Answered, Numbered, DatasetsAssumption
  <2> QED
    BY <2>2, <2>3, <2>4, DatasetsAssumption DEF Put, TypeOK, DatasetsAssumption
<1> QED
  BY <1>1, <1>2

LEMMA LocatedStep ==
    ASSUME TypeOK, Reported, Located, [Next]_vars
    PROVE  Located'
<1> SUFFICES ASSUME NEW u \in Uploads, status'[u] = "READY"
             PROVE  store'[<<up'[u].slug, up'[u].version, uri'[u]>>] # None
  BY DEF Located
<1>1. ASSUME status[u] = "READY", uri'[u] = uri[u]
      PROVE  store'[<<up'[u].slug, up'[u].version, uri'[u]>>] # None
  <2>1. up[u].at = "committed"
    BY <1>1 DEF TypeOK
  <2>2. <<up[u].slug, up[u].version, uri[u]>> \in Key
    BY <2>1 DEF TypeOK, Upload, Key, Numbered
  <2>3. up'[u].slug = up[u].slug /\ up'[u].version = up[u].version
    BY <2>1, AnsweredStays DEF Answered
  <2> QED
    BY <1>1, <2>2, <2>3, BucketGrows DEF Located
<1>2. ASSUME NEW k \in Key, Notify(k)
      PROVE  store'[<<up'[u].slug, up'[u].version, uri'[u]>>] # None
  <2>1. CASE u \in NamedBy(k)
    <3>1. <<up'[u].slug, up'[u].version, uri'[u]>> = k
      BY <1>2, <2>1 DEF Notify, NamedBy, RowsOf, Key
    <3>2. store[k] # None /\ store' = store
      BY <1>2 DEF Notify, Reported
    <3> QED
      BY <3>1, <3>2
  <2>2. CASE u \notin NamedBy(k)
    BY <1>1, <1>2, <2>2 DEF Notify
  <2> QED
    BY <2>1, <2>2
<1>3. ASSUME NEW v \in Uploads, Put(v)
      PROVE  store'[<<up'[u].slug, up'[u].version, uri'[u]>>] # None
  BY <1>1, <1>3 DEF Put, tables
<1> QED
  BY <1>1, <1>2, <1>3, OtherSteps

LEMMA SeenStep ==
    ASSUME TypeOK, Located, Seen, [Next]_vars
    PROVE  Seen'
<1>1. ASSUME reader' = reader PROVE Seen'
  <2>1. ASSUME NEW u \in ReadyOf(reader.slug)
        PROVE  u \in ReadyOf(reader.slug)' /\ up'[u].version = up[u].version
    <3>1. u \in Uploads /\ up[u].at = "committed" /\ status[u] = "READY"
          /\ up[u].slug = reader.slug
      BY DEF ReadyOf, RowsOf, Committed
    <3> QED
      BY <1>1, <3>1, AnsweredStays, BucketGrows DEF ReadyOf, RowsOf, Committed, Answered
  <2> QED
    BY <1>1, <2>1, BucketGrows DEF Seen
<1>2. ASSUME ReadMetadata PROVE Seen'
  <2>1. PICK w \in Wanted : \E u \in IF w[2] = 0 THEN Newest(ReadyOf(w[1]))
                                      ELSE {v \in RowsOf(w[1]) : up[v].version = w[2]} :
          reader' = [reader EXCEPT !.at = "listed", !.slug = w[1], !.version = w[2],
                                   !.seen = up[u].version]
    BY <1>2 DEF ReadMetadata
  <2>2. PICK u \in IF w[2] = 0 THEN Newest(ReadyOf(w[1]))
                   ELSE {v \in RowsOf(w[1]) : up[v].version = w[2]} :
          reader' = [reader EXCEPT !.at = "listed", !.slug = w[1], !.version = w[2],
                                   !.seen = up[u].version]
    BY <2>1
  <2>3. /\ reader'.at = "listed" /\ reader'.slug = w[1] /\ reader'.version = w[2]
        /\ reader'.seen = up[u].version
    BY <2>2 DEF TypeOK, Reader
  <2>4. w[2] = 0 => u \in ReadyOf(w[1])
    BY <2>2 DEF Newest
  <2>5. up' = up /\ status' = status
    <3>1. UNCHANGED tables
      BY <1>2 DEF ReadMetadata
    <3> QED
      BY <3>1 DEF tables
  <2> QED
    BY <2>3, <2>4, <2>5 DEF Seen, ReadyOf, RowsOf, Committed
<1>3. ASSUME GetUrl PROVE Seen'
  <2>1. UNCHANGED <<tables, bucket>> /\ reader.at = "listed"
    BY <1>3 DEF GetUrl
  <2>2. ASSUME reader' = NoDownload PROVE Seen'
    BY <2>2 DEF Seen, NoDownload
  <2>3. ASSUME NEW u \in Linked,
               reader' = [reader EXCEPT !.at = "linked",
                                        !.link = <<up[u].slug, up[u].version, uri[u]>>]
        PROVE  Seen'
    <3>1. u \in ReadyOf(reader.slug) /\ u \in Uploads /\ up[u].at = "committed"
          /\ status[u] = "READY"
      BY DEF Linked, Newest, ReadyOf, RowsOf, Committed
    <3>2. /\ reader'.at = "linked" /\ reader'.version = reader.version
          /\ reader'.seen = reader.seen
          /\ reader'.link = <<up[u].slug, up[u].version, uri[u]>>
      BY <2>3 DEF TypeOK, Reader
    <3>3. reader'.link \in Key
      BY <3>1, <3>2 DEF TypeOK, Upload, Key, Numbered
    <3>4. store'[reader'.link] # None
      BY <2>1, <3>1, <3>2 DEF Located, bucket
    <3>5. reader.version # 0 => up[u].version = reader.version
      BY DEF Linked
    <3>6. reader.version = 0 => up[u].version >= reader.seen
      BY <2>1, <3>1 DEF Linked, Newest, Seen, TypeOK, Reader
    <3> QED
      BY <3>2, <3>3, <3>4, <3>5, <3>6 DEF Seen
  <2> QED
    BY <1>3, <2>2, <2>3 DEF GetUrl
<1>4. ASSUME Fetch PROVE Seen'
  BY <1>4 DEF Fetch, NoDownload, Seen
<1>5. ASSUME NEW u \in Uploads,
             Handle(u) \/ Break(u) \/ Ask(u) \/ Put(u) \/ Poll(u) \/ GiveUp(u)
      PROVE  reader' = reader
  BY <1>5 DEF Handle, ReadLatest, TrySlug, ReadVersion, InsertRow, Answer, Commit, Break, Ask,
     Put, Poll, GiveUp
<1>6. ASSUME NEW k \in Key, Notify(k) \/ LoseEvent(k) PROVE reader' = reader
  BY <1>6 DEF Notify, LoseEvent
<1>7. UNCHANGED vars => reader' = reader
  BY DEF vars
<1> QED
  BY <1>1, <1>2, <1>3, <1>4, <1>5, <1>6, <1>7 DEF Next

\* The inductive invariant of the bucket.
LEMMA BucketInvariant == Spec => []BucketInv
<1>1. Init => BucketInv
  <2>1. Init => Stored /\ Reported /\ Located
    BY DEF Init, Stored, Reported, Located
  <2>2. Init => Seen
    BY DEF Init, Seen, NoDownload
  <2> QED
    BY <2>1, <2>2, InitTypeOK DEF BucketInv
<1>2. BucketInv /\ [Next]_vars => BucketInv'
  BY NextTypeOK, StoredStep, ReportedStep, LocatedStep, SeenStep DEF BucketInv
<1> QED
  BY <1>1, <1>2, PTL DEF Spec

\* The object a READY version's s3_uri names is there, and it was stored by the upload of
\* this very version, or by one whose transaction was lost after it had been answered
\* with the same slug and version: two requests can be answered so only if the first of
\* them is rolled back, because of the unique constraints.
THEOREM ReadyHoldsUpload == Spec => []ReadyHoldsItsUpload
<1>1. TableInv /\ BucketInv => ReadyHoldsItsUpload
  <2> SUFFICES ASSUME TableInv, BucketInv, NEW u \in Uploads, status[u] = "READY"
               PROVE  LET by == store[<<up[u].slug, up[u].version, uri[u]>>] IN
                      /\ by # None
                      /\ by = u \/ /\ up[by].at = "lost"
                                   /\ up[by].slug = up[u].slug
                                   /\ up[by].version = up[u].version
    BY DEF ReadyHoldsItsUpload
  <2> DEFINE k == <<up[u].slug, up[u].version, uri[u]>>
             by == store[k]
  <2>1. up[u].at = "committed" /\ k \in Key
    BY DEF BucketInv, TypeOK, Upload, Key, Numbered
  <2>2. by \in Uploads /\ by # None
    BY <2>1, DatasetsAssumption DEF BucketInv, Located, TypeOK, DatasetsAssumption
  <2>3. up[by].at \in Answered /\ KeyOf(by) = k
    BY <2>1, <2>2 DEF BucketInv, Stored
  <2>4. up[by].slug = up[u].slug /\ up[by].version = up[u].version
    BY <2>3 DEF KeyOf
  <2>5. ASSUME up[by].at # "lost" PROVE by = u
    <3>1. by \in Present /\ u \in Present
      BY <2>1, <2>2, <2>3, <2>5 DEF Answered, Present, Committed, Uncommitted
    <3> QED
      BY <2>4, <3>1 DEF TableInv, Unique, Conflict
  <2> QED
    BY <2>2, <2>4, <2>5
<1> QED
  BY <1>1, TableInvariant, BucketInvariant, PTL

\* A download gets a link to an object of the version asked for, or of one at least as
\* new as the metadata that it has read, whatever is uploaded between its two requests.
THEOREM DownloadsGetVersion == Spec => []DownloadsGetTheVersion
<1>1. BucketInv => DownloadsGetTheVersion
  <2> SUFFICES ASSUME BucketInv, reader.at = "linked"
               PROVE  /\ IF reader.version = 0 THEN reader.link[2] >= reader.seen
                                               ELSE reader.link[2] = reader.version
                      /\ store[reader.link] # None
                      /\ LET by == store[reader.link] IN
                         up[by].slug = reader.link[1] /\ up[by].version = reader.link[2]
    BY DEF DownloadsGetTheVersion
  <2>1. reader.link \in Key /\ store[reader.link] # None
    BY DEF BucketInv, Seen
  <2>2. KeyOf(store[reader.link]) = reader.link
    BY <2>1 DEF BucketInv, Stored
  <2>3. /\ up[store[reader.link]].slug = reader.link[1]
        /\ up[store[reader.link]].version = reader.link[2]
    BY <2>2 DEF KeyOf
  <2> QED
    BY <2>1, <2>3 DEF BucketInv, Seen
<1> QED
  BY <1>1, BucketInvariant, PTL

-----------------------------------------------------------------------------
(* The versions of datasets are versions of artifacts: row, object and the  *)
(* upload that was answered with the version, seen as one.                  *)

Pairs  == Slugs \X Versions
States == [d \in Pairs |-> StateOf(d)]
Bytes  == [d \in Pairs |-> ObjectOf(d)]

\* The version of an upload that has been answered, or that is committed.
LEMMA PairOf ==
    ASSUME TypeOK, NEW u \in Uploads, up[u].at \in Answered
    PROVE  <<up[u].slug, up[u].version>> \in Pairs
BY DEF TypeOK, Upload, Answered, Numbered, Pairs

\* At most one row has a version.
LEMMA OneRow ==
    ASSUME TableInv, NEW d \in Pairs, NEW u \in NamedBy(d)
    PROVE  /\ u \in Uploads /\ up[u].at = "committed" /\ d = <<up[u].slug, up[u].version>>
           /\ NamedBy(d) = {u}
           /\ StateOf(d) = status[u]
           /\ ObjectOf(d) = store[<<d[1], d[2], uri[u]>>]
<1>1. u \in Uploads /\ up[u].at = "committed" /\ d = <<up[u].slug, up[u].version>>
  BY DEF NamedBy, RowsOf, Committed, Pairs
<1>2. \A v \in NamedBy(d) : v = u
  <2> SUFFICES ASSUME NEW v \in NamedBy(d) PROVE v = u
    OBVIOUS
  <2>1. /\ u \in Present /\ v \in Present
        /\ up[v].slug = up[u].slug /\ up[v].version = up[u].version
    BY DEF NamedBy, RowsOf, Present
  <2> QED
    BY <2>1 DEF TableInv, Unique, Conflict
<1>3. NamedBy(d) = {u}
  BY <1>2
<1>4. status[u] \in {"PENDING", "READY"}
  BY <1>1 DEF TableInv, TypeOK
<1>5. StateOf(d) = status[u]
  BY <1>3, <1>4 DEF StateOf
<1>6. (CHOOSE v \in NamedBy(d) : TRUE) = u
  BY <1>3
<1> QED
  BY <1>1, <1>3, <1>5, <1>6 DEF ObjectOf

LEMMA NoRow ==
    ASSUME NEW d, NamedBy(d) = {}
    PROVE  StateOf(d) = "none" /\ ObjectOf(d) = None
BY DEF StateOf, ObjectOf

\* Whoever has stored an object was answered with its version.
LEMMA StoredByTarget ==
    ASSUME BucketInv, NEW d \in Pairs, NEW t \in Types,
           store[<<d[1], d[2], t>>] # None
    PROVE  /\ store[<<d[1], d[2], t>>] \in Uploads
           /\ Targets[store[<<d[1], d[2], t>>]] = d
<1> DEFINE k == <<d[1], d[2], t>>
           w == store[k]
<1>1. k \in Key /\ d = <<d[1], d[2]>>
  BY DEF Key, Pairs
<1> HIDE DEF k
<1>2. w \in Uploads
  BY <1>1 DEF BucketInv, TypeOK, k
<1>3. up[w].at \in Answered /\ KeyOf(w) = k
  BY <1>1 DEF BucketInv, Stored, k
<1>4. up[w].slug = d[1] /\ up[w].version = d[2]
  BY <1>3 DEF KeyOf, k
<1>5. Targets[w] = <<up[w].slug, up[w].version>>
  BY <1>2, <1>3 DEF Targets, Answered
<1> QED
  BY <1>1, <1>2, <1>4, <1>5 DEF k

\* A step changes the view of one version at most.
LEMMA OneVersion ==
    ASSUME NEW e \in Pairs, NEW s, NEW b,
           \A d \in Pairs : d # e => StateOf(d)' = StateOf(d) /\ ObjectOf(d)' = ObjectOf(d),
           StateOf(e)' = s, ObjectOf(e)' = b
    PROVE  States' = [States EXCEPT ![e] = s] /\ Bytes' = [Bytes EXCEPT ![e] = b]
BY DEF States, Bytes, Pairs, Versions

LEMMA NoVersion ==
    ASSUME \A d \in Pairs : StateOf(d)' = StateOf(d) /\ ObjectOf(d)' = ObjectOf(d)
    PROVE  States' = States /\ Bytes' = Bytes
BY DEF States, Bytes, Pairs, Versions

\* What a version is seen as depends on its row and its object.
LEMMA SameView ==
    ASSUME NEW d, NamedBy(d)' = NamedBy(d),
           \A u \in NamedBy(d) : status'[u] = status[u] /\ uri'[u] = uri[u],
           \A u \in NamedBy(d) : store'[<<d[1], d[2], uri[u]>>] = store[<<d[1], d[2], uri[u]>>]
    PROVE  StateOf(d)' = StateOf(d) /\ ObjectOf(d)' = ObjectOf(d)
<1>1. CASE NamedBy(d) = {}
  BY <1>1 DEF StateOf, ObjectOf
<1>2. CASE NamedBy(d) # {}
  <2>1. (CHOOSE u \in NamedBy(d) : TRUE) \in NamedBy(d)
    BY <1>2
  <2>2. StateOf(d)' = StateOf(d)
    BY DEF StateOf
  <2> QED
    BY <2>1, <2>2 DEF ObjectOf
<1> QED
  BY <1>1, <1>2

LEMMA SoleRow ==
    ASSUME NEW d, NEW u, NamedBy(d)' = {u}, status'[u] \in {"PENDING", "READY"}
    PROVE  StateOf(d)' = status'[u] /\ ObjectOf(d)' = store'[<<d[1], d[2], uri'[u]>>]
<1>1. \A v \in NamedBy(d)' : v = u
  OBVIOUS
<1>2. (CHOOSE v \in NamedBy(d)' : TRUE) = u
  BY <1>1
<1> QED
  BY <1>1, <1>2 DEF StateOf, ObjectOf

LEMMA Quietly ==
    ASSUME up' = up \/ (\A u \in Uploads : Targets'[u] = Targets[u]),
           \A d \in Pairs : StateOf(d)' = StateOf(d) /\ ObjectOf(d)' = ObjectOf(d)
    PROVE  UNCHANGED Datasets!versionVars
<1>1. Targets' = Targets
  BY DEF Targets
<1>2. States' = States /\ Bytes' = Bytes
  BY NoVersion
<1> QED
  BY <1>1, <1>2 DEF Datasets!versionVars, States, Bytes, Pairs

LEMMA AnswerGives ==
    ASSUME TypeOK, NEW u \in Uploads, Answer(u)
    PROVE  Datasets!Next
<1>1. /\ up[u].at = "inserted" /\ up' = [up EXCEPT ![u].at = "unsure"]
      /\ UNCHANGED <<status, uri, store>>
  BY DEF Answer, bucket
<1>0. up[u] \in Upload /\ <<up[u].slug, up[u].version>> \in Pairs
  BY <1>1 DEF TypeOK, Upload, Numbered, Pairs
<1>2. PICK d \in Pairs : d = <<up[u].slug, up[u].version>> /\ up[u] \in Upload
  BY <1>0
<1>3. /\ up'[u].at = "unsure" /\ up'[u].slug = up[u].slug /\ up'[u].version = up[u].version
      /\ \A v \in Uploads : v # u => up'[v] = up[v]
  BY <1>1, <1>2 DEF TypeOK, Upload
<1>4. Targets[u] = None /\ Targets' = [Targets EXCEPT ![u] = d]
  <2>1. Targets[u] = None /\ Targets'[u] = d
    BY <1>1, <1>2, <1>3 DEF Targets
  <2>2. \A v \in Uploads : v # u => Targets'[v] = Targets[v]
    BY <1>3 DEF Targets
  <2>3. DOMAIN Targets = Uploads /\ Targets' = [v \in Uploads |-> Targets'[v]]
        /\ Targets = [v \in Uploads |-> Targets[v]]
    BY DEF Targets
  <2> QED
    BY <2>1, <2>2, <2>3
<1>5. \A e : NamedBy(e)' = NamedBy(e)
  <2>1. \A v \in Uploads : /\ up'[v].at = "committed" <=> up[v].at = "committed"
                           /\ up'[v].slug = up[v].slug /\ up'[v].version = up[v].version
    BY <1>1, <1>3
  <2> QED
    BY <2>1 DEF NamedBy, RowsOf, Committed
<1>6. States' = States /\ Bytes' = Bytes
  BY <1>1, <1>5, SameView, NoVersion
<1>7. Datasets!Give(u, d)
  BY <1>4, <1>6 DEF Datasets!Give, States, Bytes, Pairs
<1> QED
  BY <1>2, <1>7 DEF Datasets!Next, Pairs

LEMMA CommitReserves ==
    ASSUME TableInv, BucketInv, NEW u \in Uploads, Commit(u)
    PROVE  Datasets!Next
<1>1. /\ up[u].at = "unsure" /\ up' = [up EXCEPT ![u].at = "committed"]
      /\ UNCHANGED <<status, uri, store>>
  BY DEF Commit, bucket
<1>0. TypeOK /\ up[u] \in Upload /\ uri[u] \in Types /\ <<up[u].slug, up[u].version>> \in Pairs
  BY <1>1 DEF TableInv, TypeOK, Upload, Numbered, Pairs
<1>2. PICK d \in Pairs : /\ d = <<up[u].slug, up[u].version>>
                         /\ TypeOK /\ up[u] \in Upload /\ uri[u] \in Types
  BY <1>0
<1>3. /\ up'[u].at = "committed" /\ up'[u].slug = up[u].slug /\ up'[u].version = up[u].version
      /\ \A v \in Uploads : v # u => up'[v] = up[v]
  BY <1>1, <1>2 DEF TypeOK, Upload
<1>4. Targets' = Targets
  <2>1. \A v \in Uploads : Targets'[v] = Targets[v]
    BY <1>1, <1>3 DEF Targets
  <2> QED
    BY <2>1 DEF Targets
<1>5. NamedBy(d) = {}
  <2> SUFFICES ASSUME NEW v \in NamedBy(d) PROVE FALSE
    OBVIOUS
  <2>1. /\ v \in Present /\ u \in Present /\ v # u
        /\ up[v].slug = up[u].slug /\ up[v].version = up[u].version
    BY <1>1, <1>2 DEF NamedBy, RowsOf, Present, Committed, Uncommitted
  <2> QED
    BY <2>1 DEF TableInv, Unique, Conflict
<1>6. /\ \A e \in Pairs : e # d => NamedBy(e)' = NamedBy(e)
      /\ NamedBy(d)' = NamedBy(d) \union {u}
  <2>1. ASSUME NEW e \in Pairs
        PROVE  NamedBy(e)' = NamedBy(e) \union (IF e = d THEN {u} ELSE {})
    <3>1. /\ NamedBy(e)' = {v \in Uploads : /\ up'[v].at = "committed"
                                           /\ up'[v].slug = e[1] /\ up'[v].version = e[2]}
          /\ NamedBy(e) = {v \in Uploads : /\ up[v].at = "committed"
                                          /\ up[v].slug = e[1] /\ up[v].version = e[2]}
      BY DEF NamedBy, RowsOf, Committed
    <3>2. e = d <=> up[u].slug = e[1] /\ up[u].version = e[2]
      BY <1>2 DEF Pairs
    <3> QED
      BY <1>1, <1>3, <3>1, <3>2
  <2> QED
    BY <1>2, <2>1
<1>7. /\ StateOf(d) = "none" /\ ObjectOf(d) = None
      /\ StateOf(d)' = "PENDING" /\ ObjectOf(d)' = store[<<d[1], d[2], uri[u]>>]
  <2>1. status[u] = "PENDING"
    BY <1>1, <1>2 DEF TypeOK
  <2>2. status'[u] = "PENDING" /\ uri'[u] = uri[u] /\ store' = store /\ NamedBy(d)' = {u}
    BY <1>1, <1>5, <1>6, <2>1
  <2> QED
    BY <1>5, <2>2, NoRow, SoleRow
<1>8. \A e \in Pairs : e # d => StateOf(e)' = StateOf(e) /\ ObjectOf(e)' = ObjectOf(e)
  BY <1>1, <1>6, SameView
<1> DEFINE b == store[<<d[1], d[2], uri[u]>>]
<1>9. States' = [States EXCEPT ![d] = "PENDING"] /\ Bytes' = [Bytes EXCEPT ![d] = b]
  <2> HIDE DEF b
  <2>1. StateOf(d)' = "PENDING" /\ ObjectOf(d)' = b
    BY <1>7 DEF b
  <2> QED
    BY <1>2, <1>8, <2>1, OneVersion
<1>10. b \in {None} \union Datasets!WritersOf(d)
  BY <1>2, StoredByTarget DEF Datasets!WritersOf
<1>11. States[d] = "none"
  BY <1>2, <1>7 DEF States
<1> HIDE DEF b
<1>12. Datasets!Reserve(d)
  BY <1>4, <1>9, <1>10, <1>11 DEF Datasets!Reserve, States, Bytes, Pairs
<1> QED
  BY <1>2, <1>12 DEF Datasets!Next, Pairs

\* Bytes that are stored before the row is committed are of no version yet.
LEMMA PutStores ==
    ASSUME TableInv, BucketInv, NEW u \in Uploads, Put(u)
    PROVE  Datasets!Next \/ UNCHANGED Datasets!versionVars
<1>1. /\ script[u] = "url" /\ store' = [store EXCEPT ![KeyOf(u)] = u]
      /\ up' = up /\ status' = status /\ uri' = uri
  BY DEF Put, tables
<1>2. TypeOK /\ up[u] \in Upload /\ up[u].at \in Answered
  BY <1>1 DEF TableInv, TypeOK, Answered
<1>3. PICK d \in Pairs, t \in Types : d = <<up[u].slug, up[u].version>> /\ t = TypeOf[u]
  BY <1>2, PairOf, DatasetsAssumption DEF DatasetsAssumption
<1>4. /\ KeyOf(u) = <<d[1], d[2], t>> /\ KeyOf(u) \in Key
      /\ store'[KeyOf(u)] = u /\ \A k \in Key : k # KeyOf(u) => store'[k] = store[k]
  BY <1>1, <1>2, <1>3 DEF KeyOf, Key, Pairs, TypeOK
<1>5. Targets[u] = d /\ Targets' = Targets
  BY <1>1, <1>2, <1>3 DEF Targets, Answered
<1>6. \A e : NamedBy(e)' = NamedBy(e)
  BY <1>1 DEF NamedBy, RowsOf, Committed
<1>7. ASSUME NEW e \in Pairs, \A v \in NamedBy(e) : <<e[1], e[2], uri[v]>> # KeyOf(u)
      PROVE  StateOf(e)' = StateOf(e) /\ ObjectOf(e)' = ObjectOf(e)
  <2>1. \A v \in NamedBy(e) : <<e[1], e[2], uri[v]>> \in Key
    BY <1>2 DEF NamedBy, RowsOf, Committed, TypeOK, Key, Pairs
  <2>2. \A v \in NamedBy(e) : store'[<<e[1], e[2], uri[v]>>] = store[<<e[1], e[2], uri[v]>>]
    BY <1>4, <1>7, <2>1
  <2> QED
    BY <1>1, <1>6, <2>2, SameView
<1>8. \A e \in Pairs : e # d => \A v \in NamedBy(e) : <<e[1], e[2], uri[v]>> # KeyOf(u)
  BY <1>4 DEF Pairs
<1>9. CASE \E v \in NamedBy(d) : uri[v] = t
  <2>1. PICK v \in NamedBy(d) : uri[v] = t
    BY <1>9
  <2>2. /\ v \in Uploads /\ NamedBy(d) = {v} /\ StateOf(d) = status[v]
        /\ status[v] \in {"PENDING", "READY"}
    BY <1>2, OneRow DEF TypeOK
  <2>3. NamedBy(d)' = {v} /\ status'[v] = status[v] /\ uri'[v] = t
    BY <1>1, <1>6, <2>1, <2>2
  <2>4. StateOf(d)' = StateOf(d) /\ ObjectOf(d)' = u
    BY <1>4, <2>2, <2>3, SoleRow
  <2>5. States' = [States EXCEPT ![d] = StateOf(d)] /\ Bytes' = [Bytes EXCEPT ![d] = u]
    BY <1>7, <1>8, <2>4, OneVersion
  <2>6. States[d] # "none" /\ States' = States
    BY <2>2, <2>5 DEF States
  <2>7. u \in Datasets!WritersOf(d)
    BY <1>5 DEF Datasets!WritersOf
  <2>8. Datasets!Store(d)
    BY <1>5, <2>5, <2>6, <2>7 DEF Datasets!Store, States, Bytes, Pairs
  <2> QED
    BY <2>8 DEF Datasets!Next, Pairs
<1>10. CASE ~\E v \in NamedBy(d) : uri[v] = t
  <2>1. \A v \in NamedBy(d) : <<d[1], d[2], uri[v]>> # KeyOf(u)
    BY <1>4, <1>10
  <2>2. \A e \in Pairs : StateOf(e)' = StateOf(e) /\ ObjectOf(e)' = ObjectOf(e)
    BY <1>7, <1>8, <2>1
  <2> QED
    BY <1>1, <2>2, Quietly
<1> QED
  BY <1>9, <1>10

\* A report makes the row name the object it is about, and the row is READY if it was not.
LEMMA NotifyConfirms ==
    ASSUME TableInv, BucketInv, NEW k \in Key, Notify(k)
    PROVE  Datasets!Next \/ UNCHANGED Datasets!versionVars
<1>1. /\ k \in events /\ up' = up /\ store' = store
      /\ status' = [v \in Uploads |-> IF v \in NamedBy(k) THEN "READY" ELSE status[v]]
      /\ uri' = [v \in Uploads |-> IF v \in NamedBy(k) THEN k[3] ELSE uri[v]]
  BY DEF Notify
<1>2. PICK d \in Pairs, t \in Types : k = <<d[1], d[2], t>> /\ d = <<k[1], k[2]>> /\ t = k[3]
  <2>1. PICK s \in Slugs, n \in Versions, t \in Types : k = <<s, n, t>>
    BY DEF Key
  <2>2. <<s, n>> \in Pairs /\ <<s, n>>[1] = s /\ <<s, n>>[2] = n
    BY DEF Pairs
  <2> QED
    BY <2>1, <2>2
<1>3. NamedBy(k) = NamedBy(d) /\ \A e : NamedBy(e)' = NamedBy(e)
  BY <1>1, <1>2 DEF NamedBy, RowsOf, Committed
<1>4. Targets' = Targets
  BY <1>1 DEF Targets
<1>5. \A e \in Pairs : e # d => StateOf(e)' = StateOf(e) /\ ObjectOf(e)' = ObjectOf(e)
  <2> SUFFICES ASSUME NEW e \in Pairs, e # d
               PROVE  StateOf(e)' = StateOf(e) /\ ObjectOf(e)' = ObjectOf(e)
    OBVIOUS
  <2>1. \A v \in NamedBy(e) : v \in Uploads /\ v \notin NamedBy(d)
    BY DEF NamedBy, RowsOf, Committed, Pairs
  <2>2. \A v \in NamedBy(e) : status'[v] = status[v] /\ uri'[v] = uri[v]
    BY <1>1, <1>3, <2>1
  <2> QED
    BY <1>1, <1>3, <2>2, SameView
<1>6. CASE NamedBy(d) = {}
  <2>1. StateOf(d)' = StateOf(d) /\ ObjectOf(d)' = ObjectOf(d)
    BY <1>1, <1>3, <1>6, SameView
  <2> QED
    BY <1>1, <1>5, <2>1, Quietly
<1>7. ASSUME NEW v \in NamedBy(d)
      PROVE  Datasets!Next
  <2>1. /\ v \in Uploads /\ NamedBy(d) = {v} /\ StateOf(d) = status[v]
        /\ status[v] \in {"PENDING", "READY"}
    BY OneRow DEF TableInv, TypeOK
  <2>2. NamedBy(d)' = {v} /\ status'[v] = "READY" /\ uri'[v] = t
    BY <1>1, <1>2, <1>3, <2>1
  <2>3. StateOf(d)' = "READY" /\ ObjectOf(d)' = store[k]
    BY <1>1, <1>2, <2>2, SoleRow
  <2>4. States' = [States EXCEPT ![d] = "READY"] /\ Bytes' = [Bytes EXCEPT ![d] = store[k]]
    BY <1>5, <2>3, OneVersion
  <2>5. store[k] \in Datasets!WritersOf(d)
    <3>1. store[k] # None
      BY <1>1 DEF BucketInv, Reported
    <3> QED
      BY <1>2, <3>1, StoredByTarget DEF Datasets!WritersOf
  <2>6. States[d] = status[v]
    BY <2>1 DEF States
  <2>7. CASE status[v] = "PENDING"
    <3>1. Datasets!Confirm(d)
      BY <1>4, <2>4, <2>5, <2>6, <2>7 DEF Datasets!Confirm, States, Bytes, Pairs
    <3> QED
      BY <3>1 DEF Datasets!Next, Pairs
  <2>8. CASE status[v] = "READY"
    <3>1. States' = States
      BY <2>4, <2>6, <2>8 DEF States
    <3>2. Datasets!Store(d)
      BY <1>4, <2>4, <2>5, <2>6, <2>8, <3>1 DEF Datasets!Store, States, Bytes, Pairs
    <3> QED
      BY <3>2 DEF Datasets!Next, Pairs
  <2> QED
    BY <2>1, <2>7, <2>8
<1> QED
  BY <1>6, <1>7

\* Before the answer a request is of no version; a rollback after it leaves none behind.
LEMMA OthersView ==
    ASSUME TableInv, [Next]_vars, \A u \in Uploads : ~Answer(u) /\ ~Commit(u) /\ ~Put(u),
           \A k \in Key : ~Notify(k)
    PROVE  UNCHANGED Datasets!versionVars
<1>0. TypeOK
  BY DEF TableInv
<1>1. store' = store /\ status' = status /\ uri' = uri
  BY OtherSteps
<1>2. ASSUME NEW u \in Uploads
      PROVE  /\ Targets'[u] = Targets[u]
             /\ up'[u].at = "committed" <=> up[u].at = "committed"
             /\ up[u].at = "committed" => up'[u] = up[u]
  <2>1. CASE up' = up
    BY <2>1 DEF Targets
  <2>2. ASSUME NEW w \in Uploads,
               ReadLatest(w) \/ TrySlug(w) \/ ReadVersion(w) \/ InsertRow(w) \/ Ask(w)
        PROVE  up[w].at \notin Answered /\ up'[w].at \notin Answered
    <3>0. up[w] \in Upload /\ up \in [Uploads -> Upload]
      BY <1>0 DEF TypeOK
    <3>1. CASE ReadLatest(w)
      BY <3>0, <3>1 DEF ReadLatest, Answered, Upload
    <3>2. CASE TrySlug(w)
      <4>1. up[w].at = "slug"
        BY <3>2 DEF TrySlug
      <4>2. \/ \E s : up' = [up EXCEPT ![w].at = "version", ![w].slug = s]
            \/ up' = [up EXCEPT ![w].tried = @ + 1]
            \/ Fail(w)
        BY <3>2 DEF TrySlug
      <4> QED
        BY <3>0, <4>1, <4>2 DEF Fail, Answered, Upload
    <3>3. CASE ReadVersion(w)
      BY <3>0, <3>3 DEF ReadVersion, Answered, Upload
    <3>4. CASE InsertRow(w)
      BY <3>0, <3>4 DEF InsertRow, Fail, Answered, Upload
    <3>5. CASE Ask(w)
      <4>1. script[w] = "idle" /\ up' = [up EXCEPT ![w].at = "latest"]
        BY <3>5 DEF Ask
      <4>2. up[w].at = "idle"
        BY <1>0, <4>1 DEF TypeOK
      <4> QED
        BY <3>0, <4>1, <4>2 DEF Answered, Upload
    <3> QED
      BY <2>2, <3>1, <3>2, <3>3, <3>4, <3>5
  <2>3. ASSUME NEW w \in Uploads, up[w].at \notin Answered /\ up'[w].at \notin Answered,
               \A v \in Uploads : v # w => up'[v] = up[v]
        PROVE  /\ Targets'[u] = Targets[u]
               /\ up'[u].at = "committed" <=> up[u].at = "committed"
               /\ up[u].at = "committed" => up'[u] = up[u]
    <3>1. CASE u = w
      BY <2>3, <3>1 DEF Targets, Answered
    <3>2. CASE u # w
      BY <2>3, <3>2 DEF Targets
    <3> QED
      BY <3>1, <3>2
  <2>4. ASSUME NEW w \in Uploads,
               ReadLatest(w) \/ TrySlug(w) \/ ReadVersion(w) \/ InsertRow(w) \/ Ask(w)
        PROVE  \A v \in Uploads : v # w => up'[v] = up[v]
    BY <1>0, <2>4 DEF ReadLatest, TrySlug, ReadVersion, InsertRow, Ask, Fail, TypeOK
  <2>5. ASSUME NEW w \in Uploads, Break(w)
        PROVE  /\ Targets'[u] = Targets[u]
               /\ up'[u].at = "committed" <=> up[u].at = "committed"
               /\ up[u].at = "committed" => up'[u] = up[u]
    <3>1. /\ up[w].at \notin {"committed", "lost"}
          /\ up' = [up EXCEPT ![w].at = IF @ = "unsure" THEN "lost" ELSE "failed"]
      BY <2>5 DEF Break
    <3>2. /\ up'[w].at = IF up[w].at = "unsure" THEN "lost" ELSE "failed"
          /\ up'[w].slug = up[w].slug /\ up'[w].version = up[w].version
          /\ \A v \in Uploads : v # w => up'[v] = up[v]
      BY <1>0, <3>1 DEF TypeOK, Upload
    <3>3. CASE u = w
      BY <3>1, <3>2, <3>3 DEF Targets
    <3>4. CASE u # w
      BY <3>2, <3>4 DEF Targets
    <3> QED
      BY <3>3, <3>4
  <2>6. \/ up' = up
        \/ \E w \in Uploads : \/ ReadLatest(w) \/ TrySlug(w) \/ ReadVersion(w) \/ InsertRow(w)
                              \/ Ask(w) \/ Break(w)
    <3>1. ASSUME NEW w \in Uploads, Poll(w) \/ GiveUp(w)
          PROVE  up' = up
      BY <3>1 DEF Poll, GiveUp, tables
    <3>2. ASSUME NEW k \in Key, LoseEvent(k)
          PROVE  up' = up
      BY <3>2 DEF LoseEvent, tables
    <3>3. ASSUME ReadMetadata \/ GetUrl \/ Fetch
          PROVE  up' = up
      <4>1. UNCHANGED tables
        BY <3>3 DEF ReadMetadata, GetUrl, Fetch
      <4> QED
        BY <4>1 DEF tables
    <3>4. UNCHANGED vars => up' = up
      BY DEF vars
    <3> QED
      BY <3>1, <3>2, <3>3, <3>4 DEF Next, Handle
  <2> QED
    BY <2>1, <2>2, <2>3, <2>4, <2>5, <2>6
<1>3. \A e : NamedBy(e)' = NamedBy(e)
  <2> SUFFICES ASSUME NEW e PROVE NamedBy(e)' = NamedBy(e)
    OBVIOUS
  <2>1. /\ NamedBy(e)' = {v \in Uploads : /\ up'[v].at = "committed"
                                         /\ up'[v].slug = e[1] /\ up'[v].version = e[2]}
        /\ NamedBy(e) = {v \in Uploads : /\ up[v].at = "committed"
                                        /\ up[v].slug = e[1] /\ up[v].version = e[2]}
    BY DEF NamedBy, RowsOf, Committed
  <2> QED
    BY <1>2, <2>1
<1>4. \A e \in Pairs : StateOf(e)' = StateOf(e) /\ ObjectOf(e)' = ObjectOf(e)
  BY <1>1, <1>3, SameView
<1> QED
  BY <1>2, <1>4, Quietly

\* The versions of datasets behave as versions of an artifact: each appears once, is never
\* taken back, is READY only with bytes, and what is downloaded was stored by an upload that
\* was answered with this version, in whatever order answers, commits, uploads and reports
\* come.
THEOREM DatasetsAreArtifacts == Spec => VersionsAreArtifacts
<1>1. Init => Datasets!Init
  <2> SUFFICES ASSUME Init PROVE Datasets!Init
    OBVIOUS
  <2>1. \A u \in Uploads : up[u].at = "idle"
    BY DEF Init
  <2>2. Targets = [u \in Uploads |-> None]
    BY <2>1 DEF Targets
  <2>3. \A d : NamedBy(d) = {}
    BY <2>1 DEF NamedBy, RowsOf, Committed
  <2>4. \A d : StateOf(d) = "none" /\ ObjectOf(d) = None
    BY <2>3, NoRow
  <2> QED
    BY <2>2, <2>4 DEF Datasets!Init
<1>2. TableInv /\ BucketInv /\ [Next]_vars => [Datasets!Next]_(Datasets!versionVars)
  <2> SUFFICES ASSUME TableInv, BucketInv, [Next]_vars
               PROVE  Datasets!Next \/ UNCHANGED Datasets!versionVars
    OBVIOUS
  <2>1. ASSUME NEW u \in Uploads, Answer(u)
        PROVE  Datasets!Next
    BY <2>1, AnswerGives DEF TableInv
  <2>2. ASSUME NEW u \in Uploads, Commit(u)
        PROVE  Datasets!Next
    BY <2>2, CommitReserves
  <2> QED
    BY <2>1, <2>2, PutStores, NotifyConfirms, OthersView
<1> QED
  BY <1>1, <1>2, TableInvariant, BucketInvariant, PTL DEF Spec, VersionsAreArtifacts, Datasets!Spec
=============================================================================
