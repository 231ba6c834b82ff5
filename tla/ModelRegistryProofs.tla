------------------------ MODULE ModelRegistryProofs ------------------------
(***************************************************************************)
(* What a model version can be downloaded with, and what a script that has *)
(* confirmed its upload is served, for any sets of versions, file names    *)
(* and scripts and any number of faults.                                   *)
(*                                                                         *)
(* The argument: a transaction's location is one that a script has asked   *)
(* for (Asked), and from the check of the bucket on it names an object;    *)
(* the row lock keeps the writers of a version apart (OneWriter); and what *)
(* a transaction has read of the row stays true, because a row is never    *)
(* taken back, never loses its location and never becomes PENDING again    *)
(* (Based).  In the end the registry is shown to implement                 *)
(* ArtifactVersions.                                                       *)
(***************************************************************************)
EXTENDS ModelRegistry, TLAPS, FiniteSetTheorems

-----------------------------------------------------------------------------
(* The inductive invariant.                                                *)

\* Somebody has asked for an upload URL of v under the name f.
Asked(v, f) == \E c \in Askers(v) : client[c].file = f

\* What a transaction has written, from where it is.
Shaped(i) ==
    LET t == tx[i] IN
    /\ InFlight(i) => t.v # None
    /\ ~InFlight(i) => t.sets = {}
    /\ i[2] = "create" =>
         /\ t.at \notin {"checked", "located"}
         /\ t.sets = IF t.at = "answered" THEN {"row"} ELSE {}
    /\ i[2] = "upload" =>
         /\ t.at \notin {"checked", "located"}
         /\ t.sets \subseteq {"file"} /\ (t.sets # {} => t.at = "answered")
    /\ i[2] \in {"confirm", "hook"} =>
         /\ t.sets \subseteq {"file", "ready"}
         /\ t.sets # {} => t.at \in {"located", "answered"}
         /\ "ready" \in t.sets => t.at = "answered"
    /\ i[2] = "hook" => t.at \in {"none", "checked", "located", "answered"}

\* What it has read is still so.
Based(i) ==
    LET t == tx[i] IN InFlight(i) =>
    /\ "row" \in t.sets => ~Exists(t.v)
    /\ i[2] # "create" /\ t.at # "started" => Exists(t.v)
    /\ i[2] = "upload" => t.file # None /\ Asked(t.v, t.file)
    /\ i[2] \in {"confirm", "hook"} /\ t.at # "started" =>
         /\ row[t.v].file # None
         /\ t.file # None /\ Asked(t.v, t.file)
         /\ t.at # "read" => store[t.file] # None
         /\ t.at = "answered" => "ready" \in t.sets \/ row[t.v].status = "READY"

\* Its row is locked by the only transaction that has written a version.
OneWriter ==
    \A i, j \in Ids : /\ InFlight(i) /\ InFlight(j) /\ tx[i].v = tx[j].v
                      /\ tx[i].sets # {} /\ tx[j].sets # {}
                      => i = j

Located(v) ==
    /\ row[v].file # None => Asked(v, row[v].file)
    /\ row[v].status = "READY" => \E c \in Askers(v) : store[client[c].file] # None

\* A script makes its requests in order, for one version and one file name.
Script(c) ==
    LET k == client[c]
        Made(kind) == tx[<<c, kind>>].at # "none"
    IN
    /\ k.at = "idle" => \A kind \in {"create", "upload", "confirm"} : ~Made(kind)
    /\ k.at = "create" => ~Made("upload")
    /\ k.at \in {"create", "upload", "put"} => k.file # None /\ ~Made("confirm")
    /\ k.at = "put" => Made("upload")
    /\ k.at # "idle" => k.v # None
    /\ k.file # None => k.file \in FilesOf[k.v]
    /\ Made("upload") => k.file # None
    /\ \A kind \in {"create", "upload", "confirm"} :
         InFlight(<<c, kind>>) => /\ tx[<<c, kind>>].v = k.v
                                  /\ kind # "confirm" => tx[<<c, kind>>].file = k.file
    /\ k.at = "done" => row[k.v].file # None
    /\ tx[<<c, "confirm">>].at = "committed" => k.v # None /\ row[k.v].status = "READY"

ModelsInvariant ==
    /\ TypeOK
    /\ \A i \in Ids : Shaped(i) /\ Based(i)
    /\ OneWriter
    /\ \A v \in Versions : Located(v)
    /\ \A f \in events : store[f] # None
    /\ \A c \in Clients : Script(c)

-----------------------------------------------------------------------------
(* Versions with file names of their own: a caller of log_model sees to that.   *)

OwnFiles == \A v, w \in Versions : v # w => FilesOf[v] \cap FilesOf[w] = {}

\* An object was put by a script that has its name.
Bytes(f) ==
    LET k == client[store[f]] IN store[f] # None => k.at # "idle" /\ k.file = f

\* Nobody but c writes the object of c's version.
Undisturbed(c) ==
    /\ client[c].at \in {"confirm", "done"} /\ client[c].file # None
    => /\ tx[<<c, "upload">>].at # "none"
       /\ Askers(client[c].v) = {c} => store[client[c].file] = c

OwnFilesInvariant ==
    /\ ModelsInvariant
    /\ \A f \in Files : Bytes(f)
    /\ \A c \in Clients : Undisturbed(c)

-----------------------------------------------------------------------------
(* Types, and what only grows.                                             *)

Scripts == {"create", "upload", "confirm"}

LEMMA IdTypes ==
    /\ \A i \in Ids : i[2] \in Scripts \union {"hook"}
    /\ \A i \in Ids : i[2] # "hook" => i[1] \in Clients /\ i = <<i[1], i[2]>>
    /\ \A i \in Ids : i[2] = "hook" => i[1] \in Files /\ i = <<i[1], i[2]>>
    /\ \A c \in Clients, kind \in Scripts : <<c, kind>> \in Ids
    /\ \A f \in Files : <<f, "hook">> \in Ids
BY DEF Ids, Scripts

LEMMA TxTypes ==
    ASSUME TypeOK, NEW i \in Ids
    PROVE  /\ tx[i] \in Tx
           /\ tx[i].v \in Versions \union {None} /\ tx[i].file \in Files \union {None}
           /\ tx[i].sets \subseteq {"row", "file", "ready"}
           /\ None \notin Versions /\ None \notin Files /\ None \notin Clients
BY ModelsAssumption DEF TypeOK, Tx, ModelsAssumption

LEMMA ClientTypes ==
    ASSUME TypeOK, NEW c \in Clients
    PROVE  /\ client[c] \in Client
           /\ client[c].v \in Versions \union {None} /\ client[c].file \in Files \union {None}
           /\ client[c].at \in {"idle", "create", "upload", "put", "confirm", "done", "raised"}
BY DEF TypeOK, Client

LEMMA RowTypes ==
    ASSUME TypeOK, NEW v \in Versions
    PROVE  /\ row[v] \in Row
           /\ row[v].status \in {"none", "PENDING", "READY"}
           /\ row[v].file \in Files \union {None}
BY DEF TypeOK, Row

LEMMA AskersNamed ==
    ASSUME ModelsInvariant, NEW v, NEW c \in Askers(v)
    PROVE  client[c].file \in Files
<1>1. c \in Clients /\ client[c].file # None
  BY DEF ModelsInvariant, Askers, Script
<1> QED
  BY <1>1, ClientTypes DEF ModelsInvariant

\* Rows are not taken back, requests are not forgotten, and no object is lost.
Grows ==
    /\ \A v \in Versions : row[v].status # "none" => row'[v].status # "none"
    /\ \A v \in Versions : row[v].status = "READY" => row'[v].status = "READY"
    /\ \A v \in Versions : row[v].file # None => row'[v].file # None
    /\ \A f \in Files : store[f] # None => store'[f] # None
    /\ \A c \in Clients : tx[<<c, "upload">>].at # "none" =>
         /\ tx'[<<c, "upload">>].at # "none"
         /\ client'[c].v = client[c].v /\ client'[c].file = client[c].file

LEMMA AskedGrows ==
    ASSUME Grows, NEW v, NEW f, Asked(v, f)
    PROVE  Asked(v, f)'
BY DEF Grows, Asked, Askers

\* A request that takes no part in the step.
LEMMA OthersKeep ==
    ASSUME TypeOK, Grows, NEW i \in Ids, Shaped(i), Based(i), tx'[i] = tx[i],
           InFlight(i) /\ "row" \in tx[i].sets => row'[tx[i].v].status = "none"
    PROVE  Shaped(i)' /\ Based(i)' /\ (InFlight(i)' <=> InFlight(i))
<1>1. InFlight(i)' <=> InFlight(i)
  BY DEF InFlight
<1>2. Shaped(i)'
  BY <1>1 DEF Shaped
<1>3. Based(i)'
  <2> SUFFICES ASSUME InFlight(i) PROVE Based(i)'
    BY <1>1 DEF Based
  <2>1. tx[i].v \in Versions /\ tx[i].file \in Files \union {None} /\ None \notin Files
    BY TxTypes DEF Shaped
  <2>2. Asked(tx[i].v, tx[i].file) => Asked(tx[i].v, tx[i].file)'
    BY AskedGrows
  <2>3. "row" \in tx[i].sets => ~Exists(tx[i].v)'
    BY DEF Exists
  <2>4. i[2] # "create" /\ tx[i].at # "started" => Exists(tx[i].v)'
    BY <2>1 DEF Based, Grows, Exists
  <2>5. i[2] = "upload" => tx[i].file # None /\ Asked(tx[i].v, tx[i].file)'
    BY <2>2 DEF Based
  <2>6. ASSUME i[2] \in {"confirm", "hook"}, tx[i].at # "started"
        PROVE  /\ row'[tx[i].v].file # None
               /\ tx[i].file # None /\ Asked(tx[i].v, tx[i].file)'
               /\ tx[i].at # "read" => store'[tx[i].file] # None
               /\ tx[i].at = "answered" =>
                    "ready" \in tx[i].sets \/ row'[tx[i].v].status = "READY"
    BY <2>1, <2>2, <2>6 DEF Based, Grows
  <2> QED
    BY <1>1, <2>3, <2>4, <2>5, <2>6 DEF Based
<1> QED
  BY <1>1, <1>2, <1>3

LEMMA LocatedKeeps ==
    ASSUME TypeOK, Grows, NEW v \in Versions, Located(v), row'[v] = row[v],
           \A c \in Askers(v) : client[c].file \in Files
    PROVE  Located(v)'
<1>1. row[v].file # None => Asked(v, row[v].file)'
  BY AskedGrows DEF Located
<1>2. ASSUME row[v].status = "READY"
      PROVE  \E c \in Askers(v)' : store'[client'[c].file] # None
  <2>1. PICK c \in Askers(v) : store[client[c].file] # None
    BY <1>2 DEF Located
  <2>2. c \in Askers(v)' /\ client'[c].file = client[c].file
    BY <2>1 DEF Askers, Grows
  <2> QED
    BY <2>1, <2>2 DEF Grows
<1> QED
  BY <1>1, <1>2 DEF Located, Asked

-----------------------------------------------------------------------------
(* The shape of a step of one transaction.                                 *)

\* Transaction i becomes q, and nobody but the script that waits for it goes on.
Turns(i, q) ==
    /\ tx' \in [Ids -> Tx]
    /\ tx'[i] = q /\ \A j \in Ids : j # i => tx'[j] = tx[j]
    /\ tx[i].at # "none"
    /\ q.at = "none" => i[2] = "hook"
    /\ InFlight(i)' => /\ InFlight(i) /\ q.v = tx[i].v
                       /\ i[2] \in {"create", "upload"} => q.file = tx[i].file
    /\ client' \in [Clients -> Client]
    /\ \A c \in Clients :
         /\ client'[c].v = client[c].v /\ client'[c].file = client[c].file
         /\ client'[c].at = client[c].at \/ i = <<c, client[c].at>>

LEMMA TellShape ==
    ASSUME TypeOK, NEW i \in Ids, NEW at \in {"upload", "put", "done", "raised"}, Tell(i, at)
    PROVE  /\ client' \in [Clients -> Client]
           /\ \A c \in Clients :
                /\ client'[c].v = client[c].v /\ client'[c].file = client[c].file
                /\ \/ client'[c].at = client[c].at /\ i # <<c, client[c].at>>
                   \/ client'[c].at = at /\ i = <<c, client[c].at>>
<1>1. \A c \in Clients : client[c] \in Client
  BY ClientTypes
<1>2. client' = [c \in Clients |->
                   IF i = <<c, client[c].at>> THEN [client[c] EXCEPT !.at = at] ELSE client[c]]
  BY DEF Tell
<1>3. \A x \in Client : /\ [x EXCEPT !.at = at] \in Client
                        /\ [x EXCEPT !.at = at].v = x.v
                        /\ [x EXCEPT !.at = at].file = x.file
                        /\ [x EXCEPT !.at = at].at = at
  BY DEF Client
<1>4. client' \in [Clients -> Client]
  BY <1>1, <1>2, <1>3
<1>5. ASSUME NEW c \in Clients
      PROVE  /\ client'[c].v = client[c].v /\ client'[c].file = client[c].file
             /\ \/ client'[c].at = client[c].at /\ i # <<c, client[c].at>>
                \/ client'[c].at = at /\ i = <<c, client[c].at>>
  <2>1. CASE i = <<c, client[c].at>>
    BY <1>1, <1>2, <1>3, <2>1
  <2>2. CASE i # <<c, client[c].at>>
    BY <1>2, <2>2
  <2> QED
    BY <2>1, <2>2
<1> QED
  BY <1>4, <1>5

LEMMA TxShape ==
    ASSUME TypeOK, NEW i \in Ids, NEW q \in Tx, tx' = [tx EXCEPT ![i] = q]
    PROVE  /\ tx' \in [Ids -> Tx] /\ tx'[i] = q
           /\ \A j \in Ids : j # i => tx'[j] = tx[j]
BY DEF TypeOK

\* Nothing grows smaller in a step of this shape.
LEMMA TurnsGrows ==
    ASSUME TypeOK, NEW i \in Ids, NEW q, Turns(i, q),
           \A v \in Versions : row[v].status # "none" => row'[v].status # "none",
           \A v \in Versions : row[v].status = "READY" => row'[v].status = "READY",
           \A v \in Versions : row[v].file # None => row'[v].file # None,
           UNCHANGED store
    PROVE  Grows
<1>1. ASSUME NEW c \in Clients, tx[<<c, "upload">>].at # "none"
      PROVE  tx'[<<c, "upload">>].at # "none"
  <2>1. <<c, "upload">> \in Ids /\ <<c, "upload">>[2] # "hook"
    BY IdTypes DEF Scripts
  <2> QED
    BY <1>1, <2>1 DEF Turns
<1> QED
  BY <1>1 DEF Grows, Turns

\* What remains to be shown of such a step.
LEMMA TurnsKeeps ==
    ASSUME ModelsInvariant, NEW i \in Ids, NEW q, Turns(i, q),
           row' \in [Versions -> Row],
           \A v \in Versions : row[v].status # "none" => row'[v].status # "none",
           \A v \in Versions : row[v].status = "READY" => row'[v].status = "READY",
           \A v \in Versions : row[v].file # None => row'[v].file # None,
           \A v \in Versions : row'[v].status = "none" => row'[v].file = None,
           \A v \in Versions : row'[v].status = "READY" => row'[v].file # None,
           UNCHANGED <<deleted, store, events>>, faults' \in 0..MaxFaults,
           \A j \in Ids : j # i /\ InFlight(j) /\ "row" \in tx[j].sets
                              => row'[tx[j].v].status = "none",
           Shaped(i)', Based(i)',
           InFlight(i)' /\ q.sets # {} => tx[i].sets # {} \/ ~Locked(i),
           \A v \in Versions : Located(v)',
           \A c \in Clients : client'[c].at # client[c].at =>
             \/ client'[c].at = "raised"
             \/ client'[c].at = "put" /\ client[c].at = "upload"
             \/ client'[c].at = "done" /\ row'[client[c].v].file # None,
           \A c \in Clients : i = <<c, "confirm">> /\ q.at = "committed" =>
             client[c].v # None /\ row'[client[c].v].status = "READY"
    PROVE  ModelsInvariant'
<1>1. /\ TypeOK /\ Grows
      /\ \A j \in Ids : Shaped(j) /\ Based(j)
      /\ tx' \in [Ids -> Tx] /\ tx'[i] = q /\ \A j \in Ids : j # i => tx'[j] = tx[j]
  BY TurnsGrows DEF ModelsInvariant, Turns
<1>2. TypeOK'
  <2>1. /\ deleted' \in BOOLEAN /\ store' \in [Files -> Clients \union {None}]
        /\ events' \subseteq Files /\ client' \in [Clients -> Client]
    BY <1>1 DEF TypeOK, Turns
  <2>2. tx' \in [Ids -> Tx] /\ row' \in [Versions -> Row] /\ faults' \in 0..MaxFaults
    BY <1>1
  <2>3. \A v \in Versions : /\ row'[v].status = "none" => row'[v].file = None
                           /\ row'[v].status = "READY" => row'[v].file # None
    OBVIOUS
  <2> QED
    BY <2>1, <2>2, <2>3 DEF TypeOK
<1>3. \A j \in Ids : j # i => Shaped(j)' /\ Based(j)' /\ (InFlight(j)' <=> InFlight(j))
  BY <1>1, OthersKeep
<1>4. OneWriter'
  <2>1. ASSUME NEW j \in Ids, j # i, InFlight(i)', InFlight(j)', tx'[i].v = tx'[j].v,
               tx'[i].sets # {}, tx'[j].sets # {}
        PROVE  FALSE
    <3>1. InFlight(i) /\ InFlight(j) /\ tx[i].v = tx[j].v /\ tx[j].sets # {}
      BY <1>1, <1>3, <2>1 DEF Turns
    <3>2. Locked(i)
      BY <2>1, <3>1 DEF Locked
    <3>3. tx[i].sets # {}
      BY <1>1, <2>1, <3>2
    <3> QED
      BY <2>1, <3>1, <3>3 DEF ModelsInvariant, OneWriter
  <2>2. ASSUME NEW j \in Ids, NEW k \in Ids, j # i, k # i, InFlight(j)', InFlight(k)',
               tx'[j].v = tx'[k].v, tx'[j].sets # {}, tx'[k].sets # {}
        PROVE  j = k
    BY <1>1, <1>3, <2>2 DEF ModelsInvariant, OneWriter
  <2> QED
    BY <2>1, <2>2 DEF OneWriter
<1>5. \A f \in events' : store'[f] # None
  BY DEF ModelsInvariant
<1>6. ASSUME NEW c \in Clients
      PROVE  Script(c)'
  <2>1. /\ Script(c)
        /\ client[c].v \in Versions \union {None} /\ None \notin Versions
        /\ client'[c].v = client[c].v /\ client'[c].file = client[c].file
    BY <1>1, ClientTypes, ModelsAssumption DEF ModelsInvariant, Turns, ModelsAssumption
  <2>2. ASSUME NEW kind \in Scripts
        PROVE  /\ tx[<<c, kind>>].at # "none" <=> tx'[<<c, kind>>].at # "none"
               /\ InFlight(<<c, kind>>)' =>
                    /\ InFlight(<<c, kind>>)
                    /\ tx'[<<c, kind>>].v = tx[<<c, kind>>].v
                    /\ kind # "confirm" => tx'[<<c, kind>>].file = tx[<<c, kind>>].file
               /\ kind = "confirm" /\ tx'[<<c, kind>>].at = "committed" =>
                    client[c].v # None /\ row'[client[c].v].status = "READY"
    <3>1. <<c, kind>> \in Ids /\ <<c, kind>>[2] = kind /\ kind # "hook"
      BY IdTypes DEF Scripts
    <3>2. CASE i = <<c, kind>>
      <4>1. /\ tx[i].at # "none" /\ (q.at = "none" => i[2] = "hook") /\ i[2] = kind
            /\ InFlight(i)' => /\ InFlight(i) /\ q.v = tx[i].v
                               /\ kind \in {"create", "upload"} => q.file = tx[i].file
        BY <3>1, <3>2 DEF Turns
      <4>2. kind # "confirm" => kind \in {"create", "upload"}
        BY DEF Scripts
      <4>3. kind = "confirm" /\ q.at = "committed" =>
              client[c].v # None /\ row'[client[c].v].status = "READY"
        BY <3>2
      <4> QED
        BY <1>1, <3>1, <3>2, <4>1, <4>2, <4>3
    <3>3. CASE i # <<c, kind>>
      <4>1. tx'[<<c, kind>>] = tx[<<c, kind>>]
        BY <1>1, <3>1, <3>3
      <4>2. InFlight(<<c, kind>>)' => InFlight(<<c, kind>>)
        BY <4>1 DEF InFlight
      <4>3. kind = "confirm" /\ tx[<<c, kind>>].at = "committed" =>
              client[c].v # None /\ row'[client[c].v].status = "READY"
        BY <2>1 DEF Script
      <4> QED
        BY <4>1, <4>2, <4>3
    <3> QED
      BY <3>2, <3>3
  <2>3. \/ client'[c].at = client[c].at
        \/ client'[c].at = "raised" /\ client[c].at \in Scripts
        \/ client'[c].at = "put" /\ client[c].at = "upload" /\ tx[<<c, "upload">>].at # "none"
        \/ /\ client'[c].at = "done" /\ row'[client[c].v].file # None
           /\ client[c].at \in Scripts
    <3>1. client'[c].at # client[c].at => i = <<c, client[c].at>> /\ tx[i].at # "none"
      BY DEF Turns
    <3>2. client[c].at \in {"idle", "create", "upload", "put", "confirm", "done", "raised"}
      BY <1>1, ClientTypes
    <3>3. i = <<c, client[c].at>> => client[c].at \in Scripts
      BY <3>2 DEF Ids, Scripts
    <3> QED
      BY <3>1, <3>3
  <2>4. client[c].at = "done" => row'[client[c].v].file # None
    BY <2>1, <1>1 DEF Script, Grows
  <2>5. /\ client'[c].at = "idle" =>
             \A kind \in Scripts : tx'[<<c, kind>>].at = "none"
        /\ client'[c].at = "create" => tx'[<<c, "upload">>].at = "none"
        /\ client'[c].at \in {"create", "upload", "put"} =>
             client[c].file # None /\ tx'[<<c, "confirm">>].at = "none"
        /\ client'[c].at = "put" => tx'[<<c, "upload">>].at # "none"
        /\ client'[c].at # "idle" => client[c].v # None
        /\ tx'[<<c, "upload">>].at # "none" => client[c].file # None
        /\ client'[c].at = "done" => row'[client[c].v].file # None
    BY <2>1, <2>2, <2>3, <2>4 DEF Script, Scripts
  <2>6. \A kind \in Scripts :
          InFlight(<<c, kind>>)' =>
            /\ tx'[<<c, kind>>].v = client[c].v
            /\ kind # "confirm" => tx'[<<c, kind>>].file = client[c].file
    BY <2>1, <2>2 DEF Script, Scripts
  <2>7. tx'[<<c, "confirm">>].at = "committed" =>
          client[c].v # None /\ row'[client[c].v].status = "READY"
    BY <2>2 DEF Scripts
  <2>8. client[c].file # None => client[c].file \in FilesOf[client[c].v]
    BY <2>1 DEF Script
  <2> QED
    BY <2>1, <2>5, <2>6, <2>7, <2>8 DEF Script, Scripts
<1> QED
  BY <1>1, <1>2, <1>3, <1>4, <1>5, <1>6 DEF ModelsInvariant

\* A step that writes no row.
LEMMA QuietKeeps ==
    ASSUME ModelsInvariant, NEW i \in Ids, NEW q, Turns(i, q),
           UNCHANGED <<row, deleted, store, events>>, faults' \in 0..MaxFaults,
           Shaped(i)', Based(i)',
           InFlight(i)' /\ q.sets # {} => tx[i].sets # {} \/ ~Locked(i),
           \A c \in Clients : client'[c].at # client[c].at =>
             \/ client'[c].at = "raised"
             \/ client'[c].at = "put" /\ client[c].at = "upload"
             \/ client'[c].at = "done" /\ row[client[c].v].file # None,
           \A c \in Clients : i = <<c, "confirm">> => q.at # "committed"
    PROVE  ModelsInvariant'
<1>1. TypeOK /\ \A v \in Versions : Located(v)
  BY DEF ModelsInvariant
<1>2. Grows
  BY <1>1, TurnsGrows
<1>3. \A v \in Versions : \A c \in Askers(v) : client[c].file \in Files
  BY AskersNamed
<1>4. \A v \in Versions : Located(v)'
  BY <1>1, <1>2, <1>3, LocatedKeeps
<1>5. /\ row' \in [Versions -> Row]
      /\ \A v \in Versions : row'[v].status = "none" => row'[v].file = None
      /\ \A v \in Versions : row'[v].status = "READY" => row'[v].file # None
  BY <1>1 DEF TypeOK
<1>6. \A j \in Ids : j # i /\ InFlight(j) /\ "row" \in tx[j].sets
                       => row'[tx[j].v].status = "none"
  BY DEF ModelsInvariant, Based, Exists
<1> QED
  BY <1>4, <1>5, <1>6, TurnsKeeps

InFlightStages == {"started", "read", "checked", "located", "answered"}

\* A transaction goes on.
LEMMA GoesShape ==
    ASSUME TypeOK, NEW i \in Ids, InFlight(i), NEW at \in InFlightStages, Goes(i, at),
           client' \in [Clients -> Client],
           \A c \in Clients :
             /\ client'[c].v = client[c].v /\ client'[c].file = client[c].file
             /\ client'[c].at = client[c].at \/ i = <<c, client[c].at>>
    PROVE  \E q : /\ Turns(i, q) /\ tx'[i] = q
                  /\ q.at = at /\ q.sets = tx[i].sets
                  /\ q.v = tx[i].v /\ q.file = tx[i].file
<1> DEFINE q == [tx[i] EXCEPT !.at = at]
<1>1. tx[i] \in Tx /\ tx \in [Ids -> Tx]
  BY TxTypes DEF TypeOK
<1>2. /\ q \in Tx /\ q.at = at /\ q.sets = tx[i].sets
      /\ q.v = tx[i].v /\ q.file = tx[i].file
  BY <1>1 DEF Tx, InFlightStages
<1>3. tx' = [tx EXCEPT ![i] = q]
  BY <1>1 DEF Goes
<1> HIDE DEF q
<1>4. /\ tx' \in [Ids -> Tx] /\ tx'[i] = q
      /\ \A j \in Ids : j # i => tx'[j] = tx[j]
  BY <1>2, <1>3, TxShape
<1>5. tx[i].at # "none" /\ q.at # "none"
  BY <1>2 DEF InFlight, InFlightStages
<1>6. Turns(i, q)
  BY <1>2, <1>4, <1>5 DEF Turns
<1> QED
  BY <1>2, <1>4, <1>6

\* A transaction goes on and has written.
LEMMA WritesShape ==
    ASSUME TypeOK, NEW i \in Ids, InFlight(i), NEW at \in InFlightStages,
           NEW what \in SUBSET {"row", "file", "ready"}, Writes(i, at, what),
           client' \in [Clients -> Client],
           \A c \in Clients :
             /\ client'[c].v = client[c].v /\ client'[c].file = client[c].file
             /\ client'[c].at = client[c].at \/ i = <<c, client[c].at>>
    PROVE  \E q : /\ Turns(i, q) /\ tx'[i] = q
                  /\ q.at = at /\ q.sets = tx[i].sets \union what
                  /\ q.v = tx[i].v /\ q.file = tx[i].file
<1> DEFINE q == [tx[i] EXCEPT !.at = at, !.sets = @ \union what]
<1>1. tx[i] \in Tx /\ tx \in [Ids -> Tx]
  BY TxTypes DEF TypeOK
<1>2. /\ q \in Tx /\ q.at = at /\ q.sets = tx[i].sets \union what
      /\ q.v = tx[i].v /\ q.file = tx[i].file
  BY <1>1 DEF Tx, InFlightStages
<1>3. tx' = [tx EXCEPT ![i] = q]
  BY <1>1 DEF Writes
<1> HIDE DEF q
<1>4. /\ tx' \in [Ids -> Tx] /\ tx'[i] = q
      /\ \A j \in Ids : j # i => tx'[j] = tx[j]
  BY <1>2, <1>3, TxShape
<1>5. tx[i].at # "none" /\ q.at # "none"
  BY <1>2 DEF InFlight, InFlightStages
<1>6. Turns(i, q)
  BY <1>2, <1>4, <1>5 DEF Turns
<1> QED
  BY <1>2, <1>4, <1>6

\* A transaction ends.
LEMMA EndsShape ==
    ASSUME TypeOK, NEW i \in Ids, InFlight(i), NEW at \in {"committed", "failed", "lost"},
           Ends(i, at),
           client' \in [Clients -> Client],
           \A c \in Clients :
             /\ client'[c].v = client[c].v /\ client'[c].file = client[c].file
             /\ client'[c].at = client[c].at \/ i = <<c, client[c].at>>
    PROVE  \E q : /\ Turns(i, q) /\ tx'[i] = q
                  /\ q.at = (IF i[2] = "hook" THEN "none" ELSE at) /\ q.sets = {}
                  /\ ~InFlight(i)' /\ Shaped(i)' /\ Based(i)'
<1> DEFINE q == IF i[2] = "hook" THEN Idle ELSE [Idle EXCEPT !.at = at]
<1>1. /\ q \in Tx /\ q.sets = {}
      /\ q.at = IF i[2] = "hook" THEN "none" ELSE at
  BY DEF Tx, Idle
<1>2. tx' = [tx EXCEPT ![i] = q]
  BY DEF Ends
<1> HIDE DEF q
<1>3. /\ tx' \in [Ids -> Tx] /\ tx'[i] = q
      /\ \A j \in Ids : j # i => tx'[j] = tx[j]
  BY <1>1, <1>2, TxShape
<1>4. ~InFlight(i)'
  BY <1>1, <1>3 DEF InFlight
<1>5. Turns(i, q)
  BY <1>1, <1>3, <1>4 DEF Turns, InFlight
<1>6. Shaped(i)' /\ Based(i)'
  BY <1>1, <1>3, <1>4 DEF Shaped, Based
<1> QED
  BY <1>1, <1>3, <1>4, <1>5, <1>6

-----------------------------------------------------------------------------
(* Transactions that end without effect.                                   *)

LEMMA RollbackKeeps ==
    ASSUME ModelsInvariant, NEW i \in Ids, InFlight(i), NEW at \in {"failed", "lost"},
           Ends(i, at), Tell(i, "raised"),
           UNCHANGED <<row, deleted, store, events>>, faults' \in 0..MaxFaults
    PROVE  ModelsInvariant'
<1>1. TypeOK
  BY DEF ModelsInvariant
<1>2. /\ client' \in [Clients -> Client]
      /\ \A c \in Clients :
           /\ client'[c].v = client[c].v /\ client'[c].file = client[c].file
           /\ \/ client'[c].at = client[c].at /\ i # <<c, client[c].at>>
              \/ client'[c].at = "raised" /\ i = <<c, client[c].at>>
  BY <1>1, TellShape
<1>3. PICK q : /\ Turns(i, q) /\ q.at = (IF i[2] = "hook" THEN "none" ELSE at)
               /\ q.sets = {} /\ Shaped(i)' /\ Based(i)'
  BY <1>1, <1>2, EndsShape
<1> QED
  BY <1>2, <1>3, QuietKeeps

LEMMA FaultType ==
    ASSUME TypeOK
    PROVE  /\ faults \in 0..MaxFaults
           /\ faults < MaxFaults => faults + 1 \in 0..MaxFaults
BY ModelsAssumption DEF TypeOK, ModelsAssumption

LEMMA RefuseKeeps ==
    ASSUME ModelsInvariant, NEW i \in Ids, InFlight(i), Refuse(i)
    PROVE  ModelsInvariant'
<1>1. faults' \in 0..MaxFaults
  BY FaultType DEF ModelsInvariant, Refuse
<1> QED
  BY <1>1, RollbackKeeps DEF Refuse

LEMMA BreakKeeps ==
    ASSUME ModelsInvariant, NEW i \in Ids, Break(i)
    PROVE  ModelsInvariant'
<1>1. faults' \in 0..MaxFaults
  BY FaultType DEF ModelsInvariant, Break
<1> QED
  BY <1>1, RollbackKeeps DEF Break

-----------------------------------------------------------------------------
(* Handlers read.                                                          *)

\* A statement after which i is at at and has written nothing, and nobody is told.
LEMMA ReadKeeps ==
    ASSUME ModelsInvariant, NEW i \in Ids, InFlight(i),
           NEW at \in InFlightStages, Goes(i, at),
           UNCHANGED <<row, deleted, client, store, events, faults>>,
           \/ i[2] = "create" /\ at = "read" /\ tx[i].at = "started"
           \/ i[2] = "upload" /\ at = "read" /\ tx[i].at = "started" /\ Exists(tx[i].v)
           \/ /\ i[2] \in {"confirm", "hook"} /\ at \in {"checked", "located"}
              /\ tx[i].at \in {"read", "checked"} /\ store[tx[i].file] # None
    PROVE  ModelsInvariant'
<1>1. TypeOK /\ Shaped(i) /\ Based(i)
  BY DEF ModelsInvariant
<1>2. /\ client' \in [Clients -> Client] /\ client' = client /\ faults' \in 0..MaxFaults
      /\ \A c \in Clients :
           /\ client'[c].v = client[c].v /\ client'[c].file = client[c].file
           /\ client'[c].at = client[c].at \/ i = <<c, client[c].at>>
      /\ tx[i].sets \in SUBSET {"row", "file", "ready"}
  BY <1>1, TxTypes DEF TypeOK
<1>3. PICK q : /\ Turns(i, q) /\ tx'[i] = q /\ q.at = at /\ q.sets = tx[i].sets
               /\ q.v = tx[i].v /\ q.file = tx[i].file
  BY <1>1, <1>2, GoesShape
<1>4. tx[i].sets = {} /\ tx[i].v # None
  BY <1>1 DEF Shaped
<1>5. Shaped(i)'
  BY <1>1, <1>3, <1>4 DEF Shaped, InFlight, InFlightStages
<1>6. Based(i)'
  <2>1. Asked(tx[i].v, tx[i].file) => Asked(tx[i].v, tx[i].file)'
    <3>1. Grows
      BY <1>1, <1>3, TurnsGrows
    <3> QED
      BY <1>3, <3>1, AskedGrows
  <2> QED
    BY <1>1, <1>3, <1>4, <2>1 DEF Based, Exists
<1> QED
  BY <1>2, <1>3, <1>4, <1>5, <1>6, QuietKeeps DEF InFlightStages

\* get_by_slug and get_by_version of the confirmation, which finds a location.
LEMMA ReadForConfirmKeeps ==
    ASSUME ModelsInvariant, NEW c \in Clients, ReadForConfirm(c)
    PROVE  ModelsInvariant'
<1> DEFINE i == <<c, "confirm">>
<1> DEFINE r == [tx[i] EXCEPT !.at = "read", !.file = row[tx[i].v].file]
<1>1. i \in Ids /\ i[2] = "confirm"
  BY IdTypes DEF Scripts
<1>2. /\ TypeOK /\ Shaped(i) /\ Based(i) /\ tx[i].at = "started" /\ InFlight(i)
      /\ tx \in [Ids -> Tx] /\ tx[i] \in Tx /\ faults \in 0..MaxFaults
  BY <1>1, TxTypes DEF ModelsInvariant, ReadForConfirm, InFlight, TypeOK
<1>3. CASE Refuse(i)
  BY <1>1, <1>2, <1>3, RefuseKeeps
<1>4. ASSUME Visible(tx[i].v), row[tx[i].v].file # None,
             tx' = [tx EXCEPT ![i].at = "read", ![i].file = row[tx[i].v].file],
             UNCHANGED <<row, deleted, client, store, events, faults>>
      PROVE  ModelsInvariant'
  <2>1. tx[i].v \in Versions /\ tx[i].v # None /\ tx[i].sets = {}
    BY <1>1, <1>2, TxTypes DEF Shaped
  <2>2. PICK v \in Versions, f \in Files : v = tx[i].v /\ f = row[tx[i].v].file
    BY <1>2, <1>4, <2>1, RowTypes
  <2>3. r \in Tx /\ r.at = "read" /\ r.sets = {} /\ r.v = v /\ r.file = f
    BY <1>2, <2>1, <2>2 DEF Tx
  <2>4. tx' = [tx EXCEPT ![i] = r]
    BY <1>2, <1>4
  <2>5. Asked(v, f) /\ Exists(v)
    BY <1>4, <2>2 DEF ModelsInvariant, Located, Visible
  <2> HIDE DEF i, r
  <2>6. PICK q \in Tx : /\ tx' = [tx EXCEPT ![i] = q]
                        /\ q.at = "read" /\ q.sets = {} /\ q.v = v /\ q.file = f
    BY <2>3, <2>4
  <2>7. /\ tx' \in [Ids -> Tx] /\ tx'[i] = q
        /\ \A j \in Ids : j # i => tx'[j] = tx[j]
    BY <1>1, <1>2, <2>6, TxShape
  <2>8. Turns(i, q)
    BY <1>1, <1>2, <1>4, <2>2, <2>6, <2>7 DEF Turns, TypeOK
  <2>9. Grows
    BY <1>1, <1>2, <1>4, <2>8, TurnsGrows
  <2>10. Asked(v, f)'
    BY <2>5, <2>9, AskedGrows
  <2>11. Shaped(i)'
    BY <1>1, <2>1, <2>2, <2>6, <2>7 DEF Shaped, InFlight
  <2>12. row'[v].file # None /\ f # None /\ Exists(v)'
    BY <1>4, <2>2, <2>5 DEF Exists
  <2>13. Based(i)'
    BY <1>1, <2>6, <2>7, <2>10, <2>12 DEF Based
  <2> QED
    BY <1>1, <1>4, <1>2, <2>6, <2>8, <2>11, <2>13, QuietKeeps
<1> QED
  BY <1>3, <1>4 DEF ReadForConfirm

LEMMA ReadsKeep ==
    ASSUME ModelsInvariant, NEW c \in Clients,
           ReadRepository(c) \/ ReadForUpload(c) \/ CheckObject(c)
    PROVE  ModelsInvariant'
<1>1. <<c, "create">> \in Ids /\ <<c, "upload">> \in Ids /\ <<c, "confirm">> \in Ids
  BY IdTypes DEF Scripts
<1>2. CASE ReadRepository(c)
  <2>1. InFlight(<<c, "create">>) /\ "read" \in InFlightStages
    BY <1>2 DEF ReadRepository, InFlight, InFlightStages
  <2> QED
    BY <1>1, <1>2, <2>1, RefuseKeeps, ReadKeeps DEF ReadRepository
<1>3. CASE ReadForUpload(c)
  <2>1. InFlight(<<c, "upload">>) /\ "read" \in InFlightStages
    BY <1>3 DEF ReadForUpload, InFlight, InFlightStages
  <2> QED
    BY <1>1, <1>3, <2>1, RefuseKeeps, ReadKeeps DEF ReadForUpload, Visible
<1>4. CASE CheckObject(c)
  <2>1. InFlight(<<c, "confirm">>) /\ "checked" \in InFlightStages
    BY <1>4 DEF CheckObject, InFlight, InFlightStages
  <2> QED
    BY <1>1, <1>4, <2>1, RefuseKeeps, ReadKeeps DEF CheckObject, Stored
<1> QED
  BY <1>2, <1>3, <1>4

-----------------------------------------------------------------------------
(* Handlers write.                                                         *)

\* The location that i has read or will set is one that was asked for, before and after.
LEMMA AskedStays ==
    ASSUME TypeOK, NEW i \in Ids, NEW q, Turns(i, q), tx'[i] = q,
           q.v = tx[i].v, q.file = tx[i].file, UNCHANGED <<row, store>>,
           Asked(tx[i].v, tx[i].file)
    PROVE  Asked(tx[i].v, tx[i].file)'
<1>1. Grows
  BY TurnsGrows
<1> QED
  BY <1>1, AskedGrows

LEMMA ReserveKeeps ==
    ASSUME ModelsInvariant, NEW c \in Clients, Reserve(c)
    PROVE  ModelsInvariant'
<1> DEFINE i == <<c, "upload">>
<1>1. i \in Ids /\ i[2] = "upload"
  BY IdTypes DEF Scripts
<1>2. /\ TypeOK /\ Shaped(i) /\ Based(i) /\ tx[i].at = "read" /\ InFlight(i)
      /\ UNCHANGED <<row, deleted, store, events, faults>> /\ faults' \in 0..MaxFaults
      /\ Tell(i, "put")
  BY <1>1 DEF ModelsInvariant, Reserve, InFlight, TypeOK
<1>3. Goes(i, "answered") \/ (~Locked(i) /\ Writes(i, "answered", {"file"}))
  BY DEF Reserve
<1>4. \A d \in Clients : i = <<d, client[d].at>> => client[d].at = "upload"
  OBVIOUS
<1> HIDE DEF i
<1>5. /\ client' \in [Clients -> Client]
      /\ \A d \in Clients :
           /\ client'[d].v = client[d].v /\ client'[d].file = client[d].file
           /\ \/ client'[d].at = client[d].at /\ i # <<d, client[d].at>>
              \/ client'[d].at = "put" /\ i = <<d, client[d].at>>
  BY <1>1, <1>2, TellShape
<1>6. tx[i].sets = {} /\ tx[i].v # None
  BY <1>1, <1>2 DEF Shaped
<1>7. PICK q : /\ Turns(i, q) /\ tx'[i] = q /\ q.at = "answered"
               /\ q.v = tx[i].v /\ q.file = tx[i].file
               /\ q.sets = {} \/ (~Locked(i) /\ q.sets = {"file"})
  <2>1. "answered" \in InFlightStages /\ {"file"} \in SUBSET {"row", "file", "ready"}
    BY DEF InFlightStages
  <2>2. CASE Goes(i, "answered")
    BY <1>1, <1>2, <1>5, <1>6, <2>1, <2>2, GoesShape
  <2>3. CASE ~Locked(i) /\ Writes(i, "answered", {"file"})
    <3>1. {} \union {"file"} = {"file"}
      OBVIOUS
    <3> QED
      BY <1>1, <1>2, <1>5, <1>6, <2>1, <2>3, <3>1, WritesShape
  <2> QED
    BY <1>3, <2>2, <2>3
<1>8. Shaped(i)'
  BY <1>1, <1>6, <1>7 DEF Shaped, InFlight
<1>9. Based(i)'
  <2>1. tx[i].file # None /\ Asked(tx[i].v, tx[i].file) /\ Exists(tx[i].v)
    BY <1>1, <1>2 DEF Based
  <2>2. Asked(tx[i].v, tx[i].file)'
    BY <1>1, <1>2, <1>7, <2>1, AskedStays
  <2> QED
    BY <1>1, <1>2, <1>7, <2>1, <2>2 DEF Based, Exists
<1>10. \A d \in Clients : i = <<d, "confirm">> => q.at # "committed"
  BY <1>7
<1> QED
  BY <1>1, <1>2, <1>4, <1>5, <1>7, <1>8, <1>9, <1>10, QuietKeeps

\* A transaction that has checked the bucket is of a confirmation or a report.
LEMMA CheckedFacts ==
    ASSUME ModelsInvariant, NEW i \in Ids, tx[i].at \in {"checked", "located"}
    PROVE  /\ TypeOK /\ Shaped(i) /\ InFlight(i) /\ i[2] \in {"confirm", "hook"}
           /\ tx[i].v # None /\ Exists(tx[i].v) /\ row[tx[i].v].file # None
           /\ tx[i].file # None /\ Asked(tx[i].v, tx[i].file) /\ store[tx[i].file] # None
           /\ tx[i].sets \subseteq {"file"}
           /\ faults \in 0..MaxFaults
<1>1. TypeOK /\ Shaped(i) /\ Based(i) /\ InFlight(i) /\ faults \in 0..MaxFaults
  BY DEF ModelsInvariant, InFlight, TypeOK
<1>2. i[2] \in {"confirm", "hook"}
  BY <1>1, IdTypes DEF Shaped, Scripts
<1>3. tx[i].sets \subseteq {"file"} /\ tx[i].v # None
  BY <1>1, <1>2 DEF Shaped
<1> QED
  BY <1>1, <1>2, <1>3 DEF Based

LEMMA RelocateKeeps ==
    ASSUME ModelsInvariant, NEW i \in Ids, Relocate(i)
    PROVE  ModelsInvariant'
<1>1. /\ tx[i].at = "checked" /\ UNCHANGED <<row, deleted, client, store, events, faults>>
      /\ Goes(i, "located") \/ (~Locked(i) /\ Writes(i, "located", {"file"}))
  BY DEF Relocate
<1>2. /\ TypeOK /\ Shaped(i) /\ InFlight(i) /\ i[2] \in {"confirm", "hook"}
      /\ tx[i].v # None /\ Exists(tx[i].v) /\ row[tx[i].v].file # None
      /\ tx[i].file # None /\ Asked(tx[i].v, tx[i].file) /\ store[tx[i].file] # None
      /\ faults \in 0..MaxFaults
  BY <1>1, CheckedFacts
<1>3. CASE Goes(i, "located")
  BY <1>1, <1>2, <1>3, ReadKeeps DEF InFlightStages
<1>4. CASE ~Locked(i) /\ Writes(i, "located", {"file"})
  <2>1. tx[i].sets = {}
    BY <1>1, <1>2 DEF Shaped
  <2>2. /\ client' \in [Clients -> Client]
        /\ \A c \in Clients :
             /\ client'[c].v = client[c].v /\ client'[c].file = client[c].file
             /\ client'[c].at = client[c].at \/ i = <<c, client[c].at>>
    BY <1>1, <1>2 DEF TypeOK
  <2>3. "located" \in InFlightStages /\ {"file"} \in SUBSET {"row", "file", "ready"}
    BY DEF InFlightStages
  <2>4. PICK q : /\ Turns(i, q) /\ tx'[i] = q /\ q.at = "located"
                 /\ q.sets = tx[i].sets \union {"file"}
                 /\ q.v = tx[i].v /\ q.file = tx[i].file
    BY <1>2, <1>4, <2>2, <2>3, WritesShape
  <2>5. q.sets = {"file"}
    BY <2>1, <2>4
  <2>6. Asked(tx[i].v, tx[i].file)'
    BY <1>1, <1>2, <2>4, AskedStays
  <2>7. Shaped(i)'
    BY <1>2, <2>4, <2>5 DEF Shaped, InFlight
  <2>8. Based(i)'
    BY <1>1, <1>2, <2>4, <2>5, <2>6 DEF Based, Exists
  <2> QED
    BY <1>1, <1>2, <1>4, <2>4, <2>7, <2>8, QuietKeeps
<1> QED
  BY <1>1, <1>3, <1>4

LEMMA MarkReadyKeeps ==
    ASSUME ModelsInvariant, NEW i \in Ids, MarkReady(i)
    PROVE  ModelsInvariant'
<1>1. /\ tx[i].at = "located" /\ UNCHANGED <<row, deleted, store, events, faults>>
      /\ Tell(i, "done")
      /\ \/ row[tx[i].v].status = "READY" /\ Goes(i, "answered")
         \/ ~Locked(i) /\ Writes(i, "answered", {"ready"})
  BY DEF MarkReady
<1>2. /\ TypeOK /\ Shaped(i) /\ InFlight(i) /\ i[2] \in {"confirm", "hook"}
      /\ tx[i].v # None /\ Exists(tx[i].v) /\ row[tx[i].v].file # None
      /\ tx[i].file # None /\ Asked(tx[i].v, tx[i].file) /\ store[tx[i].file] # None
      /\ tx[i].sets \subseteq {"file"} /\ faults \in 0..MaxFaults
  BY <1>1, CheckedFacts
<1>3. /\ client' \in [Clients -> Client]
      /\ \A d \in Clients :
           /\ client'[d].v = client[d].v /\ client'[d].file = client[d].file
           /\ \/ client'[d].at = client[d].at /\ i # <<d, client[d].at>>
              \/ client'[d].at = "done" /\ i = <<d, client[d].at>>
  BY <1>1, <1>2, TellShape
<1>4. PICK q : /\ Turns(i, q) /\ tx'[i] = q /\ q.at = "answered"
               /\ q.v = tx[i].v /\ q.file = tx[i].file
               /\ \/ q.sets = tx[i].sets /\ row[tx[i].v].status = "READY"
                  \/ q.sets = tx[i].sets \union {"ready"} /\ ~Locked(i)
  <2>1. "answered" \in InFlightStages /\ {"ready"} \in SUBSET {"row", "file", "ready"}
    BY DEF InFlightStages
  <2>2. CASE row[tx[i].v].status = "READY" /\ Goes(i, "answered")
    BY <1>2, <1>3, <2>1, <2>2, GoesShape
  <2>3. CASE ~Locked(i) /\ Writes(i, "answered", {"ready"})
    BY <1>2, <1>3, <2>1, <2>3, WritesShape
  <2> QED
    BY <1>1, <2>2, <2>3
<1>5. Shaped(i)'
  BY <1>2, <1>4 DEF Shaped, InFlight
<1>6. Based(i)'
  <2>1. Asked(tx[i].v, tx[i].file)'
    BY <1>1, <1>2, <1>4, AskedStays
  <2>2. "row" \notin q.sets
    BY <1>2, <1>4
  <2> QED
    BY <1>1, <1>2, <1>4, <2>1, <2>2 DEF Based, Exists
<1>7. ASSUME NEW d \in Clients, client'[d].at # client[d].at
      PROVE  client'[d].at = "done" /\ row[client[d].v].file # None
  <2>1. client'[d].at = "done" /\ i = <<d, client[d].at>>
    BY <1>3, <1>7
  <2>2. client[d].at = "confirm"
    BY <1>2, <2>1, ClientTypes
  <2>3. tx[i].v = client[d].v
    BY <1>2, <2>1, <2>2 DEF ModelsInvariant, Script
  <2> QED
    BY <1>2, <2>1, <2>3
<1> QED
  BY <1>1, <1>2, <1>4, <1>5, <1>6, <1>7, QuietKeeps

-----------------------------------------------------------------------------
(* Transactions are committed.                                             *)

\* What a transaction that is about to be committed knows of its row.
LEMMA AnsweredFacts ==
    ASSUME ModelsInvariant, NEW i \in Ids, tx[i].at = "answered"
    PROVE  /\ TypeOK /\ InFlight(i) /\ tx[i].v \in Versions
           /\ tx[i].sets \subseteq {"row", "file", "ready"}
           /\ "row" \in tx[i].sets => row[tx[i].v].status = "none" /\ tx[i].sets = {"row"}
           /\ tx[i].sets # {"row"} => Exists(tx[i].v) \/ tx[i].sets = {}
           /\ "file" \in tx[i].sets => /\ Asked(tx[i].v, tx[i].file)
                                       /\ tx[i].file \in Files /\ tx[i].file # None
           /\ "ready" \in tx[i].sets => /\ row[tx[i].v].file # None
                                        /\ Asked(tx[i].v, tx[i].file)
                                        /\ store[tx[i].file] # None
           /\ i[2] = "confirm" => "ready" \in tx[i].sets \/ row[tx[i].v].status = "READY"
<1>1. TypeOK /\ Shaped(i) /\ Based(i) /\ InFlight(i) /\ i[2] \in Scripts \union {"hook"}
  BY IdTypes DEF ModelsInvariant, InFlight
<1>2. /\ tx[i].v \in Versions /\ tx[i].file \in Files \union {None}
      /\ tx[i].sets \subseteq {"row", "file", "ready"}
  BY <1>1, TxTypes DEF Shaped
<1>3. /\ i[2] = "create" => tx[i].sets = {"row"}
      /\ i[2] = "upload" => tx[i].sets \subseteq {"file"}
      /\ i[2] \in {"confirm", "hook"} => tx[i].sets \subseteq {"file", "ready"}
  BY <1>1 DEF Shaped
<1>4. CASE i[2] = "create"
  BY <1>1, <1>2, <1>3, <1>4 DEF Based, Exists
<1>5. CASE i[2] = "upload"
  BY <1>1, <1>2, <1>3, <1>5 DEF Based
<1>6. CASE i[2] \in {"confirm", "hook"}
  BY <1>1, <1>2, <1>3, <1>6 DEF Based
<1> QED
  BY <1>1, <1>4, <1>5, <1>6 DEF Scripts

LEMMA CommitKeeps ==
    ASSUME ModelsInvariant, NEW i \in Ids, Commit(i)
    PROVE  ModelsInvariant'
<1>1. /\ tx[i].at = "answered" /\ Ends(i, "committed")
      /\ UNCHANGED <<deleted, client, store, events, faults>>
  BY DEF Commit
<1>2. PICK v, f, S : v \in Versions /\ v = tx[i].v /\ f = tx[i].file /\ S = tx[i].sets
  BY <1>1, AnsweredFacts
<1>3. /\ TypeOK /\ InFlight(i) /\ S \subseteq {"row", "file", "ready"}
      /\ "row" \in S => row[v].status = "none" /\ S = {"row"}
      /\ S # {"row"} => Exists(v) \/ S = {}
      /\ "file" \in S => Asked(v, f) /\ f \in Files /\ f # None
      /\ "ready" \in S => row[v].file # None /\ Asked(v, f) /\ store[f] # None
      /\ i[2] = "confirm" => "ready" \in S \/ row[v].status = "READY"
  BY <1>1, <1>2, AnsweredFacts
<1>4. /\ \A w \in Versions : w # v => row'[w] = row[w]
      /\ row'[v] = [status |-> IF "ready" \in S THEN "READY"
                               ELSE IF "row" \in S THEN "PENDING" ELSE row[v].status,
                    file |-> IF "file" \in S THEN f ELSE row[v].file]
      /\ DOMAIN row' = Versions
      /\ row' = [w \in Versions |-> row'[w]]
  BY <1>2 DEF Commit
<1>5. /\ row'[v].status = IF "ready" \in S THEN "READY"
                          ELSE IF "row" \in S THEN "PENDING" ELSE row[v].status
      /\ row'[v].file = IF "file" \in S THEN f ELSE row[v].file
  BY <1>4
<1>6. /\ \A w \in Versions : row[w] \in Row
      /\ row[v].status \in {"none", "PENDING", "READY"} /\ row[v].file \in Files \union {None}
      /\ row[v].status = "none" => row[v].file = None
      /\ row[v].status = "READY" => row[v].file # None
  BY <1>2, <1>3, RowTypes DEF TypeOK
<1>7. row' \in [Versions -> Row]
  <2>1. row'[v] \in Row
    BY <1>3, <1>4, <1>6 DEF Row
  <2> QED
    BY <1>4, <1>6, <2>1
<1>8. /\ row[v].status # "none" => row'[v].status # "none"
      /\ row[v].status = "READY" => row'[v].status = "READY"
      /\ row[v].file # None => row'[v].file # None
      /\ row'[v].status = "none" => row'[v].file = None
      /\ row'[v].status = "READY" => row'[v].file # None
  BY <1>3, <1>5, <1>6 DEF Exists
<1>9. /\ \A w \in Versions : row[w].status # "none" => row'[w].status # "none"
      /\ \A w \in Versions : row[w].status = "READY" => row'[w].status = "READY"
      /\ \A w \in Versions : row[w].file # None => row'[w].file # None
      /\ \A w \in Versions : row'[w].status = "none" => row'[w].file = None
      /\ \A w \in Versions : row'[w].status = "READY" => row'[w].file # None
  BY <1>3, <1>4, <1>8 DEF TypeOK
<1>10. /\ client' \in [Clients -> Client] /\ faults' \in 0..MaxFaults
       /\ \A c \in Clients :
            /\ client'[c].v = client[c].v /\ client'[c].file = client[c].file
            /\ client'[c].at = client[c].at \/ i = <<c, client[c].at>>
  BY <1>1, <1>3 DEF TypeOK
<1>11. PICK q : Turns(i, q) /\ ~InFlight(i)' /\ Shaped(i)' /\ Based(i)'
  BY <1>1, <1>3, <1>10, EndsShape
<1>12. Grows
  BY <1>1, <1>3, <1>9, <1>11, TurnsGrows
<1>13. ASSUME NEW j \in Ids, j # i, InFlight(j), "row" \in tx[j].sets
       PROVE  row'[tx[j].v].status = "none"
  <2>1. Shaped(j) /\ Based(j)
    BY DEF ModelsInvariant
  <2>2. tx[j].v \in Versions /\ row[tx[j].v].status = "none"
    BY <1>3, <1>13, <2>1, TxTypes DEF Based, Exists, Shaped
  <2>3. tx[j].v = v => S = {}
    BY <1>2, <1>3, <1>13 DEF ModelsInvariant, OneWriter
  <2> QED
    BY <1>4, <1>5, <2>2, <2>3
<1>14. ASSUME NEW w \in Versions
       PROVE  Located(w)'
  <2>1. Located(w)
    BY DEF ModelsInvariant
  <2>2. \A c \in Askers(w) : client[c].file \in Files
    BY AskersNamed
  <2>3. CASE w # v
    BY <1>3, <1>4, <1>12, <2>1, <2>2, <2>3, LocatedKeeps
  <2>4. ASSUME w = v, row'[v].file # None
        PROVE  \E g : row'[v].file = g /\ Asked(v, g)'
    <3>1. CASE "file" \in S
      BY <1>3, <1>5, <1>12, <3>1, AskedGrows
    <3>2. CASE "file" \notin S
      <4>1. row'[v].file = row[v].file
        BY <1>5, <3>2
      <4>2. Asked(v, row[v].file)
        BY <2>1, <2>4, <4>1 DEF Located
      <4>3. PICK g : g = row[v].file
        OBVIOUS
      <4>4. Asked(v, g)'
        BY <1>12, <4>2, <4>3, AskedGrows
      <4> QED
        BY <4>1, <4>3, <4>4
    <3> QED
      BY <3>1, <3>2
  <2>5. ASSUME w = v, row'[v].status = "READY"
        PROVE  \E c \in Askers(v)' : store'[client'[c].file] # None
    <3>1. PICK c \in Askers(v) : store[client[c].file] # None
      <4>1. CASE "ready" \in S
        BY <1>3, <4>1 DEF Asked
      <4>2. CASE "ready" \notin S
        BY <1>5, <2>1, <2>5, <4>2 DEF Located
      <4> QED
        BY <4>1, <4>2
    <3>2. c \in Askers(v)' /\ client'[c].file = client[c].file
      BY <3>1, <1>12 DEF Askers, Grows
    <3> QED
      BY <1>1, <3>1, <3>2
  <2> QED
    BY <2>3, <2>4, <2>5 DEF Located, Asked
<1>15. ASSUME NEW c \in Clients, i = <<c, "confirm">>
       PROVE  client[c].v # None /\ row'[client[c].v].status = "READY"
  <2>1. client[c].v = v
    BY <1>2, <1>3, <1>15 DEF ModelsInvariant, Script
  <2> QED
    BY <1>2, <1>3, <1>5, <1>8, <1>15, <2>1, ModelsAssumption DEF ModelsAssumption
<1> QED
  BY <1>1, <1>7, <1>9, <1>10, <1>11, <1>13, <1>14, <1>15, TurnsKeeps

-----------------------------------------------------------------------------
(* Requests and reports begin, and the environment.                        *)

\* What remains to be shown of a step in which no row changes and only i, if anything,
\* takes its row's lock.
LEMMA StepKeeps ==
    ASSUME ModelsInvariant, TypeOK', row' = row, NEW i,
           \A f \in Files : store[f] # None => store'[f] # None,
           \A f \in events' : store'[f] # None,
           \A c \in Clients : tx[<<c, "upload">>].at # "none" =>
             /\ tx'[<<c, "upload">>].at # "none"
             /\ client'[c].v = client[c].v /\ client'[c].file = client[c].file,
           \A j \in Ids : tx'[j] = tx[j] \/ (Shaped(j)' /\ Based(j)'),
           \A j \in Ids : \/ tx'[j] = tx[j] \/ tx'[j].sets = {}
                          \/ j = i /\ ~Locked(i) /\ tx'[j].v = tx[j].v,
           \A c \in Clients : \/ Script(c)'
                              \/ /\ client'[c] = client[c]
                                 /\ \A kind \in Scripts : tx'[<<c, kind>>] = tx[<<c, kind>>]
    PROVE  ModelsInvariant'
<1>1. TypeOK /\ Grows
  BY DEF ModelsInvariant, Grows
<1>2. \A j \in Ids : Shaped(j) /\ Based(j) /\ (tx'[j] = tx[j] => (InFlight(j)' <=> InFlight(j)))
  BY DEF ModelsInvariant, InFlight
<1>3. \A j \in Ids : Shaped(j)' /\ Based(j)'
  <2>1. \A j \in Ids : InFlight(j) /\ "row" \in tx[j].sets => row'[tx[j].v].status = "none"
    BY <1>2 DEF Based, Exists
  <2> QED
    BY <1>1, <1>2, <2>1, OthersKeep
<1>4. OneWriter'
  <2>1. ASSUME NEW j \in Ids, NEW k \in Ids, InFlight(j)', InFlight(k)', tx'[j].v = tx'[k].v,
               tx'[j].sets # {}, tx'[k].sets # {}, j # k, j # i
        PROVE  FALSE
    <3>1. tx'[j] = tx[j] /\ InFlight(j)
      BY <1>2, <2>1
    <3>2. CASE tx'[k] = tx[k]
      BY <1>2, <2>1, <3>1, <3>2 DEF ModelsInvariant, OneWriter
    <3>3. CASE tx'[k] # tx[k]
      <4>1. k = i /\ ~Locked(i) /\ tx'[k].v = tx[k].v
        BY <2>1, <3>3
      <4> QED
        BY <2>1, <3>1, <4>1 DEF Locked
    <3> QED
      BY <3>2, <3>3
  <2> QED
    BY <2>1 DEF OneWriter
<1>5. \A v \in Versions : Located(v)'
  <2>1. \A v \in Versions : Located(v) /\ row'[v] = row[v]
    BY DEF ModelsInvariant
  <2>2. \A v \in Versions : \A c \in Askers(v) : client[c].file \in Files
    BY AskersNamed
  <2> QED
    BY <1>1, <2>1, <2>2, LocatedKeeps
<1>6. ASSUME NEW c \in Clients, client'[c] = client[c],
             \A kind \in Scripts : tx'[<<c, kind>>] = tx[<<c, kind>>]
      PROVE  Script(c)'
  <2>1. Script(c)
    BY DEF ModelsInvariant
  <2>2. \A kind \in Scripts : InFlight(<<c, kind>>)' <=> InFlight(<<c, kind>>)
    BY <1>6 DEF InFlight
  <2> QED
    BY <1>6, <2>1, <2>2 DEF Script, Scripts
<1> QED
  BY <1>3, <1>4, <1>5, <1>6 DEF ModelsInvariant

LEMMA ClientShape ==
    ASSUME TypeOK, NEW c \in Clients, NEW k \in Client, client' = [client EXCEPT ![c] = k]
    PROVE  /\ client' \in [Clients -> Client] /\ client'[c] = k
           /\ \A d \in Clients : d # c => client'[d] = client[d]
BY DEF TypeOK

\* The request that script k begins.
LEMMA BeginFacts ==
    ASSUME NEW k \in Client
    PROVE  /\ Begin(k) \in Tx /\ Begin(k).at = "started" /\ Begin(k).sets = {}
           /\ Begin(k).v = k.v /\ Begin(k).file = k.file
BY DEF Begin, Tx, Client

LEMMA BegunKeeps ==
    ASSUME TypeOK', NEW c \in Clients, NEW kind \in Scripts, NEW k \in Client,
           tx'[<<c, kind>>] = Begin(k), client'[c] = k, k.v # None,
           kind = "upload" => k.file # None
    PROVE  Shaped(<<c, kind>>)' /\ Based(<<c, kind>>)' /\ InFlight(<<c, kind>>)'
<1> DEFINE u == <<c, kind>>
<1>1. /\ tx'[u].at = "started" /\ tx'[u].sets = {}
      /\ tx'[u].v = k.v /\ tx'[u].file = k.file
  BY BeginFacts
<1>2. u[2] = kind /\ kind \in {"create", "upload", "confirm"}
  BY DEF Scripts
<1>3. kind = "upload" => Asked(k.v, k.file)'
  BY <1>1 DEF Asked, Askers
<1> HIDE DEF u
<1>4. InFlight(u)'
  BY <1>1 DEF InFlight
<1>5. Shaped(u)'
  BY <1>1, <1>2, <1>4 DEF Shaped
<1>6. Based(u)'
  <2>1. u[2] = "upload" => k.file # None /\ Asked(k.v, k.file)'
    BY <1>2, <1>3
  <2>2. PICK v, f : v = k.v /\ f = k.file
    OBVIOUS
  <2> QED
    BY <1>1, <1>2, <2>1, <2>2 DEF Based
<1> QED
  BY <1>4, <1>5, <1>6 DEF u

LEMMA AskKeeps ==
    ASSUME ModelsInvariant, NEW c \in Clients, Ask(c)
    PROVE  ModelsInvariant'
<1>1. PICK v \in Versions, kind \in Scripts :
        \E f \in IF kind = "confirm" THEN {None} ELSE FilesOf[v] :
          /\ client' = [client EXCEPT ![c] = [at |-> kind, v |-> v, file |-> f]]
          /\ tx' = [tx EXCEPT ![<<c, kind>>] = Begin([at |-> kind, v |-> v, file |-> f])]
  BY DEF Ask, Scripts
<1>2. PICK f \in IF kind = "confirm" THEN {None} ELSE FilesOf[v] :
        /\ client' = [client EXCEPT ![c] = [at |-> kind, v |-> v, file |-> f]]
        /\ tx' = [tx EXCEPT ![<<c, kind>>] = Begin([at |-> kind, v |-> v, file |-> f])]
  BY <1>1
<1>3. /\ f \in Files \union {None} /\ None \notin Versions
      /\ kind # "confirm" => f \in FilesOf[v] /\ f # None
      /\ kind = "confirm" => f = None
  BY ModelsAssumption DEF ModelsAssumption
<1>4. PICK k \in Client : /\ k.at = kind /\ k.v = v /\ k.file = f
                          /\ client' = [client EXCEPT ![c] = k]
                          /\ tx' = [tx EXCEPT ![<<c, kind>>] = Begin(k)]
  <2>1. [at |-> kind, v |-> v, file |-> f] \in Client
    BY <1>3 DEF Client, Scripts
  <2> QED
    BY <1>2, <2>1
<1>5. /\ TypeOK /\ client[c].at = "idle" /\ Script(c)
      /\ UNCHANGED <<row, deleted, store, events, faults>>
  BY DEF ModelsInvariant, Ask
<1>6. \A other \in Scripts : tx[<<c, other>>].at = "none"
  BY <1>5 DEF Script, Scripts
<1>7. /\ client' \in [Clients -> Client] /\ client'[c] = k
      /\ \A d \in Clients : d # c => client'[d] = client[d]
  BY <1>4, <1>5, ClientShape
<1>8. /\ tx' \in [Ids -> Tx] /\ tx'[<<c, kind>>] = Begin(k)
      /\ \A j \in Ids : j # <<c, kind>> => tx'[j] = tx[j]
  <2>1. <<c, kind>> \in Ids
    BY IdTypes
  <2> QED
    BY <1>4, <1>5, <2>1, BeginFacts, TxShape
<1>9. TypeOK'
  BY <1>5, <1>7, <1>8 DEF TypeOK
<1>10. Shaped(<<c, kind>>)' /\ Based(<<c, kind>>)'
  BY <1>3, <1>4, <1>7, <1>8, <1>9, BegunKeeps
<1>11. Script(c)'
  <2>1. \A other \in Scripts : other # kind => /\ tx'[<<c, other>>].at = "none"
                                              /\ ~InFlight(<<c, other>>)'
    BY <1>6, <1>8, IdTypes DEF InFlight
  <2>2. /\ tx'[<<c, kind>>].v = v /\ tx'[<<c, kind>>].file = f
        /\ tx'[<<c, kind>>].at = "started"
    BY <1>4, <1>8, BeginFacts
  <2>3. client'[c].at = kind /\ client'[c].v = v /\ client'[c].file = f
    BY <1>4, <1>7
  <2> QED
    BY <1>3, <2>1, <2>2, <2>3 DEF Script, Scripts
<1>12. \A j \in Ids : tx'[j] = tx[j] \/ (Shaped(j)' /\ Based(j)')
  BY <1>8, <1>10
<1>13. \A j \in Ids : tx'[j] = tx[j] \/ tx'[j].sets = {}
  BY <1>8, BeginFacts
<1>14. ASSUME NEW d \in Clients, d # c
       PROVE  client'[d] = client[d] /\ \A other \in Scripts : tx'[<<d, other>>] = tx[<<d, other>>]
  BY <1>7, <1>8, <1>14, IdTypes
<1>15. \A d \in Clients : tx[<<d, "upload">>].at # "none" =>
         /\ tx'[<<d, "upload">>].at # "none"
         /\ client'[d].v = client[d].v /\ client'[d].file = client[d].file
  BY <1>6, <1>14 DEF Scripts
<1>16. \A d \in Clients : \/ Script(d)'
                          \/ /\ client'[d] = client[d]
                             /\ \A other \in Scripts : tx'[<<d, other>>] = tx[<<d, other>>]
  BY <1>11, <1>14
<1>17. \A g \in events' : store'[g] # None
  BY <1>5 DEF ModelsInvariant
<1> QED
  BY <1>5, <1>9, <1>12, <1>13, <1>15, <1>16, <1>17, StepKeeps

LEMMA PutKeeps ==
    ASSUME ModelsInvariant, NEW c \in Clients, Put(c)
    PROVE  ModelsInvariant'
<1> DEFINE u == <<c, "confirm">>
<1>1. /\ TypeOK /\ Script(c) /\ client[c].at = "put"
      /\ UNCHANGED <<row, deleted, faults>>
      /\ store' = [store EXCEPT ![client[c].file] = c]
      /\ events' = events \union {client[c].file}
      /\ client' = [client EXCEPT ![c].at = "confirm"]
      /\ tx' = [tx EXCEPT ![u] = Begin(client[c])]
  BY DEF ModelsInvariant, Put
<1>2. /\ client[c] \in Client /\ client[c].v # None /\ client[c].file # None
      /\ client[c].file \in Files /\ client[c].file \in FilesOf[client[c].v]
      /\ tx[<<c, "upload">>].at # "none" /\ tx[u].at = "none"
      /\ c # None
  BY <1>1, ClientTypes, ModelsAssumption DEF Script, ModelsAssumption
<1>3. PICK k \in Client : /\ k.at = "confirm" /\ k.v = client[c].v /\ k.file = client[c].file
                          /\ client' = [client EXCEPT ![c] = k]
                          /\ tx' = [tx EXCEPT ![u] = Begin(k)]
  <2> DEFINE r == [client[c] EXCEPT !.at = "confirm"]
  <2>1. r \in Client /\ r.at = "confirm" /\ r.v = client[c].v /\ r.file = client[c].file
    BY <1>2 DEF Client
  <2>2. Begin(r) = Begin(client[c])
    BY <2>1 DEF Begin
  <2>3. client' = [client EXCEPT ![c] = r]
    BY <1>1
  <2> HIDE DEF r
  <2> QED
    BY <1>1, <2>1, <2>2, <2>3
<1>4. u \in Ids
  BY IdTypes DEF Scripts
<1>5. /\ client' \in [Clients -> Client] /\ client'[c] = k
      /\ \A d \in Clients : d # c => client'[d] = client[d]
  BY <1>1, <1>3, ClientShape
<1>6. /\ tx' \in [Ids -> Tx] /\ tx'[u] = Begin(k)
      /\ \A j \in Ids : j # u => tx'[j] = tx[j]
  BY <1>1, <1>3, <1>4, BeginFacts, TxShape
<1> HIDE DEF u
<1>7. /\ store' \in [Files -> Clients \union {None}]
      /\ \A f \in Files : store[f] # None => store'[f] # None
      /\ \A f \in events' : store'[f] # None
      /\ events' \subseteq Files
  BY <1>1, <1>2 DEF TypeOK, ModelsInvariant
<1>8. TypeOK'
  BY <1>1, <1>5, <1>6, <1>7 DEF TypeOK
<1>9. Shaped(u)' /\ Based(u)'
  BY <1>2, <1>3, <1>5, <1>6, <1>8, BegunKeeps DEF u, Scripts
<1>10. Script(c)'
  <2>1. \A other \in {"create", "upload"} : /\ tx'[<<c, other>>] = tx[<<c, other>>]
                                           /\ InFlight(<<c, other>>)' <=> InFlight(<<c, other>>)
    BY <1>6, IdTypes DEF InFlight, Scripts, u
  <2>2. tx'[<<c, "confirm">>].v = client[c].v /\ tx'[<<c, "confirm">>].at = "started"
    BY <1>3, <1>6, BeginFacts DEF u
  <2>3. /\ client'[c].at = "confirm" /\ client'[c].v = client[c].v
        /\ client'[c].file = client[c].file
    BY <1>3, <1>5
  <2> QED
    BY <1>1, <1>2, <2>1, <2>2, <2>3 DEF Script
<1>11. \A j \in Ids : tx'[j] = tx[j] \/ (Shaped(j)' /\ Based(j)')
  BY <1>6, <1>9
<1>12. \A j \in Ids : tx'[j] = tx[j] \/ tx'[j].sets = {}
  BY <1>6, BeginFacts
<1>13. ASSUME NEW d \in Clients, d # c
       PROVE  client'[d] = client[d] /\ \A other \in Scripts : tx'[<<d, other>>] = tx[<<d, other>>]
  BY <1>5, <1>6, <1>13, IdTypes DEF u
<1>14. \A d \in Clients : tx[<<d, "upload">>].at # "none" =>
         /\ tx'[<<d, "upload">>].at # "none"
         /\ client'[d].v = client[d].v /\ client'[d].file = client[d].file
  <2>1. tx'[<<c, "upload">>] = tx[<<c, "upload">>]
    BY <1>6, IdTypes DEF u, Scripts
  <2> QED
    BY <1>3, <1>5, <1>13, <2>1 DEF Scripts
<1>15. \A d \in Clients : \/ Script(d)'
                          \/ /\ client'[d] = client[d]
                             /\ \A other \in Scripts : tx'[<<d, other>>] = tx[<<d, other>>]
  BY <1>10, <1>13
<1> QED
  BY <1>1, <1>7, <1>8, <1>11, <1>12, <1>14, <1>15, StepKeeps

\* A report is served for an object that one version has.
LEMMA NotifyKeeps ==
    ASSUME ModelsInvariant, NEW f \in Files, Notify(f)
    PROVE  ModelsInvariant'
<1> DEFINE i == <<f, "hook">>
<1>1. /\ TypeOK /\ f \in events /\ events' = events \ {f} /\ ~InFlight(i)
      /\ UNCHANGED <<row, deleted, client, store, faults>>
      /\ \/ \E v \in At(f) :
              tx' = [tx EXCEPT ![i] = [Idle EXCEPT !.at = "checked", !.v = v, !.file = f]]
         \/ UNCHANGED tx
  BY DEF ModelsInvariant, Notify
<1>2. i \in Ids /\ i[2] = "hook" /\ store[f] # None /\ None \notin Files
  BY <1>1, IdTypes, ModelsAssumption DEF ModelsInvariant, ModelsAssumption
<1>3. events' \subseteq Files /\ \A g \in events' : store'[g] # None
  BY <1>1 DEF TypeOK, ModelsInvariant
<1>4. \A c \in Clients, kind \in Scripts : <<c, kind>> \in Ids /\ <<c, kind>> # i
  BY IdTypes DEF Scripts
<1>5. CASE UNCHANGED tx
  <2>1. TypeOK'
    BY <1>1, <1>3, <1>5 DEF TypeOK
  <2> QED
    BY <1>1, <1>3, <1>4, <1>5, <2>1, StepKeeps
<1>6. ASSUME NEW v \in At(f),
             tx' = [tx EXCEPT ![i] = [Idle EXCEPT !.at = "checked", !.v = v, !.file = f]]
      PROVE  ModelsInvariant'
  <2>1. v \in Versions /\ row[v].file = f /\ row[v].file # None
    BY <1>2 DEF At
  <2>2. PICK q \in Tx : /\ q.at = "checked" /\ q.v = v /\ q.file = f /\ q.sets = {}
                        /\ tx' = [tx EXCEPT ![i] = q]
    <3> DEFINE r == [Idle EXCEPT !.at = "checked", !.v = v, !.file = f]
    <3>1. r \in Tx /\ r.at = "checked" /\ r.v = v /\ r.file = f /\ r.sets = {}
      BY <2>1 DEF Idle, Tx
    <3>2. tx' = [tx EXCEPT ![i] = r]
      BY <1>6
    <3> HIDE DEF r
    <3> QED
      BY <3>1, <3>2
  <2> HIDE DEF i
  <2>3. /\ tx' \in [Ids -> Tx] /\ tx'[i] = q
        /\ \A j \in Ids : j # i => tx'[j] = tx[j]
    BY <1>1, <1>2, <2>2, TxShape
  <2>4. TypeOK'
    BY <1>1, <1>3, <2>3 DEF TypeOK
  <2>5. InFlight(i)'
    BY <2>2, <2>3 DEF InFlight
  <2>6. Shaped(i)'
    BY <1>2, <2>1, <2>2, <2>3, <2>5, ModelsAssumption DEF Shaped, ModelsAssumption
  <2>7. \A c \in Clients : tx'[<<c, "upload">>] = tx[<<c, "upload">>]
    BY <1>4, <2>3 DEF Scripts
  <2>8. Asked(v, f)'
    <3>1. Asked(v, f)
      BY <2>1 DEF ModelsInvariant, Located
    <3> QED
      BY <1>1, <2>7, <3>1 DEF Asked, Askers
  <2>9. Exists(v)'
    BY <1>1, <2>1 DEF TypeOK, Exists
  <2>10. Based(i)'
    BY <1>1, <1>2, <2>1, <2>2, <2>3, <2>8, <2>9 DEF Based
  <2>11. \A j \in Ids : tx'[j] = tx[j] \/ (Shaped(j)' /\ Based(j)')
    BY <2>3, <2>6, <2>10
  <2>12. \A j \in Ids : tx'[j] = tx[j] \/ tx'[j].sets = {}
    BY <2>2, <2>3
  <2>13. \A c \in Clients : /\ client'[c] = client[c]
                            /\ \A kind \in Scripts : tx'[<<c, kind>>] = tx[<<c, kind>>]
    BY <1>1, <1>4, <2>3
  <2> QED
    BY <1>1, <1>3, <2>4, <2>7, <2>11, <2>12, <2>13, StepKeeps
<1> QED
  BY <1>1, <1>5, <1>6

\* A report is lost, a script gives up, or the repository is deleted.
LEMMA EnvironmentKeeps ==
    ASSUME ModelsInvariant,
           \/ \E c \in Clients : GiveUp(c)
           \/ \E f \in Files : LoseEvent(f)
           \/ DeleteRepository
    PROVE  ModelsInvariant'
<1>1. /\ TypeOK /\ UNCHANGED <<row, tx, store>> /\ events' \subseteq events
      /\ faults' \in 0..MaxFaults /\ deleted' \in BOOLEAN
  BY FaultType DEF ModelsInvariant, GiveUp, LoseEvent, DeleteRepository, TypeOK
<1>2. /\ client' \in [Clients -> Client]
      /\ \A d \in Clients :
           \/ client'[d] = client[d]
           \/ /\ client'[d].v = client[d].v /\ client'[d].file = client[d].file
              /\ client'[d].at = "raised" /\ client[d].at # "idle"
  <2>1. CASE client' = client
    BY <1>1, <2>1 DEF TypeOK
  <2>2. ASSUME NEW c \in Clients, GiveUp(c)
        PROVE  /\ client' \in [Clients -> Client]
               /\ \A d \in Clients :
                    \/ client'[d] = client[d]
                    \/ /\ client'[d].v = client[d].v /\ client'[d].file = client[d].file
                       /\ client'[d].at = "raised" /\ client[d].at # "idle"
    <3>1. client[c] \in Client /\ client[c].at # "idle"
      BY <1>1, <2>2, ClientTypes DEF GiveUp
    <3>2. PICK k \in Client : /\ client' = [client EXCEPT ![c] = k] /\ k.at = "raised"
                              /\ k.v = client[c].v /\ k.file = client[c].file
      <4> DEFINE r == [client[c] EXCEPT !.at = "raised"]
      <4>1. r \in Client /\ r.at = "raised" /\ r.v = client[c].v /\ r.file = client[c].file
        BY <3>1 DEF Client
      <4>2. client' = [client EXCEPT ![c] = r]
        BY <2>2 DEF GiveUp
      <4> HIDE DEF r
      <4> QED
        BY <4>1, <4>2
    <3>3. /\ client' \in [Clients -> Client] /\ client'[c] = k
          /\ \A d \in Clients : d # c => client'[d] = client[d]
      BY <1>1, <3>2, ClientShape
    <3> QED
      BY <3>1, <3>2, <3>3
  <2> QED
    BY <2>1, <2>2 DEF LoseEvent, DeleteRepository
<1>3. TypeOK'
  BY <1>1, <1>2 DEF TypeOK
<1>4. ASSUME NEW d \in Clients
      PROVE  \/ client'[d] = client[d]
             \/ Script(d)'
  <2>1. Script(d)
    BY DEF ModelsInvariant
  <2>2. \A kind \in Scripts : InFlight(<<d, kind>>)' <=> InFlight(<<d, kind>>)
    BY <1>1 DEF InFlight
  <2> QED
    BY <1>1, <1>2, <2>1, <2>2 DEF Script, Scripts
<1>5. \A f \in events' : store'[f] # None
  BY <1>1 DEF ModelsInvariant
<1> QED
  BY <1>1, <1>2, <1>3, <1>4, <1>5, StepKeeps

\* The row is inserted, the answer sent, and log_model goes on if it still waits.
LEMMA InsertModelKeeps ==
    ASSUME ModelsInvariant, NEW c \in Clients, InsertModel(c)
    PROVE  ModelsInvariant'
<1> DEFINE i == <<c, "create">>
<1> DEFINE u == <<c, "upload">>
<1>1. /\ TypeOK /\ Shaped(i) /\ Based(i) /\ Script(c)
      /\ i \in Ids /\ u \in Ids /\ i # u /\ i[2] = "create"
      /\ tx[i].at = "read" /\ InFlight(i) /\ ~Locked(i)
  BY IdTypes DEF ModelsInvariant, InsertModel, InFlight, Scripts
<1>2. CASE Refuse(i)
  BY <1>1, <1>2, RefuseKeeps
<1>3. ASSUME ~Exists(tx[i].v),
             tx' = [tx EXCEPT ![i].at = "answered", ![i].sets = {"row"},
                              ![u] = IF client[c].at = "create" THEN Begin(client[c]) ELSE @],
             Tell(i, "upload"), UNCHANGED <<row, deleted, store, events, faults>>
      PROVE  ModelsInvariant'
  <2>1. /\ client[c] \in Client /\ tx[i] \in Tx /\ tx[i].v # None
        /\ tx \in [Ids -> Tx]
    BY <1>1, ClientTypes, TxTypes DEF Shaped, TypeOK
  <2>2. PICK q \in Tx : /\ q.at = "answered" /\ q.sets = {"row"}
                        /\ q.v = tx[i].v /\ q.file = tx[i].file
                        /\ q = [tx[i] EXCEPT !.at = "answered", !.sets = {"row"}]
    <3> DEFINE r == [tx[i] EXCEPT !.at = "answered", !.sets = {"row"}]
    <3>1. /\ r \in Tx /\ r.at = "answered" /\ r.sets = {"row"}
          /\ r.v = tx[i].v /\ r.file = tx[i].file
      BY <2>1 DEF Tx
    <3> QED
      BY <3>1
  <2>3. PICK b : b = IF client[c].at = "create" THEN Begin(client[c]) ELSE tx[u]
    OBVIOUS
  <2>4. b \in Tx
    BY <1>1, <2>1, <2>3, BeginFacts, TxTypes
  <2>5. tx' = [tx EXCEPT ![i] = q, ![u] = b]
    BY <1>1, <1>3, <2>1, <2>2, <2>3
  <2>6. /\ tx' \in [Ids -> Tx] /\ tx'[i] = q /\ tx'[u] = b
        /\ \A j \in Ids : j # i /\ j # u => tx'[j] = tx[j]
    BY <1>1, <2>1, <2>2, <2>4, <2>5
  <2>7. /\ client' \in [Clients -> Client]
        /\ \A d \in Clients :
             /\ client'[d].v = client[d].v /\ client'[d].file = client[d].file
             /\ \/ client'[d].at = client[d].at /\ i # <<d, client[d].at>>
                \/ client'[d].at = "upload" /\ i = <<d, client[d].at>>
    BY <1>1, <1>3, TellShape
  <2>8. client[c].at = "create" => /\ tx[u].at = "none" /\ tx[<<c, "confirm">>].at = "none"
                                  /\ client[c].v # None /\ client[c].file # None
    BY <1>1 DEF Script
  <2>9. TypeOK'
    BY <1>1, <1>3, <2>6, <2>7 DEF TypeOK
  <2>10. Shaped(i)' /\ Based(i)' /\ InFlight(i)'
    <3> HIDE DEF i, u
    <3>1. InFlight(i)'
      BY <2>2, <2>6 DEF InFlight
    <3>2. Shaped(i)'
      BY <1>1, <2>1, <2>2, <2>6, <3>1 DEF Shaped
    <3>3. Based(i)'
      BY <1>1, <1>3, <2>2, <2>6 DEF Based, Exists
    <3> QED
      BY <3>1, <3>2, <3>3
  <2>11. CASE client[c].at = "create"
    <3>1. PICK k \in Client : /\ k = client'[c] /\ k.at = "upload"
                              /\ k.v = client[c].v /\ k.file = client[c].file
      BY <2>7, <2>11
    <3>2. tx'[u] = Begin(k)
      BY <2>3, <2>6, <2>11, <3>1 DEF Begin
    <3>3. Shaped(u)' /\ Based(u)' /\ InFlight(u)'
      BY <2>8, <2>9, <2>11, <3>1, <3>2, BegunKeeps DEF Scripts
    <3>4. Script(c)'
      <4>1. /\ tx'[<<c, "confirm">>].at = "none" /\ ~InFlight(<<c, "confirm">>)'
        BY <2>6, <2>8, <2>11, IdTypes DEF InFlight, Scripts
      <4>2. tx[i].v = client[c].v /\ tx[i].file = client[c].file
        BY <1>1 DEF Script
      <4>3. /\ tx'[<<c, "create">>].v = client[c].v
            /\ tx'[<<c, "create">>].file = client[c].file
        BY <2>2, <2>6, <4>2
      <4>4. /\ tx'[<<c, "upload">>].v = client[c].v
            /\ tx'[<<c, "upload">>].file = client[c].file
            /\ tx'[<<c, "upload">>].at # "none"
        BY <3>1, <3>2, BeginFacts
      <4>5. /\ client'[c].at = "upload" /\ client'[c].v = client[c].v
            /\ client'[c].file = client[c].file
        BY <3>1
      <4>6. client[c].file \in FilesOf[client[c].v]
        BY <1>1, <2>8, <2>11 DEF Script
      <4> QED
        BY <2>8, <2>11, <4>1, <4>3, <4>4, <4>5, <4>6 DEF Script
    <3>5. ASSUME NEW d \in Clients, d # c
          PROVE  /\ client'[d] = client[d]
                 /\ \A other \in Scripts : tx'[<<d, other>>] = tx[<<d, other>>]
      BY <1>3, <2>6, <3>5, IdTypes DEF Tell
    <3>6. \A d \in Clients : \/ Script(d)'
                             \/ /\ client'[d] = client[d]
                                /\ \A other \in Scripts : tx'[<<d, other>>] = tx[<<d, other>>]
      BY <3>4, <3>5
    <3>7. \A j \in Ids : tx'[j] = tx[j] \/ (Shaped(j)' /\ Based(j)')
      BY <2>6, <2>10, <3>3
    <3>8. tx'[u].sets = {} /\ tx'[i].v = tx[i].v
      BY <2>2, <2>6, <3>2, BeginFacts
    <3>9. \A j \in Ids : \/ tx'[j] = tx[j] \/ tx'[j].sets = {}
                         \/ j = i /\ ~Locked(i) /\ tx'[j].v = tx[j].v
      BY <1>1, <2>6, <3>8
    <3>10. \A d \in Clients : tx[<<d, "upload">>].at # "none" =>
             /\ tx'[<<d, "upload">>].at # "none"
             /\ client'[d].v = client[d].v /\ client'[d].file = client[d].file
      BY <2>7, <2>8, <2>11, <3>5 DEF Scripts
    <3>11. \A g \in events' : store'[g] # None
      BY <1>3 DEF ModelsInvariant
    <3> HIDE DEF i, u
    <3> QED
      BY <1>3, <2>9, <3>6, <3>7, <3>9, <3>10, <3>11, StepKeeps
  <2>12. CASE client[c].at # "create"
    <3>1. \A d \in Clients : client'[d].at = client[d].at
      BY <2>7, <2>12
    <3>2. \A j \in Ids : j # i => tx'[j] = tx[j]
      BY <2>3, <2>6, <2>12
    <3>3. faults' \in 0..MaxFaults
      BY <1>1, <1>3, FaultType
    <3> HIDE DEF i, u
    <3>4. Turns(i, q)
      BY <1>1, <2>2, <2>6, <2>7, <2>10, <3>1, <3>2 DEF Turns
    <3>5. \A d \in Clients : i = <<d, "confirm">> => q.at # "committed"
      BY <2>2
    <3> QED
      BY <1>1, <1>3, <2>10, <3>1, <3>3, <3>4, <3>5, QuietKeeps
  <2> QED
    BY <2>11, <2>12
<1> QED
  BY <1>2, <1>3 DEF InsertModel, Taken

-----------------------------------------------------------------------------
(* The theorems.                                                           *)

LEMMA ModelsInit == Init => ModelsInvariant
<1> SUFFICES ASSUME Init PROVE ModelsInvariant
  OBVIOUS
<1>1. Idle \in Tx /\ Idle.at = "none" /\ Idle.sets = {}
  BY DEF Idle, Tx
<1>2. /\ \A i \in Ids : tx[i] = Idle /\ ~InFlight(i)
      /\ \A c \in Clients : client[c] = [at |-> "idle", v |-> None, file |-> None]
      /\ \A v \in Versions : row[v] = [status |-> "none", file |-> None]
  BY <1>1 DEF Init, InFlight
<1>3. TypeOK
  <2>1. row \in [Versions -> Row] /\ client \in [Clients -> Client]
    BY DEF Init, Row, Client
  <2>2. tx \in [Ids -> Tx]
    BY <1>1 DEF Init
  <2> QED
    <3>1. deleted \in BOOLEAN /\ events \subseteq Files
      BY DEF Init
    <3>2. store \in [Files -> Clients \union {None}]
      BY DEF Init
    <3>3. faults \in 0..MaxFaults
      BY ModelsAssumption DEF Init, ModelsAssumption
    <3>4. \A v \in Versions : row[v].status = "none" /\ row[v].file = None
      BY <1>2
    <3> QED
      BY <2>1, <2>2, <3>1, <3>2, <3>3, <3>4 DEF TypeOK
<1>4. \A i \in Ids : Shaped(i) /\ Based(i)
  BY <1>1, <1>2 DEF Shaped, Based
<1>5. OneWriter
  BY <1>2 DEF OneWriter
<1>6. \A v \in Versions : Located(v)
  BY <1>2 DEF Located
<1>7. \A c \in Clients : Script(c)
  <2> SUFFICES ASSUME NEW c \in Clients PROVE Script(c)
    OBVIOUS
  <2>1. /\ client[c].at = "idle" /\ client[c].v = None /\ client[c].file = None
        /\ \A kind \in Scripts : tx[<<c, kind>>].at = "none" /\ ~InFlight(<<c, kind>>)
    BY <1>1, <1>2, IdTypes
  <2> QED
    BY <2>1 DEF Script, Scripts
<1> QED
  BY <1>3, <1>4, <1>5, <1>6, <1>7 DEF ModelsInvariant, Init

LEMMA FinishKeeps ==
    ASSUME ModelsInvariant, NEW i \in Ids, Finish(i)
    PROVE  ModelsInvariant'
BY RelocateKeeps, MarkReadyKeeps, CommitKeeps DEF Finish

LEMMA ModelsStep == ModelsInvariant /\ [Next]_vars => ModelsInvariant'
<1> SUFFICES ASSUME ModelsInvariant, [Next]_vars PROVE ModelsInvariant'
  OBVIOUS
<1>1. ASSUME NEW c \in Clients, Serve(c)
      PROVE  ModelsInvariant'
  <2>1. \A kind \in {"create", "upload", "confirm"} : <<c, kind>> \in Ids
    BY IdTypes DEF Scripts
  <2> QED
    BY <1>1, <2>1, ReadsKeep, InsertModelKeeps, ReserveKeeps, ReadForConfirmKeeps, FinishKeeps
       DEF Serve
<1>2. ASSUME NEW c \in Clients, Ask(c) \/ Put(c)
      PROVE  ModelsInvariant'
  BY <1>2, AskKeeps, PutKeeps
<1>3. ASSUME NEW f \in Files, Notify(f) \/ Finish(<<f, "hook">>)
      PROVE  ModelsInvariant'
  BY <1>3, NotifyKeeps, FinishKeeps, IdTypes
<1>4. ASSUME NEW i \in Ids, Break(i)
      PROVE  ModelsInvariant'
  BY <1>4, BreakKeeps
<1>5. ASSUME \/ \E c \in Clients : GiveUp(c)
             \/ \E f \in Files : LoseEvent(f)
             \/ DeleteRepository
      PROVE  ModelsInvariant'
  BY <1>5, EnvironmentKeeps
<1>6. CASE UNCHANGED vars
  <2>1. TypeOK'
    BY <1>6 DEF ModelsInvariant, TypeOK, vars
  <2>2. \A f \in events' : store'[f] # None
    BY <1>6 DEF ModelsInvariant, vars
  <2> QED
    BY <1>6, <2>1, <2>2, StepKeeps DEF vars
<1> QED
  BY <1>1, <1>2, <1>3, <1>4, <1>5, <1>6 DEF Next

\* In every state what the transactions have written and read fits the rows, one
\* transaction at a time has written a version, and what the rows say was asked for and
\* is stored.
THEOREM ModelsCorrect == Spec => []ModelsInvariant
<1>1. Init => ModelsInvariant
  BY ModelsInit
<1>2. ModelsInvariant /\ [Next]_vars => ModelsInvariant'
  BY ModelsStep
<1> QED
  BY <1>1, <1>2, PTL DEF Spec

\* A model that can be downloaded has its bytes in the bucket, as long as nobody has asked
\* to replace its artifact by one of another name.
THEOREM DownloadsAreStored == Spec => []DownloadableIsStored
<1>1. ModelsInvariant => DownloadableIsStored
  <2> SUFFICES ASSUME ModelsInvariant, NEW v \in Versions, Downloadable(v), OneLocation(v)
               PROVE  store[row[v].file] # None
    BY DEF DownloadableIsStored
  <2>1. Located(v) /\ row[v].file # None /\ row[v].status = "READY"
    BY DEF ModelsInvariant, Downloadable
  <2>2. PICK c \in Askers(v) : client[c].file = row[v].file
    BY <2>1 DEF Located, Asked
  <2>3. PICK d \in Askers(v) : store[client[d].file] # None
    BY <2>1 DEF Located
  <2> QED
    BY <2>2, <2>3 DEF OneLocation
<1> QED
  BY <1>1, ModelsCorrect, PTL

-----------------------------------------------------------------------------
(* Versions with file names of their own.                                  *)

\* How far a step takes script c: once it has asked it keeps its version and its file
\* name, only its own PUT takes it to the confirmation, and only the answer to that ends it.
Follows(c) ==
    /\ tx[<<c, "upload">>].at # "none" => tx'[<<c, "upload">>].at # "none"
    /\ client[c].at # "idle" => /\ client'[c].v = client[c].v /\ client'[c].file = client[c].file
                                /\ client'[c].at # "idle"
    /\ client'[c].at \in {"confirm", "done"} =>
         \/ client[c].at \in {"confirm", "done"} \/ Put(c) \/ client'[c].file = None

LEMMA OneTxFollows ==
    ASSUME TypeOK, NEW i \in Ids, NEW at, at # "none", NEW what, NEW c \in Clients,
           Goes(i, at) \/ Writes(i, at, what) \/ Ends(i, at),
           NEW to \in {"put", "done", "raised"}, to = "done" => i[2] \in {"confirm", "hook"},
           client' = client \/ Tell(i, to)
    PROVE  Follows(c)
<1>1. <<c, "upload">> \in Ids /\ tx \in [Ids -> Tx]
  BY IdTypes DEF Scripts, TypeOK
<1>2. tx[<<c, "upload">>].at # "none" => tx'[<<c, "upload">>].at # "none"
  <2>1. CASE i # <<c, "upload">>
    BY <1>1, <2>1 DEF Goes, Writes, Ends
  <2>2. CASE i = <<c, "upload">>
    <3>1. tx[i] \in Tx /\ i[2] # "hook"
      BY <1>1, <2>2
    <3>2. CASE Goes(i, at) \/ Writes(i, at, what)
      BY <1>1, <2>2, <3>1, <3>2 DEF Goes, Writes, Tx
    <3>3. CASE Ends(i, at)
      BY <1>1, <2>2, <3>1, <3>3 DEF Ends, Idle
    <3> QED
      BY <3>2, <3>3
  <2> QED
    BY <2>1, <2>2
<1>3. CASE client' = client
  BY <1>2, <1>3 DEF Follows
<1>4. CASE Tell(i, to)
  <2>1. /\ client'[c].v = client[c].v /\ client'[c].file = client[c].file
        /\ \/ client'[c].at = client[c].at
           \/ client'[c].at = to /\ i = <<c, client[c].at>>
    BY <1>4, TellShape
  <2>2. i = <<c, client[c].at>> /\ to = "done" => client[c].at = "confirm"
    BY ClientTypes
  <2> QED
    BY <1>2, <2>1, <2>2 DEF Follows
<1> QED
  BY <1>3, <1>4

LEMMA StepFollows ==
    ASSUME ModelsInvariant, [Next]_vars, NEW c \in Clients
    PROVE  Follows(c) /\ (store' = store \/ \E d \in Clients : Put(d))
<1>1. TypeOK /\ Script(c)
  BY DEF ModelsInvariant
<1>2. ASSUME NEW i \in Ids, Refuse(i)
      PROVE  Follows(c) /\ store' = store
  BY <1>1, <1>2, OneTxFollows DEF Refuse
<1>3. ASSUME NEW i \in Ids, Relocate(i)
      PROVE  Follows(c) /\ store' = store
  BY <1>1, <1>3, OneTxFollows DEF Relocate
<1>4. ASSUME NEW i \in Ids, MarkReady(i)
      PROVE  Follows(c) /\ store' = store
  <2>1. i[2] \in {"confirm", "hook"}
    BY <1>4, CheckedFacts DEF MarkReady
  <2> QED
    BY <1>1, <1>4, <2>1, OneTxFollows DEF MarkReady
<1>5. ASSUME NEW i \in Ids, Commit(i)
      PROVE  Follows(c) /\ store' = store
  BY <1>1, <1>5, OneTxFollows DEF Commit
<1>6. ASSUME NEW i \in Ids, Break(i)
      PROVE  Follows(c) /\ store' = store
  BY <1>1, <1>6, OneTxFollows DEF Break
<1>7. ASSUME NEW d \in Clients, ReadRepository(d) \/ ReadForUpload(d) \/ CheckObject(d) \/ Reserve(d)
      PROVE  Follows(c) /\ store' = store
  <2>1. <<d, "create">> \in Ids /\ <<d, "upload">> \in Ids /\ <<d, "confirm">> \in Ids
    BY IdTypes DEF Scripts
  <2>2. CASE ReadRepository(d)
    BY <1>1, <1>2, <2>1, <2>2, OneTxFollows DEF ReadRepository
  <2>3. CASE ReadForUpload(d)
    BY <1>1, <1>2, <2>1, <2>3, OneTxFollows DEF ReadForUpload
  <2>4. CASE CheckObject(d)
    BY <1>1, <1>2, <2>1, <2>4, OneTxFollows DEF CheckObject
  <2>5. CASE Reserve(d)
    BY <1>1, <2>1, <2>5, OneTxFollows DEF Reserve
  <2> QED
    BY <1>7, <2>2, <2>3, <2>4, <2>5
<1>8. ASSUME NEW d \in Clients, ReadForConfirm(d)
      PROVE  Follows(c) /\ store' = store
  <2>1. <<d, "confirm">> \in Ids /\ <<c, "upload">> \in Ids
    BY IdTypes DEF Scripts
  <2>2. CASE Refuse(<<d, "confirm">>)
    BY <1>2, <2>1, <2>2
  <2>3. CASE ~Refuse(<<d, "confirm">>)
    BY <1>1, <1>8, <2>1, <2>3 DEF ReadForConfirm, Follows, TypeOK
  <2> QED
    BY <2>2, <2>3
<1>9. ASSUME NEW d \in Clients, InsertModel(d)
      PROVE  Follows(c) /\ store' = store
  <2> DEFINE i == <<d, "create">>
  <2> DEFINE u == <<d, "upload">>
  <2>1. i \in Ids /\ u \in Ids /\ i # u /\ <<c, "upload">> \in Ids /\ <<c, "upload">> # i
    BY IdTypes DEF Scripts
  <2>2. CASE Refuse(i)
    BY <1>2, <2>1, <2>2
  <2>3. CASE ~Refuse(i)
    <3>1. /\ tx' = [tx EXCEPT ![i].at = "answered", ![i].sets = {"row"},
                              ![u] = IF client[d].at = "create" THEN Begin(client[d]) ELSE @]
          /\ Tell(i, "upload") /\ store' = store
      BY <1>9, <2>3 DEF InsertModel
    <3>2. tx[<<c, "upload">>].at # "none" => tx'[<<c, "upload">>].at # "none"
      BY <1>1, <2>1, <3>1 DEF TypeOK, Begin
    <3>3. /\ client'[c].v = client[c].v /\ client'[c].file = client[c].file
          /\ client'[c].at = client[c].at \/ client'[c].at = "upload"
      BY <1>1, <2>1, <3>1, TellShape
    <3> QED
      BY <3>1, <3>2, <3>3 DEF Follows
  <2> QED
    BY <2>2, <2>3
<1>10. ASSUME NEW d \in Clients, Ask(d)
       PROVE  Follows(c) /\ store' = store
  <2>1. PICK v \in Versions, kind \in Scripts :
          \E f \in IF kind = "confirm" THEN {None} ELSE FilesOf[v] :
            /\ client' = [client EXCEPT ![d] = [at |-> kind, v |-> v, file |-> f]]
            /\ tx' = [tx EXCEPT ![<<d, kind>>] = Begin([at |-> kind, v |-> v, file |-> f])]
    BY <1>10 DEF Ask, Scripts
  <2>2. PICK f \in IF kind = "confirm" THEN {None} ELSE FilesOf[v] :
          /\ client' = [client EXCEPT ![d] = [at |-> kind, v |-> v, file |-> f]]
          /\ tx' = [tx EXCEPT ![<<d, kind>>] = Begin([at |-> kind, v |-> v, file |-> f])]
    BY <2>1
  <2>3. <<d, kind>> \in Ids /\ <<c, "upload">> \in Ids /\ client[d].at = "idle" /\ store' = store
    BY <1>10, IdTypes DEF Ask, Scripts
  <2>4. tx[<<c, "upload">>].at # "none" => tx'[<<c, "upload">>].at # "none"
    BY <1>1, <2>2, <2>3 DEF TypeOK, Begin
  <2>5. CASE c = d
    <3>1. client'[c] = [at |-> kind, v |-> v, file |-> f] /\ client[c].at = "idle"
      BY <1>1, <2>2, <2>3, <2>5 DEF TypeOK
    <3> QED
      BY <2>3, <2>4, <3>1 DEF Follows, Scripts
  <2>6. CASE c # d
    <3>1. client'[c] = client[c]
      BY <1>1, <2>2, <2>6 DEF TypeOK
    <3> QED
      BY <2>3, <2>4, <3>1 DEF Follows
  <2> QED
    BY <2>5, <2>6
<1>11. ASSUME NEW d \in Clients, Put(d)
       PROVE  Follows(c)
  <2>1. /\ client' = [client EXCEPT ![d].at = "confirm"] /\ client[d].at = "put"
        /\ tx' = [tx EXCEPT ![<<d, "confirm">>] = Begin(client[d])]
    BY <1>11 DEF Put
  <2>2. /\ tx[<<c, "upload">>].at # "none" => tx'[<<c, "upload">>].at # "none"
    BY <1>1, <2>1, IdTypes DEF TypeOK, Scripts
  <2>3. client \in [Clients -> Client] /\ client[c] \in Client
    BY <1>1, ClientTypes DEF TypeOK
  <2>4. CASE c = d
    BY <1>11, <2>1, <2>2, <2>3, <2>4 DEF Follows, Client
  <2>5. CASE c # d
    BY <2>1, <2>2, <2>3, <2>5 DEF Follows
  <2> QED
    BY <2>4, <2>5
<1>12. ASSUME NEW d \in Clients, GiveUp(d)
       PROVE  Follows(c) /\ store' = store
  <2>1. client \in [Clients -> Client] /\ client[c] \in Client
    BY <1>1, ClientTypes DEF TypeOK
  <2>2. client' = [client EXCEPT ![d].at = "raised"] /\ tx' = tx /\ store' = store
    BY <1>12 DEF GiveUp
  <2> QED
    BY <2>1, <2>2 DEF Follows, Client
<1>13. ASSUME NEW f \in Files, Notify(f) \/ LoseEvent(f)
       PROVE  Follows(c) /\ store' = store
  <2>1. client' = client /\ store' = store
    BY <1>13 DEF Notify, LoseEvent
  <2>2. <<c, "upload">> \in Ids /\ <<c, "upload">> # <<f, "hook">> /\ <<f, "hook">> \in Ids
    BY IdTypes DEF Scripts
  <2>3. tx'[<<c, "upload">>] = tx[<<c, "upload">>]
    BY <1>1, <1>13, <2>2 DEF TypeOK, Notify, LoseEvent
  <2> QED
    BY <2>1, <2>3 DEF Follows
<1>14. ASSUME DeleteRepository \/ UNCHANGED vars
       PROVE  Follows(c) /\ store' = store
  BY <1>14 DEF Follows, DeleteRepository, vars
<1>15. /\ \A d \in Clients, kind \in {"create", "upload", "confirm"} : <<d, kind>> \in Ids
       /\ \A f \in Files : <<f, "hook">> \in Ids
  BY IdTypes DEF Scripts
<1>16. ASSUME NEW i \in Ids, Finish(i)
       PROVE  Follows(c) /\ store' = store
  BY <1>3, <1>4, <1>5, <1>16 DEF Finish
<1>17. ASSUME NEW d \in Clients, Serve(d)
       PROVE  Follows(c) /\ store' = store
  BY <1>7, <1>8, <1>9, <1>15, <1>16, <1>17 DEF Serve
<1> QED
  BY <1>6, <1>10, <1>11, <1>12, <1>13, <1>14, <1>15, <1>16, <1>17 DEF Next

LEMMA OwnFilesStep == OwnFiles /\ OwnFilesInvariant /\ [Next]_vars => OwnFilesInvariant'
<1> SUFFICES ASSUME OwnFiles, OwnFilesInvariant, [Next]_vars PROVE OwnFilesInvariant'
  OBVIOUS
<1>1. /\ ModelsInvariant /\ ModelsInvariant' /\ TypeOK /\ TypeOK'
      /\ store \in [Files -> Clients \union {None}] /\ None \notin Clients
  BY ModelsStep, ModelsAssumption DEF OwnFilesInvariant, ModelsInvariant, TypeOK, ModelsAssumption
<1>2. /\ \A c \in Clients : Follows(c)
      /\ store' = store \/ \E d \in Clients : Put(d)
  <2>1. CASE Clients = {}
    <3>1. \A f \in Files : store[f] = None /\ store'[f] = None
      BY <1>1, <2>1 DEF TypeOK
    <3>2. store' \in [Files -> Clients \union {None}]
      BY <1>1 DEF TypeOK
    <3> QED
      BY <1>1, <2>1, <3>1, <3>2
  <2>2. CASE Clients # {}
    BY <1>1, <2>2, StepFollows
  <2> QED
    BY <2>1, <2>2
<1>3. ASSUME NEW d \in Clients, Put(d)
      PROVE  /\ client[d].at = "put" /\ client[d].file \in Files
             /\ client[d].file \in FilesOf[client[d].v] /\ client[d].v \in Versions
             /\ tx[<<d, "upload">>].at # "none"
             /\ store' = [store EXCEPT ![client[d].file] = d]
  <2>1. Script(d)
    BY <1>1 DEF ModelsInvariant
  <2> QED
    BY <1>1, <1>3, <2>1, ClientTypes DEF Put, Script
<1>4. ASSUME NEW f \in Files
      PROVE  Bytes(f)'
  <2>1. Bytes(f)
    BY DEF OwnFilesInvariant
  <2>2. CASE store'[f] = store[f]
    <3>1. CASE store[f] = None
      BY <2>2, <3>1 DEF Bytes
    <3>2. CASE store[f] # None
      BY <1>1, <1>2, <2>1, <2>2, <3>2 DEF Bytes, Follows
    <3> QED
      BY <3>1, <3>2
  <2>3. CASE store'[f] # store[f]
    <3>1. PICK d \in Clients : Put(d)
      BY <1>2, <2>3
    <3>2. store'[f] = d /\ client[d].file = f /\ client[d].at # "idle"
      BY <1>1, <1>3, <2>3, <3>1
    <3> QED
      BY <1>2, <3>2 DEF Bytes, Follows
  <2> QED
    BY <2>2, <2>3
<1>5. ASSUME NEW c \in Clients, client'[c].at \in {"confirm", "done"}, client'[c].file # None
      PROVE  /\ tx'[<<c, "upload">>].at # "none"
             /\ Askers(client[c].v)' = {c} => store'[client'[c].file] = c
             /\ client'[c].v = client[c].v
  <2>1. client[c].at \in {"confirm", "done"} \/ Put(c)
    BY <1>2, <1>5 DEF Follows
  <2>2. client[c].at # "idle"
    BY <1>3, <2>1
  <2>3. client'[c].v = client[c].v /\ client'[c].file = client[c].file
    BY <1>2, <2>2 DEF Follows
  <2>4. tx[<<c, "upload">>].at # "none" /\ tx'[<<c, "upload">>].at # "none"
    BY <1>2, <1>3, <1>5, <2>1, <2>3 DEF OwnFilesInvariant, Undisturbed, Follows
  <2>5. client[c].v \in Versions /\ client[c].file \in Files
        /\ client[c].file \in FilesOf[client[c].v]
    <3>1. Script(c)
      BY <1>1 DEF ModelsInvariant
    <3> QED
      BY <1>1, <1>5, <2>2, <2>3, <3>1, ClientTypes DEF Script
  <2>6. ASSUME Askers(client[c].v)' = {c}
        PROVE  store'[client'[c].file] = c
    <3>1. CASE Put(c)
      BY <1>1, <1>3, <2>3, <3>1
    <3>2. CASE ~Put(c)
      <4>1. \A d \in Clients : client[d].v = client[c].v /\ tx[<<d, "upload">>].at # "none"
                              => d = c
        <5> SUFFICES ASSUME NEW d \in Clients, client[d].v = client[c].v,
                            tx[<<d, "upload">>].at # "none"
                     PROVE  d = c
          OBVIOUS
        <5>1. client[d].at # "idle"
          BY <1>1 DEF ModelsInvariant, Script
        <5>2. client'[d].v = client[d].v /\ tx'[<<d, "upload">>].at # "none"
          BY <1>2, <5>1 DEF Follows
        <5> QED
          BY <2>3, <2>6, <5>2 DEF Askers
      <4>2. Askers(client[c].v) = {c}
        BY <2>4, <4>1 DEF Askers
      <4>3. store[client[c].file] = c
        BY <1>5, <2>1, <2>3, <3>2, <4>2 DEF OwnFilesInvariant, Undisturbed
      <4>4. CASE store' = store
        BY <2>3, <4>3, <4>4
      <4>5. ASSUME NEW d \in Clients, Put(d)
            PROVE  store'[client[c].file] = c
        <5>1. CASE client[d].v = client[c].v
          BY <1>3, <3>2, <4>1, <4>5, <5>1
        <5>2. CASE client[d].v # client[c].v
          <6>1. client[d].file # client[c].file
            BY <1>3, <2>5, <4>5, <5>2 DEF OwnFiles
          <6> QED
            BY <1>1, <1>3, <2>5, <4>3, <4>5, <6>1
        <5> QED
          BY <5>1, <5>2
      <4> QED
        BY <1>2, <2>3, <4>4, <4>5
    <3> QED
      BY <3>1, <3>2
  <2> QED
    BY <2>3, <2>4, <2>6
<1>6. ASSUME NEW c \in Clients
      PROVE  Undisturbed(c)'
  BY <1>5 DEF Undisturbed, Askers
<1> QED
  BY <1>1, <1>4, <1>6 DEF OwnFilesInvariant

LEMMA OwnFilesAlways == ASSUME OwnFiles PROVE Spec => []OwnFilesInvariant
<1>1. Init => OwnFilesInvariant
  <2> SUFFICES ASSUME Init PROVE OwnFilesInvariant
    OBVIOUS
  <2>1. /\ \A f \in Files : store[f] = None
        /\ \A c \in Clients : client[c].at = "idle"
    BY DEF Init
  <2> QED
    BY <2>1, ModelsInit DEF OwnFilesInvariant, Bytes, Undisturbed
<1>2. OwnFilesInvariant /\ [Next]_vars => OwnFilesInvariant'
  BY OwnFilesStep
<1> QED
  BY <1>1, <1>2, PTL DEF Spec

\* A script whose upload has been confirmed is served its own artifact, unless someone
\* else has asked to upload one to the version.
THEOREM ConfirmationsAreServed == ASSUME OwnFiles PROVE Spec => []ConfirmedIsServed
<1>1. OwnFilesInvariant => ConfirmedIsServed
  <2> SUFFICES ASSUME OwnFilesInvariant, NEW c \in Clients,
                      client[c].at = "done", Askers(client[c].v) = {c}
               PROVE  /\ row[client[c].v].file = client[c].file
                      /\ store[client[c].file] = c
                      /\ tx[<<c, "confirm">>].at = "committed" =>
                           row[client[c].v].status = "READY"
    BY DEF ConfirmedIsServed
  <2>1. ModelsInvariant /\ Script(c) /\ TypeOK
    BY DEF OwnFilesInvariant, ModelsInvariant
  <2>2. client[c].v \in Versions /\ row[client[c].v].file # None
    BY <2>1, ClientTypes DEF Script
  <2>3. Located(client[c].v)
    BY <2>1, <2>2 DEF ModelsInvariant
  <2>4. row[client[c].v].file = client[c].file
    BY <2>2, <2>3 DEF Located, Asked
  <2>5. store[client[c].file] = c
    BY <2>2, <2>4 DEF OwnFilesInvariant, Undisturbed
  <2> QED
    BY <2>1, <2>4, <2>5 DEF Script
<1> QED
  BY <1>1, OwnFilesAlways, PTL

\* With file names of their own the bytes a version is downloaded with were uploaded for
\* that version; the run models_shared_file shows that one name for all does not do.
THEOREM OwnNamesKeepVersionsApart ==
    ASSUME OwnFiles PROVE Spec => []DownloadsAreOfTheVersion
<1>1. OwnFilesInvariant => DownloadsAreOfTheVersion
  <2> SUFFICES ASSUME OwnFilesInvariant, NEW v \in Versions, Downloadable(v),
                      store[row[v].file] # None
               PROVE  client[store[row[v].file]].v = v
    BY DEF DownloadsAreOfTheVersion
  <2>1. ModelsInvariant /\ TypeOK /\ Located(v) /\ row[v].file # None /\ row[v].file \in Files
    BY RowTypes DEF OwnFilesInvariant, ModelsInvariant, Downloadable
  <2>2. PICK c \in Askers(v) : client[c].file = row[v].file
    BY <2>1 DEF Located, Asked
  <2>3. c \in Clients /\ client[c].v = v /\ client[c].file \in FilesOf[v]
    BY <2>1, <2>2 DEF ModelsInvariant, Script, Askers
  <2>4. store[row[v].file] \in Clients
    BY <2>1 DEF TypeOK
  <2>5. PICK d \in Clients : d = store[row[v].file]
    BY <2>4
  <2>6. client[d].at # "idle" /\ client[d].file = row[v].file
    BY <2>1, <2>5 DEF OwnFilesInvariant, Bytes
  <2>7. client[d].v \in Versions /\ client[d].file \in FilesOf[client[d].v]
    BY <2>1, <2>6, ClientTypes DEF ModelsInvariant, Script
  <2> QED
    BY <2>2, <2>3, <2>5, <2>6, <2>7 DEF OwnFiles
<1> QED
  BY <1>1, OwnFilesAlways, PTL

-----------------------------------------------------------------------------
(* The versions of models are versions of artifacts, if in addition the     *)
(* artifact of a version is only ever replaced under its own name.          *)

OneName == \A v \in Versions : \A f, g \in FilesOf[v] : f = g

Targets == [c \in Clients |-> Target(c)]
States  == [v \in Versions |-> row[v].status]
Objects == [v \in Versions |-> ObjectOf(v)]

LEMMA AskedName ==
    ASSUME ModelsInvariant, NEW v \in Versions, NEW f, Asked(v, f)
    PROVE  f \in FilesOf[v]
<1>1. PICK c \in Askers(v) : client[c].file = f
  BY DEF Asked
<1>2. c \in Clients /\ client[c].v = v /\ Script(c) /\ tx[<<c, "upload">>].at # "none"
  BY <1>1 DEF Askers, ModelsInvariant
<1> QED
  BY <1>1, <1>2 DEF Script

\* A version's object is of one name, and was stored by a script that is about the version.
LEMMA OneObject ==
    ASSUME OwnFiles, OneName, OwnFilesInvariant, NEW v \in Versions, row[v].file # None
    PROVE  /\ row[v].file \in Files /\ row[v].file \in FilesOf[v] /\ row[v].status # "none"
           /\ \A f : Asked(v, f) => f = row[v].file
<1>1. ModelsInvariant /\ TypeOK /\ Located(v)
  BY DEF OwnFilesInvariant, ModelsInvariant
<1>2. row[v].file \in Files /\ row[v].status # "none"
  BY <1>1, RowTypes DEF TypeOK
<1>3. row[v].file \in FilesOf[v]
  BY <1>1, AskedName DEF Located
<1> QED
  BY <1>1, <1>2, <1>3, AskedName DEF OneName

LEMMA StoredByTarget ==
    ASSUME OwnFiles, OwnFilesInvariant, NEW v \in Versions, NEW f \in Files, f \in FilesOf[v],
           store[f] # None
    PROVE  store[f] \in Models!WritersOf(v)
<1>1. ModelsInvariant /\ TypeOK
  BY DEF OwnFilesInvariant, ModelsInvariant
<1>2. PICK d \in Clients : d = store[f]
  BY <1>1 DEF TypeOK
<1>3. client[d].at # "idle" /\ client[d].file = f
  BY <1>2 DEF OwnFilesInvariant, Bytes
<1>4. Script(d) /\ f # None
  BY <1>1, ModelsAssumption DEF ModelsInvariant, ModelsAssumption
<1>5. client[d].v \in Versions /\ f \in FilesOf[client[d].v]
  BY <1>1, <1>3, <1>4, ClientTypes DEF Script
<1>6. client[d].v = v
  BY <1>5 DEF OwnFiles
<1> QED
  BY <1>2, <1>3, <1>6 DEF Models!WritersOf, Target

\* What an EXCEPT of a view of all versions is.
LEMMA OneVersion ==
    ASSUME NEW e \in Versions, NEW b,
           \A v \in Versions : v # e => ObjectOf(v)' = ObjectOf(v),
           ObjectOf(e)' = b
    PROVE  Objects' = [Objects EXCEPT ![e] = b]
BY DEF Objects

LEMMA SameViews ==
    ASSUME \A c \in Clients : Target(c)' = Target(c),
           \A v \in Versions : row'[v].status = row[v].status /\ ObjectOf(v)' = ObjectOf(v)
    PROVE  UNCHANGED Models!versionVars
<1>1. Targets' = Targets /\ States' = States /\ Objects' = Objects
  BY DEF Targets, States, Objects
<1> QED
  BY <1>1 DEF Models!versionVars, Targets, States, Objects

LEMMA AskGives ==
    ASSUME OwnFilesInvariant, NEW c \in Clients, Ask(c)
    PROVE  Models!Next
<1>1. TypeOK /\ client[c].at = "idle" /\ UNCHANGED <<row, store>>
  BY DEF Ask, OwnFilesInvariant, ModelsInvariant
<1>2. PICK v \in Versions, kind \in {"create", "upload", "confirm"},
             f \in {None} \cup UNION {FilesOf[w] : w \in Versions} :
        client' = [client EXCEPT ![c] = [at |-> kind, v |-> v, file |-> f]]
  BY DEF Ask
<1>3. /\ client'[c].at = kind /\ client'[c].v = v
      /\ \A d \in Clients : d # c => client'[d] = client[d]
  BY <1>1, <1>2 DEF TypeOK
<1>4. /\ Target(c) = None /\ Target(c)' = v
      /\ \A d \in Clients : d # c => Target(d)' = Target(d)
  BY <1>1, <1>3 DEF Target
<1>5. Targets[c] = None /\ Targets' = [Targets EXCEPT ![c] = v]
  BY <1>4 DEF Targets
<1>6. States' = States /\ Objects' = Objects
  BY <1>1 DEF States, Objects, ObjectOf
<1>7. Models!Give(c, v)
  BY <1>5, <1>6 DEF Models!Give, Targets, States, Objects
<1> QED
  BY <1>7 DEF Models!Next

LEMMA PutStores ==
    ASSUME OwnFiles, OneName, OwnFilesInvariant, NEW c \in Clients, Put(c)
    PROVE  Models!Next \/ UNCHANGED Models!versionVars
<1>1. /\ ModelsInvariant /\ TypeOK /\ Script(c) /\ client[c].at = "put"
      /\ store' = [store EXCEPT ![client[c].file] = c]
      /\ client' = [client EXCEPT ![c].at = "confirm"] /\ row' = row
  BY DEF Put, OwnFilesInvariant, ModelsInvariant
<1>2. PICK v \in Versions, f \in Files : v = client[c].v /\ f = client[c].file /\ f \in FilesOf[v]
  BY <1>1, ClientTypes DEF Script
<1>3. /\ client'[c].at = "confirm" /\ client'[c].v = v
      /\ \A d \in Clients : d # c => client'[d] = client[d]
  BY <1>1, <1>2, ClientTypes DEF TypeOK, Client
<1>4. Target(c) = v /\ \A d \in Clients : Target(d)' = Target(d)
  BY <1>1, <1>2, <1>3 DEF Target
<1>5. store'[f] = c /\ \A g \in Files : g # f => store'[g] = store[g]
  BY <1>1, <1>2 DEF TypeOK
<1>6. \A w \in Versions : row[w].file # f => ObjectOf(w)' = ObjectOf(w)
  BY <1>1, <1>5, RowTypes DEF ObjectOf
<1>7. \A w \in Versions : w # v => row[w].file # f
  <2> SUFFICES ASSUME NEW w \in Versions, row[w].file = f PROVE w = v
    OBVIOUS
  <2>1. row[w].file # None
    BY ModelsAssumption DEF ModelsAssumption
  <2>2. f \in FilesOf[w]
    BY <2>1, OneObject
  <2> QED
    BY <1>2, <2>2 DEF OwnFiles
<1>8. CASE row[v].file = f
  <2>1. row[v].file # None
    BY <1>8, ModelsAssumption DEF ModelsAssumption
  <2>2. ObjectOf(v)' = c /\ row[v].status # "none"
    BY <1>1, <1>5, <1>8, <2>1, OneObject DEF ObjectOf
  <2>3. Objects' = [Objects EXCEPT ![v] = c]
    BY <1>6, <1>7, <2>2, OneVersion
  <2>4. /\ Targets' = Targets /\ States' = States /\ States[v] # "none"
        /\ c \in Models!WritersOf(v)
    BY <1>1, <1>4, <2>2 DEF Targets, States, Models!WritersOf
  <2>5. Models!Store(v)
    BY <2>3, <2>4 DEF Models!Store, Targets, States, Objects
  <2> QED
    BY <2>5 DEF Models!Next
<1>9. CASE row[v].file # f
  BY <1>1, <1>4, <1>6, <1>7, <1>9, SameViews
<1> QED
  BY <1>8, <1>9

\* A transaction is committed: the version appears, its row names the object or names it
\* already, or it becomes READY.
LEMMA CommitViews ==
    ASSUME OwnFiles, OneName, OwnFilesInvariant, NEW i \in Ids, Commit(i)
    PROVE  Models!Next \/ UNCHANGED Models!versionVars
<1>1. /\ ModelsInvariant /\ TypeOK /\ tx[i].at = "answered"
      /\ UNCHANGED <<client, store>>
  BY DEF Commit, OwnFilesInvariant, ModelsInvariant
<1>2. PICK v \in Versions, f \in Files \cup {None}, S \in SUBSET {"row", "file", "ready"} :
           f = tx[i].file /\ v = tx[i].v /\ S = tx[i].sets
  <2>1. tx[i].file \in Files \cup {None}
    BY <1>1 DEF TypeOK, Tx
  <2> QED
    BY <1>1, <2>1, AnsweredFacts
<1>3. /\ S \subseteq {"row", "file", "ready"}
      /\ "row" \in S => row[v].status = "none" /\ S = {"row"}
      /\ S # {"row"} => row[v].status # "none" \/ S = {}
      /\ "file" \in S => Asked(v, f) /\ f \in Files /\ f # None
      /\ "ready" \in S => row[v].file # None /\ Asked(v, f) /\ store[f] # None
  BY <1>1, <1>2, AnsweredFacts DEF Exists
<1>4. /\ \A w \in Versions : w # v => row'[w] = row[w]
      /\ row'[v].status = IF "ready" \in S THEN "READY"
                          ELSE IF "row" \in S THEN "PENDING" ELSE row[v].status
      /\ row'[v].file = IF "file" \in S THEN f ELSE row[v].file
  BY <1>2 DEF Commit
<1>5. /\ row[v].status \in {"none", "PENDING", "READY"}
      /\ row[v].status = "none" => row[v].file = None
  BY <1>1, RowTypes DEF TypeOK
<1>6. /\ \A c \in Clients : Target(c)' = Target(c)
      /\ \A w \in Versions : w # v => ObjectOf(w)' = ObjectOf(w)
      /\ Targets' = Targets
  BY <1>1, <1>4 DEF Target, ObjectOf, Targets
<1>7. ASSUME NEW s, row'[v].status = s
      PROVE  States' = [States EXCEPT ![v] = s]
  BY <1>4, <1>7 DEF States
<1>8. CASE "row" \in S
  <2>1. row[v].status = "none" /\ row'[v].status = "PENDING" /\ row'[v].file = None
    BY <1>3, <1>4, <1>5, <1>8
  <2>2. Objects' = [Objects EXCEPT ![v] = None]
    BY <1>6, <2>1, OneVersion DEF ObjectOf
  <2>3. States[v] = "none" /\ States' = [States EXCEPT ![v] = "PENDING"]
    BY <1>7, <2>1 DEF States
  <2>4. Models!Reserve(v)
    BY <1>6, <2>2, <2>3 DEF Models!Reserve, Targets, States, Objects
  <2> QED
    BY <2>4 DEF Models!Next
<1>9. CASE "ready" \in S /\ row[v].status = "PENDING"
  <2>1. /\ f = row[v].file /\ f \in Files /\ f \in FilesOf[v] /\ f # None
    BY <1>3, <1>9, OneObject
  <2>2. row'[v].status = "READY" /\ row'[v].file = f
    BY <1>4, <1>9, <2>1
  <2>3. store[f] \in Models!WritersOf(v)
    BY <1>3, <1>9, <2>1, StoredByTarget
  <2>4. ObjectOf(v)' = store[f]
    BY <1>1, <2>1, <2>2 DEF ObjectOf
  <2>5. Objects' = [Objects EXCEPT ![v] = store[f]]
    BY <1>6, <2>4, OneVersion
  <2>6. States[v] = "PENDING" /\ States' = [States EXCEPT ![v] = "READY"]
    BY <1>7, <1>9, <2>2 DEF States
  <2>7. Models!Confirm(v)
    BY <1>6, <2>3, <2>5, <2>6 DEF Models!Confirm, Targets, States, Objects
  <2> QED
    BY <2>7 DEF Models!Next
<1>10. CASE "row" \notin S /\ ~("ready" \in S /\ row[v].status = "PENDING")
  <2>1. row'[v].status = row[v].status
    <3>1. CASE "ready" \in S
      BY <1>3, <1>4, <1>5, <1>10, <3>1
    <3>2. CASE "ready" \notin S
      BY <1>4, <1>10, <3>2
    <3> QED
      BY <3>1, <3>2
  <2>2. CASE row'[v].file = row[v].file
    <3>1. ObjectOf(v)' = ObjectOf(v)
      BY <1>1, <2>2 DEF ObjectOf
    <3> QED
      BY <1>4, <1>6, <2>1, <3>1, SameViews
  <2>3. CASE row'[v].file # row[v].file
    <3>1. "file" \in S /\ Asked(v, f) /\ f \in Files /\ f # None /\ row'[v].file = f
      BY <1>3, <1>4, <2>3
    <3>2. row[v].file = None /\ f \in FilesOf[v]
      BY <1>1, <2>3, <3>1, OneObject, AskedName
    <3>3. ObjectOf(v)' = store[f] /\ ObjectOf(v) = None
      BY <1>1, <3>1, <3>2 DEF ObjectOf
    <3>4. CASE store[f] = None
      BY <1>4, <1>6, <2>1, <3>3, <3>4, SameViews
    <3>5. CASE store[f] # None
      <4>1. store[f] \in Models!WritersOf(v)
        BY <3>1, <3>2, <3>5, StoredByTarget
      <4>2. Objects' = [Objects EXCEPT ![v] = store[f]]
        BY <1>6, <3>3, OneVersion
      <4>3. States' = States /\ States[v] # "none"
        BY <1>3, <1>4, <1>10, <2>1, <3>1 DEF States
      <4>4. Models!Store(v)
        BY <1>6, <4>1, <4>2, <4>3 DEF Models!Store, Targets, States, Objects
      <4> QED
        BY <4>4 DEF Models!Next
    <3> QED
      BY <3>4, <3>5
  <2> QED
    BY <2>2, <2>3
<1> QED
  BY <1>5, <1>8, <1>9, <1>10

\* Only what a script asks starts it.
LEMMA IdleStays ==
    ASSUME TypeOK, [Next]_vars, NEW c \in Clients, client[c].at = "idle", ~Ask(c)
    PROVE  client'[c].at = "idle"
<1>1. ASSUME NEW i \in Ids, NEW at \in {"upload", "put", "done", "raised"}, Tell(i, at)
      PROVE  client'[c].at = "idle"
  <2>1. i # <<c, "idle">>
    BY IdTypes DEF Scripts
  <2> QED
    BY <1>1, <2>1, TellShape
<1>2. \A i \in Ids : Refuse(i) => client'[c].at = "idle"
  BY <1>1 DEF Refuse
<1>3. ASSUME NEW d \in Clients, Serve(d)
      PROVE  client'[c].at = "idle"
  <2>1. \A kind \in Scripts : <<d, kind>> \in Ids
    BY IdTypes
  <2>2. ASSUME NEW kind \in {"create", "upload", "confirm"}, Finish(<<d, kind>>)
        PROVE  client'[c].at = "idle"
    BY <1>1, <2>1, <2>2 DEF Finish, Relocate, MarkReady, Commit, Scripts
  <2>3. ReadRepository(d) \/ ReadForUpload(d) \/ ReadForConfirm(d) \/ CheckObject(d)
          => client'[c].at = "idle"
    BY <1>2, <2>1 DEF ReadRepository, ReadForUpload, ReadForConfirm, CheckObject, Scripts
  <2>4. InsertModel(d) \/ Reserve(d) => client'[c].at = "idle"
    BY <1>1, <1>2, <2>1 DEF InsertModel, Reserve, Scripts
  <2> QED
    BY <1>3, <2>2, <2>3, <2>4 DEF Serve
<1>4. ASSUME NEW d \in Clients, Ask(d) \/ Put(d) \/ GiveUp(d)
      PROVE  client'[c].at = "idle"
  <2>1. d # c
    BY <1>4 DEF Put, GiveUp
  <2> QED
    BY <1>4, <2>1 DEF Ask, Put, GiveUp, TypeOK
<1>5. ASSUME NEW f \in Files, Notify(f) \/ LoseEvent(f) \/ Finish(<<f, "hook">>)
      PROVE  client'[c].at = "idle"
  <2>1. <<f, "hook">> \in Ids
    BY IdTypes
  <2> QED
    BY <1>1, <1>5, <2>1 DEF Notify, LoseEvent, Finish, Relocate, MarkReady, Commit
<1>6. ASSUME NEW i \in Ids, Break(i)
      PROVE  client'[c].at = "idle"
  BY <1>1, <1>6 DEF Break
<1>7. DeleteRepository \/ UNCHANGED vars => client'[c].at = "idle"
  BY DEF DeleteRepository, vars
<1> QED
  BY <1>3, <1>4, <1>5, <1>6, <1>7 DEF Next

\* Rows are changed by commits, and objects by scripts that put them.
LEMMA OthersView ==
    ASSUME ModelsInvariant, [Next]_vars,
           \A c \in Clients : ~Ask(c) /\ ~Put(c), \A i \in Ids : ~Commit(i)
    PROVE  UNCHANGED Models!versionVars
<1>1. TypeOK
  BY DEF ModelsInvariant
<1>2. ASSUME NEW c \in Clients
      PROVE  Target(c)' = Target(c)
  <2>1. CASE client[c].at = "idle"
    BY <1>1, <2>1, IdleStays DEF Target
  <2>2. CASE client[c].at # "idle"
    BY <2>2, StepFollows DEF Follows, Target
  <2> QED
    BY <2>1, <2>2
<1>3. row' = row /\ store' = store
  <2>1. \A i \in Ids : Refuse(i) \/ Relocate(i) \/ MarkReady(i) \/ Break(i) => row' = row /\ store' = store
    BY DEF Refuse, Relocate, MarkReady, Break
  <2>2. ASSUME NEW c \in Clients, Serve(c)
        PROVE  row' = row /\ store' = store
    <3>1. \A kind \in Scripts : <<c, kind>> \in Ids
      BY IdTypes
    <3>2. ReadRepository(c) \/ ReadForUpload(c) \/ ReadForConfirm(c) \/ CheckObject(c)
          \/ InsertModel(c) \/ Reserve(c) => row' = row /\ store' = store
      BY <2>1, <3>1 DEF ReadRepository, ReadForUpload, ReadForConfirm, CheckObject, InsertModel,
         Reserve, Scripts
    <3> QED
      BY <2>1, <2>2, <3>1, <3>2 DEF Serve, Finish, Scripts
  <2>3. ASSUME NEW f \in Files, Notify(f) \/ LoseEvent(f) \/ Finish(<<f, "hook">>)
        PROVE  row' = row /\ store' = store
    BY <2>1, <2>3, IdTypes DEF Notify, LoseEvent, Finish
  <2>4. ASSUME NEW c \in Clients, GiveUp(c)
        PROVE  row' = row /\ store' = store
    BY <2>4 DEF GiveUp
  <2>5. DeleteRepository \/ UNCHANGED vars => row' = row /\ store' = store
    BY DEF DeleteRepository, vars
  <2> QED
    BY <2>1, <2>2, <2>3, <2>4, <2>5 DEF Next
<1> QED
  BY <1>2, <1>3, SameViews DEF ObjectOf

\* The versions of models behave as versions of an artifact, if every version has one file
\* name and no two have the same: each appears once, is never taken back, is READY only with
\* bytes, and is downloaded with what was uploaded for it, in whatever order transactions
\* are committed, lost and reported on.
THEOREM ModelsAreArtifacts ==
    ASSUME OwnFiles, OneName PROVE Spec => VersionsAreArtifacts
<1>1. Init => Models!Init
  BY DEF Init, Models!Init, Target, ObjectOf
<1>2. OwnFilesInvariant /\ [Next]_vars => [Models!Next]_(Models!versionVars)
  <2> SUFFICES ASSUME OwnFilesInvariant, [Next]_vars
               PROVE  Models!Next \/ UNCHANGED Models!versionVars
    OBVIOUS
  <2>1. ModelsInvariant
    BY DEF OwnFilesInvariant
  <2> QED
    BY <2>1, AskGives, PutStores, CommitViews, OthersView
<1> QED
  BY <1>1, <1>2, OwnFilesAlways, PTL DEF Spec, VersionsAreArtifacts, Models!Spec
=============================================================================
