----------------------- MODULE ArtifactRegistryProofs -----------------------
(***************************************************************************)
(* The tokens of the artifact registry, for any number of concurrent         *)
(* requests and token names.                                                *)
(*                                                                         *)
(* The argument: a token that a configuration names, whether committed, read*)
(* or about to be stored, is live, and no request can end it.  Gitea creates*)
(* no token under a name in use, so a live token is never replaced; and only*)
(* a token whose name a user can choose is revoked, which the proxy token's *)
(* is not.                                                                  *)
(*                                                                         *)
(* A request that is served alone finds the password it has set, and what   *)
(* Gitea and the row keep of earlier requests is what those committed, or   *)
(* broke over.  What the row lists of a token differs from Gitea by what the*)
(* one request that has changed it will record; a commit leaves every other *)
(* request behind, so that of two such requests the second to commit goes by*)
(* a configuration that was replaced.                                       *)
(***************************************************************************)
EXTENDS ArtifactRegistry, TLAPS

\* The proxy token of a configuration is live and not one that users name.
Works(c) ==
    /\ c.proxy \in Token
    /\ c.proxy[1] \notin Names
    /\ live[c.proxy[1]] = c.proxy[2]

\* What a request goes by works, what it is about to store is live, and it manages tokens
\* that users name.
Sound(r) ==
    /\ req[r].seen # NoConfig => Works(req[r].seen)
    /\ req[r].at = "store" => live[ProxyName(r)] = r
    /\ req[r].kind = "create" /\ req[r].at \in Working => req[r].name \in Names
    /\ req[r].at \in {"password", "call", "record"} =>
         /\ req[r].kind \in {"create", "revoke"}
         /\ req[r].name \in Names
         /\ req[r].seen # NoConfig

RegistryInv ==
    /\ TypeOK
    /\ config # NoConfig => Works(config)
    /\ \A r \in Requests : Sound(r)

-----------------------------------------------------------------------------
(* Types.                                                                  *)

LEMMA NoConfigType == NoConfig \in Config
  BY DEF NoConfig, Config, NoTokens

LEMMA InitTypeOK == Init => TypeOK
<1> SUFFICES ASSUME Init PROVE TypeOK
  OBVIOUS
<1>1. config \in Config
  <2>1. CASE config = NoConfig
    BY <2>1, NoConfigType
  <2>2. CASE config # NoConfig
    BY <2>2 DEF Init, Config, Token, TokenNames, Makers
  <2> QED
    BY <2>1, <2>2
<1>2. Idle \in Request
  BY NoConfigType DEF Idle, Request, Kinds
<1>3. req \in [Requests -> Request]
  BY <1>2 DEF Init
<1>4. live \in [TokenNames -> Makers \union {None}] /\ password \in Makers \union {None}
  BY DEF Init, Makers
<1> QED
  BY <1>1, <1>3, <1>4, RegistryAssumption DEF RegistryAssumption, Init, TypeOK

\* A request's new record, of any step but Begin, keeps what the request is for.
Successor(r, rec) ==
    /\ rec \in Request
    /\ req' = [req EXCEPT ![r] = rec]

LEMMA ToType ==
    ASSUME TypeOK, NEW r \in Requests,
           NEW stage \in Working \union Ended, To(r, stage)
    PROVE  Successor(r, [req[r] EXCEPT !.at = stage])
  BY DEF TypeOK, To, Successor, Request

LEMMA EndType ==
    ASSUME TypeOK, NEW r \in Requests, NEW how \in Ended, End(r, how)
    PROVE  Successor(r, [req[r] EXCEPT !.at = how, !.wrote = FALSE, !.seen = NoConfig])
  BY NoConfigType DEF TypeOK, End, Successor, Request

LEMMA RefuseType ==
    ASSUME TypeOK, NEW r \in Requests, Refuse(r)
    PROVE  Successor(r, [Idle EXCEPT !.at = "refused"])
  BY NoConfigType DEF TypeOK, Refuse, Successor, Request, Idle, Kinds, Ended

\* What a step does to what all requests share keeps its types.
SharedTypeOK ==
    /\ config \in Config
    /\ password \in Makers \union {None}
    /\ live \in [TokenNames -> Makers \union {None}]
    /\ met \subseteq Requests /\ behind \subseteq Requests
    /\ faults \in 0..MaxFaults

LEMMA SuccessorTypeOK ==
    ASSUME TypeOK, NEW r \in Requests, NEW rec, Successor(r, rec), SharedTypeOK'
    PROVE  TypeOK'
  BY DEF TypeOK, Successor, SharedTypeOK

-----------------------------------------------------------------------------
(* Tokens.                                                                 *)

\* What is live under names that users do not choose stays so.
LiveStays ==
    \A n \in TokenNames \ Names : live[n] # None => live'[n] = live[n]

\* A request makes a token only under a name not in use ...
LEMMA CreateStep ==
    ASSUME TypeOK, NEW r \in Requests, NEW n \in TokenNames, NEW next \in Working,
           CreateToken(r, n, next)
    PROVE  /\ live' \in [TokenNames -> Makers \union {None}]
           /\ LiveStays
           /\ \/ To(r, next) /\ live'[n] = r
              \/ End(r, "gitea") /\ UNCHANGED live
<1>1. CASE live' = [live EXCEPT ![n] = r] /\ To(r, next) /\ live[n] = None
  BY <1>1 DEF TypeOK, Makers, LiveStays
<1>2. CASE End(r, "gitea") /\ UNCHANGED live
  BY <1>2 DEF TypeOK, LiveStays
<1> QED
  BY <1>1, <1>2 DEF CreateToken

\* ... and revokes only those of names that users choose.
LEMMA RevokeStep ==
    ASSUME TypeOK, NEW r \in Requests, req[r].name \in Names, RevokeToken(r)
    PROVE  /\ live' \in [TokenNames -> Makers \union {None}]
           /\ LiveStays
           /\ \/ To(r, "record")
              \/ End(r, "gitea")
              \/ Refuse(r)
<1> DEFINE n == req[r].name
<1>1. CASE live' = [live EXCEPT ![n] = None] /\ To(r, "record")
  BY <1>1 DEF TypeOK, LiveStays
<1>2. CASE UNCHANGED live /\ (End(r, "gitea") \/ Refuse(r))
  BY <1>2 DEF TypeOK, LiveStays
<1> QED
  BY <1>1, <1>2 DEF RevokeToken

\* A configuration that works goes on working.
LEMMA WorksStays ==
    ASSUME TypeOK, LiveStays, NEW c, Works(c)
    PROVE  Works(c)'
<1>1. /\ c.proxy[1] \in TokenNames \ Names
      /\ c.proxy[2] \in Makers
  BY DEF Works, Token
<1>2. live[c.proxy[1]] # None
  BY <1>1, RegistryAssumption DEF Works, RegistryAssumption, Makers
<1> QED
  BY <1>1, <1>2 DEF Works, LiveStays

\* The name of a new proxy token is not one that users choose.
LEMMA ProxyNames ==
    ASSUME NEW r \in Requests
    PROVE  ProxyName(r) \in TokenNames \ Names
  BY RegistryAssumption DEF RegistryAssumption, ProxyName, TokenNames

\* The records of the other requests stay sound.
LEMMA OthersStaySound ==
    ASSUME RegistryInv, LiveStays, NEW r \in Requests, NEW rec, Successor(r, rec),
           NEW q \in Requests \ {r}
    PROVE  Sound(q)'
<1>1. req'[q] = req[q] /\ Sound(q)
  BY DEF RegistryInv, TypeOK, Successor
<1>2. ProxyName(q)' = ProxyName(q)
  BY <1>1 DEF ProxyName
<1>3. PICK c : c = req[q].seen
  OBVIOUS
<1>4. c # NoConfig => Works(c)'
  BY <1>1, <1>3, WorksStays DEF RegistryInv, Sound
<1>5. req[q].at = "store" => live'[ProxyName(q)] = q
  BY <1>1, ProxyNames, RegistryAssumption DEF RegistryAssumption, Sound, LiveStays
<1> QED
  BY <1>1, <1>2, <1>3, <1>4, <1>5 DEF Sound, Works

-----------------------------------------------------------------------------
(* The invariant.                                                          *)

LEMMA InitInv == Init => RegistryInv
<1> SUFFICES ASSUME Init PROVE RegistryInv
  OBVIOUS
<1>1. config # NoConfig => Works(config)
  BY RegistryAssumption DEF RegistryAssumption, Init, Works, Token, TokenNames, Makers
<1>2. ASSUME NEW r \in Requests PROVE Sound(r)
  <2>1. req[r] = Idle
    BY DEF Init
  <2> QED
    BY <2>1 DEF Sound, Idle, Working
<1> QED
  BY <1>1, <1>2, InitTypeOK DEF RegistryInv

\* A step of one request that leaves its record sound, live tokens live, and the
\* configuration as it was or as the request has it.
LEMMA StepInv ==
    ASSUME RegistryInv, NEW r \in Requests, NEW rec, Successor(r, rec),
           SharedTypeOK', LiveStays, Sound(r)',
           \/ config' = config
           \/ config' = req[r].seen
    PROVE  RegistryInv'
<1>1. TypeOK'
  BY SuccessorTypeOK DEF RegistryInv
<1>2. \A q \in Requests : Sound(q)'
  BY OthersStaySound
<1>3. config' # NoConfig => Works(config)'
  <2>1. PICK c : c = config'
    OBVIOUS
  <2>2. c # NoConfig => Works(c)
    BY <2>1 DEF RegistryInv, Sound
  <2>3. c # NoConfig => Works(c)'
    BY <2>2, WorksStays DEF RegistryInv
  <2> QED
    BY <2>1, <2>3 DEF Works
<1> QED
  BY <1>1, <1>2, <1>3 DEF RegistryInv

\* A step that only takes a request to its next stage.
LEMMA MoveInv ==
    ASSUME RegistryInv, NEW r \in Requests, NEW stage \in Working \union Ended, To(r, stage),
           req[r].at \in Working, SharedTypeOK', LiveStays, config' = config,
           stage = "store" => live'[ProxyName(r)] = r,
           stage \in {"password", "call", "record"} =>
               /\ req[r].kind \in {"create", "revoke"}
               /\ req[r].name \in Names
               /\ req[r].seen # NoConfig
    PROVE  RegistryInv'
<1> DEFINE rec == [req[r] EXCEPT !.at = stage]
<1>1. Successor(r, rec)
  BY ToType DEF RegistryInv
<1>2. /\ req[r] \in Request
      /\ req'[r].at = stage /\ req'[r].kind = req[r].kind /\ req'[r].name = req[r].name
      /\ req'[r].seen = req[r].seen
  BY <1>1 DEF RegistryInv, TypeOK, Successor, Request
<1>3. PICK c : c = req[r].seen
  OBVIOUS
<1>4. c # NoConfig => Works(c)'
  BY <1>3, WorksStays DEF RegistryInv, Sound
<1>5. ProxyName(r)' = ProxyName(r)
  BY <1>2 DEF ProxyName
<1>6. Sound(r)'
  BY <1>2, <1>3, <1>4, <1>5 DEF RegistryInv, Sound, Works
<1> QED
  BY <1>1, <1>6, StepInv

\* A step with which a request ends.
LEMMA EndInv ==
    ASSUME RegistryInv, NEW r \in Requests, NEW how \in Ended,
           End(r, how) \/ Refuse(r),
           SharedTypeOK', LiveStays,
           \/ config' = config
           \/ config' = req[r].seen
    PROVE  RegistryInv'
<1>1. PICK rec \in Request : /\ Successor(r, rec)
                             /\ rec.at \in Ended /\ rec.seen = NoConfig
  <2>1. CASE End(r, how)
    <3> DEFINE rec == [req[r] EXCEPT !.at = how, !.wrote = FALSE, !.seen = NoConfig]
    <3>1. Successor(r, rec)
      BY <2>1, EndType DEF RegistryInv
    <3>2. req[r] \in Request
      BY DEF RegistryInv, TypeOK
    <3>3. rec.at = how /\ rec.seen = NoConfig
      BY <3>2 DEF Request
    <3> HIDE DEF rec
    <3> QED
      BY <3>1, <3>3 DEF Successor
  <2>2. CASE Refuse(r)
    <3> DEFINE rec == [Idle EXCEPT !.at = "refused"]
    <3>1. Successor(r, rec)
      BY <2>2, RefuseType DEF RegistryInv
    <3>2. rec.at = "refused" /\ rec.seen = NoConfig
      BY DEF Idle
    <3> HIDE DEF rec
    <3> QED
      BY <3>1, <3>2 DEF Successor, Ended
  <2> QED
    BY <2>1, <2>2
<1>2. req'[r] = rec
  BY <1>1 DEF Successor, RegistryInv, TypeOK
<1>3. Sound(r)'
  BY <1>1, <1>2 DEF Sound, Ended, Working
<1> QED
  BY <1>1, <1>3, StepInv

\* A configuration that works is one.
LEMMA WorkingConfig ==
    ASSUME NEW c \in Config, Works(c)
    PROVE  c # NoConfig
  BY RegistryAssumption DEF RegistryAssumption, NoConfig, Works

\* Where a request with a configuration goes on.
LEMMA PurposeStage ==
    ASSUME RegistryInv, NEW r \in Requests, req[r].at \in Working
    PROVE  /\ Purpose(r) \in Working \ {"store"}
           /\ Purpose(r) \in {"password", "call", "record"} =>
                /\ req[r].kind \in {"create", "revoke"}
                /\ req[r].name \in Names
<1>1. req[r].kind \in Kinds /\ Sound(r)
  BY DEF RegistryInv, TypeOK, Request
<1>2. CASE req[r].kind = "revoke"
  BY <1>2 DEF Purpose, Reserved, Working
<1>3. CASE req[r].kind # "revoke"
  BY <1>1, <1>3 DEF Purpose, Kinds, Sound, Working
<1> QED
  BY <1>2, <1>3

\* A step with which a request writes a configuration that works.
LEMMA UpsertInv ==
    ASSUME RegistryInv, NEW r \in Requests, req[r].at \in Working,
           NEW c \in Config, Works(c),
           NEW next \in Working \ {"store"}, Upsert(r, c, next),
           next \in {"password", "call", "record"} =>
               /\ req[r].kind \in {"create", "revoke"}
               /\ req[r].name \in Names
    PROVE  RegistryInv'
<1> DEFINE rec == [req[r] EXCEPT !.at = next, !.seen = c, !.wrote = TRUE]
<1>1. req[r] \in Request
  BY DEF RegistryInv, TypeOK
<1>2. Successor(r, rec)
  BY <1>1 DEF Upsert, Successor, Request
<1>3. SharedTypeOK' /\ LiveStays
  BY DEF Upsert, RegistryInv, TypeOK, SharedTypeOK, LiveStays
<1>4. /\ req'[r].at = next /\ req'[r].kind = req[r].kind /\ req'[r].name = req[r].name
      /\ req'[r].seen = c
  BY <1>1, <1>2 DEF RegistryInv, TypeOK, Successor, Request
<1>5. Works(c)' /\ c # NoConfig
  BY <1>3, WorksStays, WorkingConfig DEF RegistryInv
<1>6. Sound(r)'
  BY <1>4, <1>5 DEF RegistryInv, Sound, Works
<1>7. config' = config
  BY DEF Upsert
<1> QED
  BY <1>2, <1>3, <1>6, <1>7, StepInv

LEMMA BeginInv ==
    ASSUME RegistryInv, NEW r \in Requests, Begin(r)
    PROVE  RegistryInv'
<1>1. /\ req[r] \in Request
      /\ Active \subseteq Requests /\ met \subseteq Requests
  BY DEF RegistryInv, TypeOK, Active
<1>2. SharedTypeOK' /\ LiveStays
  BY <1>1 DEF Begin, RegistryInv, TypeOK, SharedTypeOK, LiveStays
<1>3. config' = config
  BY DEF Begin
<1>4. CASE Refuse(r)
  BY <1>2, <1>3, <1>4, EndInv DEF Ended
<1>5. ASSUME NEW k \in Kinds, NEW n \in Names \union {Proxy}, k = "create" => n \in Names,
             req' = [req EXCEPT ![r].kind = k, ![r].name = n, ![r].at = "read"]
      PROVE  RegistryInv'
  <2> DEFINE rec == [req[r] EXCEPT !.kind = k, !.name = n, !.at = "read"]
  <2>1. Successor(r, rec)
    BY <1>1, <1>5 DEF Successor, Request, Working
  <2>2. /\ req'[r].at = "read" /\ req'[r].kind = k /\ req'[r].name = n
        /\ req'[r].seen = req[r].seen
    BY <1>1, <2>1 DEF RegistryInv, TypeOK, Successor, Request
  <2>3. PICK c : c = req[r].seen
    OBVIOUS
  <2>4. c # NoConfig => Works(c)'
    BY <1>2, <2>3, WorksStays DEF RegistryInv, Sound
  <2>5. Sound(r)'
    BY <1>5, <2>2, <2>3, <2>4 DEF Sound, Works
  <2> QED
    BY <1>2, <1>3, <2>1, <2>5, StepInv
<1> QED
  BY <1>4, <1>5 DEF Begin, Reserved

LEMMA ReadConfigInv ==
    ASSUME RegistryInv, NEW r \in Requests, ReadConfig(r)
    PROVE  RegistryInv'
<1>1. SharedTypeOK' /\ LiveStays /\ config' = config
  BY DEF ReadConfig, RegistryInv, TypeOK, SharedTypeOK, LiveStays
<1>2. req[r] \in Request /\ req[r].at \in Working
  BY DEF ReadConfig, RegistryInv, TypeOK, Working
<1>3. CASE To(r, "ensure")
  BY <1>1, <1>2, <1>3, MoveInv DEF Working
<1>4. CASE Refuse(r)
  BY <1>1, <1>4, EndInv DEF Ended
<1>5. ASSUME NEW stage \in {"reset", Purpose(r)}, config # NoConfig,
             req' = [req EXCEPT ![r].seen = config, ![r].at = stage]
      PROVE  RegistryInv'
  <2>1. PICK c : c = config
    OBVIOUS
  <2>2. c \in Config /\ c # NoConfig /\ Works(c)
    BY <1>5, <2>1 DEF RegistryInv, TypeOK
  <2> DEFINE rec == [req[r] EXCEPT !.seen = c, !.at = stage]
  <2>3. /\ stage \in Working \ {"store"}
        /\ stage \in {"password", "call", "record"} =>
             /\ req[r].kind \in {"create", "revoke"}
             /\ req[r].name \in Names
    BY <1>2, <1>5, PurposeStage DEF Working
  <2>4. Successor(r, rec)
    <3>1. rec \in Request
      BY <1>2, <2>2, <2>3 DEF Request
    <3>2. req' = [req EXCEPT ![r] = rec]
      BY <1>5, <2>1
    <3> QED
      BY <3>1, <3>2 DEF Successor
  <2>5. /\ req'[r].at = stage /\ req'[r].kind = req[r].kind /\ req'[r].name = req[r].name
        /\ req'[r].seen = c
    BY <1>2, <2>4 DEF RegistryInv, TypeOK, Successor, Request
  <2>6. Works(c)'
    BY <1>1, <2>2, WorksStays DEF RegistryInv
  <2>7. Sound(r)'
    BY <1>2, <2>2, <2>3, <2>5, <2>6 DEF RegistryInv, Sound, Works
  <2> QED
    BY <1>1, <2>4, <2>7, StepInv
<1> QED
  BY <1>3, <1>4, <1>5 DEF ReadConfig

\* The steps that change neither the row nor the tokens, but those above.
LEMMA PlainInv ==
    ASSUME RegistryInv, NEW r \in Requests,
           \/ EnsureUser(r) \/ PostUser(r) \/ ResetPassword(r) \/ RefuseReserved(r)
           \/ ListImages(r) \/ FindImage(r) \/ CheckName(r) \/ InsertDeployment(r)
    PROVE  RegistryInv'
<1>1. LiveStays /\ config' = config /\ req[r].at \in Working
  BY DEF EnsureUser, PostUser, ResetPassword, RefuseReserved, ListImages, FindImage,
         CheckName, InsertDeployment, LiveStays, Working
<1>2. password' \in Makers \union {None}
  BY DEF EnsureUser, PostUser, ResetPassword, RefuseReserved, ListImages, FindImage,
         CheckName, InsertDeployment, RegistryInv, TypeOK, Makers
<1>3. SharedTypeOK'
  BY <1>2 DEF EnsureUser, PostUser, ResetPassword, RefuseReserved, ListImages, FindImage,
         CheckName, InsertDeployment, RegistryInv, TypeOK, SharedTypeOK
<1>4. CASE \/ Refuse(r)
           \/ End(r, "gitea")
  BY <1>1, <1>3, <1>4, EndInv DEF Ended
<1>5. ASSUME NEW stage \in Working \ {"store", "password", "call", "record"}, To(r, stage)
      PROVE  RegistryInv'
  BY <1>1, <1>3, <1>5, MoveInv
<1>6. CASE EnsureUser(r)
  BY <1>5, <1>6 DEF EnsureUser, Working
<1>7. CASE PostUser(r)
  BY <1>5, <1>7 DEF PostUser, Working
<1>8. CASE ResetPassword(r)
  <2>1. CASE To(r, "proxy")
    BY <1>5, <2>1 DEF Working
  <2>2. CASE To(r, "call") /\ req[r].at = "password"
    BY <1>1, <1>3, <2>2, MoveInv DEF RegistryInv, Sound, Working
  <2> QED
    BY <1>8, <2>1, <2>2 DEF ResetPassword
<1>9. CASE RefuseReserved(r)
  BY <1>4, <1>9 DEF RefuseReserved
<1>10. CASE ListImages(r)
  BY <1>4, <1>5, <1>10 DEF ListImages, Working
<1>11. CASE FindImage(r)
  BY <1>4, <1>5, <1>11 DEF FindImage, Working
<1>12. CASE CheckName(r)
  BY <1>4, <1>5, <1>12 DEF CheckName, Working
<1>13. CASE InsertDeployment(r)
  BY <1>4, <1>5, <1>13 DEF InsertDeployment, Working
<1> QED
  BY <1>6, <1>7, <1>8, <1>9, <1>10, <1>11, <1>12, <1>13

LEMMA TokenInv ==
    ASSUME RegistryInv, NEW r \in Requests, CreateProxyToken(r) \/ CallGitea(r)
    PROVE  RegistryInv'
<1>1. TypeOK /\ Sound(r) /\ req[r].at \in Working
  BY DEF CreateProxyToken, CallGitea, RegistryInv, Working
<1>2. live' \in [TokenNames -> Makers \union {None}] => SharedTypeOK'
  BY <1>1 DEF CreateProxyToken, CallGitea, TypeOK, SharedTypeOK
<1>3. config' = config
  BY DEF CreateProxyToken, CallGitea
<1>4. CASE CreateProxyToken(r)
  <2>1. ProxyName(r) \in TokenNames
    BY ProxyNames
  <2>2. /\ live' \in [TokenNames -> Makers \union {None}]
        /\ LiveStays
        /\ \/ To(r, "store") /\ live'[ProxyName(r)] = r
           \/ End(r, "gitea") /\ UNCHANGED live
    BY <1>1, <1>4, <2>1, CreateStep DEF CreateProxyToken, Working
  <2>3. CASE To(r, "store") /\ live'[ProxyName(r)] = r
    BY <1>1, <1>2, <1>3, <2>2, <2>3, MoveInv DEF Working
  <2>4. CASE End(r, "gitea")
    BY <1>2, <1>3, <2>2, <2>4, EndInv DEF Ended
  <2> QED
    BY <2>2, <2>3, <2>4
<1>5. CASE CallGitea(r)
  <2>1. /\ req[r].kind \in {"create", "revoke"}
        /\ req[r].name \in Names
        /\ req[r].seen # NoConfig
    BY <1>1, <1>5 DEF CallGitea, Sound
  <2>2. /\ live' \in [TokenNames -> Makers \union {None}]
        /\ LiveStays
        /\ \/ To(r, "record")
           \/ End(r, "gitea")
           \/ Refuse(r)
    <3>1. CASE CreateToken(r, req[r].name, "record")
      BY <1>1, <2>1, <3>1, CreateStep DEF TokenNames, Working
    <3>2. CASE RevokeToken(r)
      BY <1>1, <2>1, <3>2, RevokeStep
    <3> QED
      BY <1>5, <3>1, <3>2 DEF CallGitea
  <2>3. CASE To(r, "record")
    BY <1>1, <1>2, <1>3, <2>1, <2>2, <2>3, MoveInv DEF Working
  <2>4. CASE \/ Refuse(r)
             \/ End(r, "gitea")
    BY <1>2, <1>3, <2>2, <2>4, EndInv DEF Ended
  <2> QED
    BY <2>2, <2>3, <2>4
<1> QED
  BY <1>4, <1>5

LEMMA WriteInv ==
    ASSUME RegistryInv, NEW r \in Requests, StoreProxyToken(r) \/ RecordToken(r)
    PROVE  RegistryInv'
<1>1. TypeOK /\ Sound(r) /\ req[r] \in Request /\ req[r].at \in Working
  BY DEF StoreProxyToken, RecordToken, RegistryInv, TypeOK, Working
<1>2. CASE StoreProxyToken(r)
  <2>1. PICK c : c = WithProxyToken(r)
    OBVIOUS
  <2>2. ProxyName(r) \in TokenNames \ Names
    BY ProxyNames
  <2>3. c \in Config
    BY <1>1, <2>1, <2>2 DEF WithProxyToken, Config, Token, Makers, Request
  <2>4. Works(c)
    BY <1>1, <1>2, <2>1, <2>2 DEF StoreProxyToken, WithProxyToken, Works, Sound, Token, Makers
  <2>5. Upsert(r, c, Purpose(r))
    BY <1>2, <2>1 DEF StoreProxyToken
  <2> QED
    BY <1>1, <2>3, <2>4, <2>5, PurposeStage, UpsertInv
<1>3. CASE RecordToken(r)
  <2> DEFINE entry == IF req[r].kind = "create" THEN r ELSE None
  <2>1. PICK c : c = [req[r].seen EXCEPT !.listed[req[r].name] = entry]
    OBVIOUS
  <2>2. /\ req[r].seen \in Config /\ Works(req[r].seen)
        /\ req[r].name \in Names /\ entry \in Makers \union {None}
    BY <1>1, <1>3 DEF RecordToken, Sound, Request, Makers
  <2>3. c \in Config /\ c.proxy = req[r].seen.proxy
    BY <2>1, <2>2 DEF Config
  <2>4. Works(c)
    BY <2>2, <2>3 DEF Works
  <2>5. Upsert(r, c, "done")
    BY <1>3, <2>1 DEF RecordToken
  <2> QED
    BY <1>1, <2>3, <2>4, <2>5, UpsertInv DEF Working
<1> QED
  BY <1>2, <1>3

LEMMA FinishInv ==
    ASSUME RegistryInv, NEW r \in Requests, Commit(r) \/ Break(r)
    PROVE  RegistryInv'
<1>1. CASE Commit(r)
  <2>1. req[r].seen \in Config
    BY DEF RegistryInv, TypeOK, Request
  <2>2. /\ End(r, "committed") /\ LiveStays
        /\ config' = config \/ config' = req[r].seen
    BY <1>1 DEF Commit, LiveStays
  <2>3. Active \subseteq Requests
    BY DEF Active
  <2>4. SharedTypeOK'
    BY <1>1, <2>1, <2>2, <2>3 DEF Commit, RegistryInv, TypeOK, SharedTypeOK
  <2> QED
    BY <2>2, <2>4, EndInv DEF Ended
<1>2. CASE Break(r)
  <2>1. faults' \in 0..MaxFaults
    BY <1>2, RegistryAssumption DEF RegistryAssumption, Break, RegistryInv, TypeOK
  <2>2. SharedTypeOK' /\ LiveStays /\ config' = config /\ End(r, "broken")
    BY <1>2, <2>1 DEF Break, RegistryInv, TypeOK, SharedTypeOK, LiveStays
  <2> QED
    BY <2>2, EndInv DEF Ended
<1> QED
  BY <1>1, <1>2

LEMMA StutterInv == RegistryInv /\ UNCHANGED vars => RegistryInv'
  BY DEF RegistryInv, TypeOK, Sound, Works, ProxyName, vars

LEMMA NextInv == RegistryInv /\ [Next]_vars => RegistryInv'
<1> SUFFICES ASSUME RegistryInv, Next PROVE RegistryInv'
  BY StutterInv
<1>1. PICK r \in Requests : Begin(r) \/ Serve(r) \/ Break(r)
  BY DEF Next
<1> QED
  BY <1>1, BeginInv, ReadConfigInv, PlainInv, TokenInv, WriteInv, FinishInv DEF Serve

-----------------------------------------------------------------------------
(* The steps of a request, from its record s to its record t.              *)

\* The requests that are not r keep their records.
Becomes(r, at, kind, name, seen, wrote) ==
    /\ req'[r] \in Request
    /\ req'[r].at = at /\ req'[r].kind = kind /\ req'[r].name = name /\ req'[r].seen = seen
    /\ req'[r].wrote <=> wrote
    /\ \A q \in Requests \ {r} : req'[q] = req[q]

LEMMA ToBecomes ==
    ASSUME TypeOK, NEW r \in Requests, NEW stage \in Working \union Ended, To(r, stage)
    PROVE  Becomes(r, stage, req[r].kind, req[r].name, req[r].seen, req[r].wrote)
  BY DEF TypeOK, To, Becomes, Request

LEMMA EndBecomes ==
    ASSUME TypeOK, NEW r \in Requests, NEW how \in Ended, End(r, how)
    PROVE  Becomes(r, how, req[r].kind, req[r].name, NoConfig, FALSE)
  BY NoConfigType DEF TypeOK, End, Becomes, Request

LEMMA RefuseBecomes ==
    ASSUME TypeOK, NEW r \in Requests, Refuse(r)
    PROVE  Becomes(r, "refused", "list", Proxy, NoConfig, FALSE)
<1>1. Successor(r, [Idle EXCEPT !.at = "refused"])
  BY RefuseType
<1> QED
  BY <1>1 DEF TypeOK, Successor, Becomes, Idle

LEMMA UpsertBecomes ==
    ASSUME TypeOK, NEW r \in Requests, NEW c \in Config, NEW next \in Working, Upsert(r, c, next)
    PROVE  Becomes(r, next, req[r].kind, req[r].name, c, TRUE)
  BY DEF TypeOK, Upsert, Becomes, Request

\* The stage at which a request of this kind begins what it is for.
Fits(at, kind) ==
    \/ at = "done" /\ kind \in {"enable", "list"}
    \/ at \in {"password", "reserved"} /\ kind \in {"create", "revoke"}
    \/ at = "images" /\ kind = "images"
    \/ at = "image" /\ kind = "deploy"

LEMMA PurposeFits ==
    ASSUME TypeOK, NEW r \in Requests
    PROVE  Fits(Purpose(r), req[r].kind)
<1>1. req[r].kind \in Kinds
  BY DEF TypeOK, Request
<1>2. CASE req[r].kind = "revoke"
  BY <1>2 DEF Purpose, Fits
<1> QED
  BY <1>1, <1>2 DEF Purpose, Fits, Kinds

\* What a request records of its token.
Entry(r) == IF req[r].kind = "create" THEN r ELSE None

Keeps(s, t) == t.seen = s.seen /\ (t.wrote <=> s.wrote)

\* What each stage leads to.
Path(r, s, t) ==
    /\ s.at = "idle" =>
         \/ t.at = "refused"
         \/ t.at = "read" /\ Keeps(s, t)
    /\ s.at = "read" =>
         \/ t.at \in {"refused", "broken"}
         \/ t.at = "ensure" /\ s.kind = "enable" /\ config = NoConfig /\ Keeps(s, t)
         \/ /\ config # NoConfig /\ t.seen = config
            /\ t.at = "reset" \/ Fits(t.at, s.kind)
    /\ s.at = "ensure" =>
         \/ t.at = "broken"
         \/ t.at = "post" /\ password = None /\ password' = None /\ Keeps(s, t)
         \/ t.at = "reset" /\ Keeps(s, t)
    /\ s.at = "post" =>
         \/ t.at = "broken"
         \/ t.at = "proxy" /\ Keeps(s, t) /\ (password = None => password' = r)
    /\ s.at = "reset" =>
         \/ t.at = "broken"
         \/ t.at = "proxy" /\ Keeps(s, t) /\ password' = r
    /\ s.at = "password" =>
         \/ t.at = "broken"
         \/ t.at = "call" /\ Keeps(s, t) /\ password' = r
    /\ s.at = "proxy" =>
         \/ t.at = "broken"
         \/ t.at = "store" /\ Keeps(s, t)
         \/ t.at = "gitea" /\ (password # r \/ live[ProxyName(r)] # None)
    /\ s.at = "call" =>
         \/ t.at \in {"broken", "refused"}
         \/ t.at = "record" /\ Keeps(s, t)
         \/ t.at = "gitea" /\ (password # r \/ (s.kind = "create" /\ live[s.name] # None))
    /\ s.at = "store" =>
         \/ t.at = "broken"
         \/ /\ Fits(t.at, s.kind) /\ t.wrote
            /\ t.seen # NoConfig /\ t.seen.listed = s.seen.listed
    /\ s.at = "record" =>
         \/ t.at = "broken"
         \/ /\ t.at = "done" /\ t.wrote /\ t.seen # NoConfig
            /\ t.seen.listed = [s.seen.listed EXCEPT ![s.name] = Entry(r)]
    /\ s.at = "reserved" => t.at \in {"refused", "broken"}
    /\ s.at = "images" =>
         \/ t.at = "broken"
         \/ t.at = "done" /\ Keeps(s, t)
         \/ t.at = "gitea" /\ ~Authorized(r)
    /\ s.at = "image" =>
         \/ t.at \in {"refused", "broken"}
         \/ t.at = "name" /\ Keeps(s, t)
         \/ t.at = "gitea" /\ ~Authorized(r)
    /\ s.at = "name" =>
         \/ t.at \in {"refused", "broken"}
         \/ t.at = "insert" /\ Keeps(s, t)
    /\ s.at = "insert" =>
         \/ t.at \in {"refused", "broken"}
         \/ t.at = "done" /\ Keeps(s, t)
    /\ s.at = "done" => t.at \in {"committed", "broken"}

\* A step of a request, what it does to its record and to the shared state.
Turn(r, s, t) ==
    /\ t \in Request
    /\ s.at \in Working \union {"idle"}
    /\ s.at # "idle" /\ t.at # "refused" => t.kind = s.kind /\ t.name = s.name
    /\ t.at \in Ended => t.seen = NoConfig /\ ~t.wrote
    /\ Path(r, s, t)
    /\ \A q \in Requests \ {r} : req'[q] = req[q]
    /\ met' = IF s.at = "idle" /\ Active # {} THEN met \union Active \union {r} ELSE met
    /\ \/ config' = config /\ behind' = behind /\ ~(s.at = "done" /\ t.at = "committed" /\ s.wrote)
       \/ /\ s.at = "done" /\ t.at = "committed" /\ s.wrote
          /\ config' = s.seen
          /\ behind' = behind \union {q \in Active \ {r} : req[q].at # "read"}
    /\ \/ live' = live /\ t.at \notin {"store", "record"}
       \/ /\ s.at = "proxy" /\ t.at = "store"
          /\ live[ProxyName(r)] = None
          /\ live' = [live EXCEPT ![ProxyName(r)] = r]
       \/ /\ s.at = "call" /\ t.at = "record"
          /\ s.kind \in {"create", "revoke"} /\ s.name \in Names
          /\ live' = [live EXCEPT ![s.name] = Entry(r)]

Step(r) == Begin(r) \/ Serve(r) \/ Break(r)

LEMMA BeginTurn ==
    ASSUME RegistryInv, NEW r \in Requests, Begin(r)
    PROVE  Turn(r, req[r], req'[r])
<1>1. TypeOK /\ req[r] \in Request
  BY DEF RegistryInv, TypeOK
<1>2. /\ req[r].at = "idle"
      /\ met' = IF Active # {} THEN met \union Active \union {r} ELSE met
      /\ UNCHANGED <<config, password, live, behind, faults>>
  BY DEF Begin
<1>3. CASE Refuse(r)
  <2>1. Becomes(r, "refused", "list", Proxy, NoConfig, FALSE)
    BY <1>1, <1>3, RefuseBecomes
  <2> QED
    BY <1>2, <2>1 DEF Becomes, Turn, Path
<1>4. ASSUME NEW k \in Kinds, NEW n \in Names \union {Proxy},
             req' = [req EXCEPT ![r].kind = k, ![r].name = n, ![r].at = "read"]
      PROVE  Turn(r, req[r], req'[r])
  <2>1. Becomes(r, "read", k, n, req[r].seen, req[r].wrote)
    BY <1>1, <1>4 DEF TypeOK, Becomes, Request, Working
  <2> QED
    BY <1>2, <2>1 DEF Becomes, Turn, Path, Keeps, Ended
<1> QED
  BY <1>3, <1>4 DEF Begin

\* A step that leaves the configuration and the tokens as they were.
LEMMA QuietTurn ==
    ASSUME RegistryInv, NEW r \in Requests, req[r].at \in Working,
           req'[r] \in Request, \A q \in Requests \ {r} : req'[q] = req[q],
           req'[r].kind = req[r].kind, req'[r].name = req[r].name,
           req'[r].at \notin {"store", "record", "committed"},
           req'[r].at \in Ended => req'[r].seen = NoConfig /\ ~req'[r].wrote,
           UNCHANGED <<config, behind, met, live>>,
           Path(r, req[r], req'[r])
    PROVE  Turn(r, req[r], req'[r])
  BY DEF Turn, Working

LEMMA RefuseTurn ==
    ASSUME RegistryInv, NEW r \in Requests, Refuse(r),
           req[r].at \in {"read", "call", "reserved", "image", "name", "insert"},
           UNCHANGED <<config, behind, met, live>>
    PROVE  Turn(r, req[r], req'[r])
<1>1. Becomes(r, "refused", "list", Proxy, NoConfig, FALSE)
  BY RefuseBecomes DEF RegistryInv
<1> QED
  BY <1>1 DEF Becomes, Turn, Path, Working

LEMMA MoveTurn ==
    ASSUME RegistryInv, NEW r \in Requests, NEW stage \in Working \ {"store", "record"},
           To(r, stage), req[r].at \in Working,
           UNCHANGED <<config, behind, met, live>>,
           req'[r].at = stage /\ Keeps(req[r], req'[r]) => Path(r, req[r], req'[r])
    PROVE  Turn(r, req[r], req'[r])
<1>1. Becomes(r, stage, req[r].kind, req[r].name, req[r].seen, req[r].wrote)
  BY ToBecomes DEF RegistryInv
<1>2. req'[r].at = stage /\ Keeps(req[r], req'[r])
  BY <1>1 DEF Becomes, Keeps
<1> QED
  BY <1>1, <1>2, QuietTurn DEF Becomes, Working, Ended

LEMMA GiteaTurn ==
    ASSUME RegistryInv, NEW r \in Requests, End(r, "gitea"), req[r].at \in Working,
           UNCHANGED <<config, behind, met, live>>,
           req'[r].at = "gitea" => Path(r, req[r], req'[r])
    PROVE  Turn(r, req[r], req'[r])
<1>1. Becomes(r, "gitea", req[r].kind, req[r].name, NoConfig, FALSE)
  BY EndBecomes DEF RegistryInv, Ended
<1>2. req'[r].at = "gitea"
  BY <1>1 DEF Becomes
<1> QED
  BY <1>1, <1>2, QuietTurn DEF Becomes

LEMMA ReadConfigTurn ==
    ASSUME RegistryInv, NEW r \in Requests, ReadConfig(r)
    PROVE  Turn(r, req[r], req'[r])
<1>1. /\ TypeOK /\ req[r] \in Request /\ req[r].at = "read"
      /\ UNCHANGED <<config, password, live, met, behind, faults>>
  BY DEF ReadConfig, RegistryInv, TypeOK
<1>2. CASE config = NoConfig /\ req[r].kind = "enable" /\ To(r, "ensure")
  BY <1>1, <1>2, MoveTurn DEF Working, Path
<1>3. CASE Refuse(r)
  BY <1>1, <1>3, RefuseTurn
<1>4. ASSUME NEW stage \in {"reset", Purpose(r)}, config # NoConfig,
             req' = [req EXCEPT ![r].seen = config, ![r].at = stage]
      PROVE  Turn(r, req[r], req'[r])
  <2>1. stage = "reset" \/ Fits(stage, req[r].kind)
    BY <1>1, PurposeFits
  <2>2. stage \in Working \ {"store", "record", "committed"} /\ stage \notin Ended
    BY <2>1 DEF Fits, Working, Ended
  <2>3. Becomes(r, stage, req[r].kind, req[r].name, config, req[r].wrote)
    BY <1>1, <1>4, <2>2 DEF TypeOK, Becomes, Request
  <2>4. Path(r, req[r], req'[r])
    BY <1>1, <1>4, <2>1, <2>3 DEF Path, Becomes
  <2> QED
    BY <1>1, <2>2, <2>3, <2>4, QuietTurn DEF Becomes, Working
<1> QED
  BY <1>2, <1>3, <1>4 DEF ReadConfig

LEMMA PlainTurn ==
    ASSUME RegistryInv, NEW r \in Requests,
           \/ EnsureUser(r) \/ PostUser(r) \/ ResetPassword(r) \/ RefuseReserved(r)
           \/ ListImages(r) \/ FindImage(r) \/ CheckName(r) \/ InsertDeployment(r)
    PROVE  Turn(r, req[r], req'[r])
<1>1. req[r].at \in Working /\ UNCHANGED <<config, behind, met, live>>
  BY DEF EnsureUser, PostUser, ResetPassword, RefuseReserved, ListImages, FindImage,
         CheckName, InsertDeployment, Working
<1>2. CASE EnsureUser(r)
  <2>1. CASE password = None
    BY <1>1, <1>2, <2>1, MoveTurn DEF EnsureUser, Path, Working
  <2>2. CASE password # None
    BY <1>1, <1>2, <2>2, MoveTurn DEF EnsureUser, Path, Working
  <2> QED
    BY <2>1, <2>2
<1>3. CASE PostUser(r)
  BY <1>1, <1>3, MoveTurn DEF PostUser, Path, Working
<1>4. CASE ResetPassword(r)
  <2>1. CASE req[r].at = "reset" /\ To(r, "proxy")
    BY <1>1, <1>4, <2>1, MoveTurn DEF ResetPassword, Path, Working
  <2>2. CASE req[r].at = "password" /\ To(r, "call")
    BY <1>1, <1>4, <2>2, MoveTurn DEF ResetPassword, Path, Working
  <2> QED
    BY <1>4, <2>1, <2>2 DEF ResetPassword
<1>5. CASE RefuseReserved(r)
  BY <1>1, <1>5, RefuseTurn DEF RefuseReserved
<1>6. CASE ListImages(r)
  <2>1. CASE Authorized(r)
    BY <1>1, <1>6, <2>1, MoveTurn DEF ListImages, Path, Working
  <2>2. CASE ~Authorized(r)
    BY <1>1, <1>6, <2>2, GiteaTurn DEF ListImages, Path
  <2> QED
    BY <2>1, <2>2
<1>7. CASE FindImage(r)
  <2>1. CASE To(r, "name")
    BY <1>1, <1>7, <2>1, MoveTurn DEF FindImage, Path, Working
  <2>2. CASE Refuse(r)
    BY <1>1, <1>7, <2>2, RefuseTurn DEF FindImage
  <2>3. CASE ~Authorized(r) /\ End(r, "gitea")
    BY <1>1, <1>7, <2>3, GiteaTurn DEF FindImage, Path
  <2> QED
    BY <1>7, <2>1, <2>2, <2>3 DEF FindImage
<1>8. CASE CheckName(r)
  <2>1. CASE To(r, "insert")
    BY <1>1, <1>8, <2>1, MoveTurn DEF CheckName, Path, Working
  <2>2. CASE Refuse(r)
    BY <1>1, <1>8, <2>2, RefuseTurn DEF CheckName
  <2> QED
    BY <1>8, <2>1, <2>2 DEF CheckName
<1>9. CASE InsertDeployment(r)
  <2>1. CASE To(r, "done")
    BY <1>1, <1>9, <2>1, MoveTurn DEF InsertDeployment, Path, Working
  <2>2. CASE Refuse(r)
    BY <1>1, <1>9, <2>2, RefuseTurn DEF InsertDeployment
  <2> QED
    BY <1>9, <2>1, <2>2 DEF InsertDeployment
<1> QED
  BY <1>2, <1>3, <1>4, <1>5, <1>6, <1>7, <1>8, <1>9

LEMMA CreateProxyTokenTurn ==
    ASSUME RegistryInv, NEW r \in Requests, CreateProxyToken(r)
    PROVE  Turn(r, req[r], req'[r])
<1>1. /\ TypeOK /\ req[r].at = "proxy"
      /\ UNCHANGED <<config, password, met, behind, faults>>
  BY DEF CreateProxyToken, RegistryInv
<1>2. CASE password = r /\ live[ProxyName(r)] = None
  <2>1. To(r, "store") /\ live' = [live EXCEPT ![ProxyName(r)] = r]
    BY <1>2 DEF CreateProxyToken, CreateToken
  <2>2. Becomes(r, "store", req[r].kind, req[r].name, req[r].seen, req[r].wrote)
    BY <1>1, <2>1, ToBecomes DEF Working
  <2> QED
    BY <1>1, <1>2, <2>1, <2>2 DEF Becomes, Turn, Path, Keeps, Working, Ended
<1>3. CASE ~(password = r /\ live[ProxyName(r)] = None)
  BY <1>1, <1>3, GiteaTurn DEF CreateProxyToken, CreateToken, Path, Working
<1> QED
  BY <1>2, <1>3

LEMMA CallGiteaTurn ==
    ASSUME RegistryInv, NEW r \in Requests, CallGitea(r)
    PROVE  Turn(r, req[r], req'[r])
<1>1. /\ TypeOK /\ req[r].at = "call"
      /\ req[r].kind \in {"create", "revoke"} /\ req[r].name \in Names
      /\ UNCHANGED <<config, password, met, behind, faults>>
  BY DEF CallGitea, RegistryInv, Sound
<1>2. CASE To(r, "record") /\ live' = [live EXCEPT ![req[r].name] = Entry(r)]
  <2>1. Becomes(r, "record", req[r].kind, req[r].name, req[r].seen, req[r].wrote)
    BY <1>1, <1>2, ToBecomes DEF Working
  <2> QED
    BY <1>1, <1>2, <2>1 DEF Becomes, Turn, Path, Keeps, Working, Ended
<1>3. CASE /\ End(r, "gitea") /\ UNCHANGED live
           /\ password # r \/ (req[r].kind = "create" /\ live[req[r].name] # None)
  BY <1>1, <1>3, GiteaTurn DEF Path, Working
<1>4. CASE Refuse(r) /\ UNCHANGED live
  BY <1>1, <1>4, RefuseTurn
<1> QED
  BY <1>1, <1>2, <1>3, <1>4 DEF CallGitea, CreateToken, RevokeToken, Entry

LEMMA WriteTurn ==
    ASSUME RegistryInv, NEW r \in Requests, StoreProxyToken(r) \/ RecordToken(r)
    PROVE  Turn(r, req[r], req'[r])
<1>1. TypeOK /\ Sound(r) /\ req[r] \in Request /\ req[r].at \in Working
  BY DEF StoreProxyToken, RecordToken, RegistryInv, TypeOK, Working
<1>2. UNCHANGED <<config, behind, met, live>>
  BY DEF StoreProxyToken, RecordToken, Upsert
<1>3. CASE StoreProxyToken(r)
  <2>1. PICK c : c = WithProxyToken(r)
    OBVIOUS
  <2>2. ProxyName(r) \in TokenNames \ Names
    BY ProxyNames
  <2>3. c \in Config /\ c.listed = req[r].seen.listed /\ c.proxy \in Token
    BY <1>1, <2>1, <2>2 DEF WithProxyToken, Config, Token, Makers, Request
  <2>4. c # NoConfig
    BY <2>3, RegistryAssumption DEF RegistryAssumption, NoConfig
  <2>5. Fits(Purpose(r), req[r].kind)
    BY <1>1, PurposeFits
  <2>6. Purpose(r) \in Working \ {"store", "record", "committed"} /\ Purpose(r) \notin Ended
    BY <2>5 DEF Fits, Working, Ended
  <2>7. Upsert(r, c, Purpose(r)) /\ req[r].at = "store"
    BY <1>3, <2>1 DEF StoreProxyToken
  <2>8. Becomes(r, Purpose(r), req[r].kind, req[r].name, c, TRUE)
    BY <1>1, <2>3, <2>6, <2>7, UpsertBecomes
  <2>9. Path(r, req[r], req'[r])
    BY <2>3, <2>4, <2>5, <2>7, <2>8 DEF Becomes, Path
  <2> QED
    BY <1>1, <1>2, <2>6, <2>8, <2>9, QuietTurn DEF Becomes
<1>4. CASE RecordToken(r)
  <2>1. PICK c : c = [req[r].seen EXCEPT !.listed[req[r].name] = Entry(r)]
    OBVIOUS
  <2>2. /\ req[r].seen \in Config /\ Works(req[r].seen)
        /\ req[r].name \in Names /\ Entry(r) \in Makers \union {None}
    BY <1>1, <1>4 DEF RecordToken, Sound, Request, Makers, Entry
  <2>3. /\ c \in Config /\ c.proxy = req[r].seen.proxy
        /\ c.listed = [req[r].seen.listed EXCEPT ![req[r].name] = Entry(r)]
    BY <2>1, <2>2 DEF Config
  <2>4. c # NoConfig
    BY <2>2, <2>3, RegistryAssumption DEF RegistryAssumption, NoConfig, Works
  <2>5. Upsert(r, c, "done") /\ req[r].at = "record"
    BY <1>4, <2>1 DEF RecordToken, Entry
  <2>6. Becomes(r, "done", req[r].kind, req[r].name, c, TRUE)
    BY <1>1, <2>3, <2>5, UpsertBecomes DEF Working
  <2>7. Path(r, req[r], req'[r])
    BY <2>3, <2>4, <2>5, <2>6 DEF Becomes, Path
  <2> QED
    BY <1>1, <1>2, <2>6, <2>7, QuietTurn DEF Becomes, Ended
<1> QED
  BY <1>3, <1>4

LEMMA FinishTurn ==
    ASSUME RegistryInv, NEW r \in Requests, Commit(r) \/ Break(r)
    PROVE  Turn(r, req[r], req'[r])
<1>1. TypeOK
  BY DEF RegistryInv
<1>2. CASE Commit(r)
  <2>1. Becomes(r, "committed", req[r].kind, req[r].name, NoConfig, FALSE)
    BY <1>1, <1>2, EndBecomes DEF Commit, Ended
  <2> QED
    BY <1>2, <2>1 DEF Commit, Becomes, Turn, Path, Working
<1>3. CASE Break(r)
  <2>1. Becomes(r, "broken", req[r].kind, req[r].name, NoConfig, FALSE)
    BY <1>1, <1>3, EndBecomes DEF Break, Ended
  <2>2. Path(r, req[r], req'[r])
    BY <1>3, <2>1 DEF Break, Becomes, Path, Working
  <2> QED
    BY <1>3, <2>1, <2>2, QuietTurn DEF Break, Becomes
<1> QED
  BY <1>2, <1>3

LEMMA StepTurn ==
    ASSUME RegistryInv, NEW r \in Requests, Step(r)
    PROVE  Turn(r, req[r], req'[r])
  BY BeginTurn, ReadConfigTurn, PlainTurn, CreateProxyTokenTurn, CallGiteaTurn, WriteTurn,
     FinishTurn DEF Step, Serve

-----------------------------------------------------------------------------
(* Requests that are served alone.                                         *)

\* Where a request may be with what it has read, written and created.
Stage(r) ==
    /\ req[r].at \in {"idle", "read"} => req[r].seen = NoConfig
    /\ req[r].at \in {"ensure", "post"} => req[r].kind = "enable" /\ req[r].seen = NoConfig
    /\ req[r].at \in {"reset", "proxy", "store"} /\ req[r].seen = NoConfig => req[r].kind = "enable"
    /\ req[r].at \in {"images", "image"} => req[r].seen # NoConfig
    /\ req[r].at = "images" => req[r].kind = "images"
    /\ req[r].at \in {"image", "name", "insert"} => req[r].kind = "deploy"
    /\ req[r].at = "done" /\ req[r].kind \in {"create", "revoke"} => req[r].wrote
    /\ req[r].wrote => req[r].seen # NoConfig
    /\ live[r] # None => req[r].at \notin {"idle", "read", "ensure", "post", "reset", "proxy"}

\* The token was revoked at Gitea, whatever becomes of the request.
Revoked(n) ==
    \E q \in Requests : /\ req[q].kind = "revoke" /\ req[q].name = n
                        /\ req[q].at \in {"record", "done", "committed", "broken"}

EnableBroke == \E q \in Requests : req[q].kind = "enable" /\ req[q].at = "broken"

\* Why a request that is alone fails at Gitea.
Excused(r) ==
    \/ req[r].kind = "enable" /\ live[Proxy] # None /\ EnableBroke
    \/ /\ req[r].kind = "create" /\ req[r].name \in Names
       /\ live[req[r].name] # None \/ Revoked(req[r].name)

\* A request that is alone has the user's password and the configuration to itself.
Lone(r) ==
    /\ r \in Active => Active = {r}
    /\ req[r].at = "post" => password = None
    /\ req[r].at \in {"proxy", "call"} => password = r
    /\ req[r].at \in {"ensure", "post", "reset", "proxy"} /\ req[r].seen = NoConfig => config = NoConfig
    /\ req[r].at = "gitea" => Excused(r)

\* A proxy token of no configuration is that of an enable that has not committed.
Provision ==
    config = NoConfig /\ live[Proxy] # None =>
        \E q \in Requests : /\ req[q].kind = "enable"
                            /\ \/ req[q].at \in {"store", "broken"}
                               \/ req[q].at = "done" /\ req[q].wrote

AloneInv ==
    /\ RegistryInv
    /\ \A r \in Requests : Stage(r)
    /\ \A r \in Requests \ met : Lone(r)
    /\ Provision

\* Only a request itself gives the name it stands for, and only for a configuration it has.
LEMMA OwnTokens ==
    ASSUME RegistryInv, NEW r \in Requests, Turn(r, req[r], req'[r]), NEW q \in Requests
    PROVE  live'[q] # live[q] => q = r /\ req'[r].at = "store"
<1>1. live \in [TokenNames -> Makers \union {None}] /\ q \in TokenNames
      /\ q \notin Names /\ q # Proxy
  BY RegistryAssumption DEF RegistryAssumption, RegistryInv, TypeOK, TokenNames
<1> QED
  BY <1>1 DEF Turn, ProxyName

LEMMA StageStep ==
    ASSUME RegistryInv, NEW r \in Requests, Turn(r, req[r], req'[r]), NEW q \in Requests, Stage(q)
    PROVE  Stage(q)'
<1>1. Stage(q) /\ RegistryInv
  OBVIOUS
<1>2. CASE q # r
  <2>1. req'[q] = req[q] /\ live'[q] = live[q]
    BY <1>1, <1>2, OwnTokens DEF Turn
  <2> QED
    BY <1>1, <2>1 DEF Stage
<1>3. CASE q = r
  <2> DEFINE s == req[r]
             t == req'[r]
  <2>1. /\ Path(r, s, t)
        /\ s.at \in Working \union {"idle"} /\ t.at \in {"idle"} \union Working \union Ended
        /\ s.at # "idle" /\ t.at # "refused" => t.kind = s.kind
        /\ t.at \in Ended => t.seen = NoConfig /\ ~t.wrote
    BY DEF Turn, Request
  <2>2. Stage(r) /\ (live'[r] # live[r] => t.at = "store")
    BY <1>1, <1>3, OwnTokens
  <2>3. t.at \in {"idle", "read"} => t.seen = NoConfig
    BY <2>1, <2>2 DEF Path, Keeps, Fits, Stage, Working, Ended
  <2>4. t.at \in {"ensure", "post"} => t.kind = "enable" /\ t.seen = NoConfig
    BY <2>1, <2>2 DEF Path, Keeps, Fits, Stage, Working, Ended
  <2>5. t.at \in {"reset", "proxy", "store"} /\ t.seen = NoConfig => t.kind = "enable"
    BY <2>1, <2>2 DEF Path, Keeps, Fits, Stage, Working, Ended
  <2>6. t.at \in {"images", "image"} => t.seen # NoConfig
    BY <2>1, <2>2 DEF Path, Keeps, Fits, Stage, Working, Ended
  <2>7. /\ t.at = "images" => t.kind = "images"
        /\ t.at \in {"image", "name", "insert"} => t.kind = "deploy"
    BY <2>1, <2>2 DEF Path, Keeps, Fits, Stage, Working, Ended
  <2>8. t.at = "done" /\ t.kind \in {"create", "revoke"} => t.wrote
    BY <2>1, <2>2 DEF Path, Keeps, Fits, Stage, Working, Ended
  <2>9. t.wrote => t.seen # NoConfig
    BY <2>1, <2>2 DEF Path, Keeps, Fits, Stage, Working, Ended
  <2>10. live'[r] # None => t.at \notin {"idle", "read", "ensure", "post", "reset", "proxy"}
    BY <2>1, <2>2 DEF Path, Keeps, Fits, Stage, Working, Ended
  <2> QED
    BY <1>3, <2>3, <2>4, <2>5, <2>6, <2>7, <2>8, <2>9, <2>10 DEF Stage
<1> QED
  BY <1>2, <1>3

\* Requests that have ended, and those that have changed a token, remain what they are.
LEMMA Outcomes ==
    ASSUME RegistryInv, NEW r \in Requests, Turn(r, req[r], req'[r]), NEW q \in Requests
    PROVE  /\ req[q].at \in Ended => req'[q] = req[q]
           /\ req[q].at \in {"store", "record", "done"} =>
                /\ req'[q].kind = req[q].kind /\ req'[q].name = req[q].name
                /\ req[q].at = "store" => \/ req'[q] = req[q] \/ req'[q].at = "broken"
                                          \/ Fits(req'[q].at, req[q].kind) /\ req'[q].wrote
                /\ req[q].at = "record" => req'[q] = req[q] \/ req'[q].at \in {"done", "broken"}
                /\ req[q].at = "done" => req'[q] = req[q] \/ req'[q].at \in {"committed", "broken"}
  BY DEF Turn, Path, Working, Ended, Fits

LEMMA ProvisionStep ==
    ASSUME AloneInv, NEW r \in Requests, Turn(r, req[r], req'[r])
    PROVE  Provision'
<1> SUFFICES ASSUME config' = NoConfig, live'[Proxy] # None
             PROVE  \E q \in Requests : /\ req'[q].kind = "enable"
                                        /\ \/ req'[q].at \in {"store", "broken"}
                                           \/ req'[q].at = "done" /\ req'[q].wrote
  BY DEF Provision
<1>1. Stage(r) /\ RegistryInv /\ Provision
  BY DEF AloneInv
<1>2. config = NoConfig /\ ~(req[r].at = "done" /\ req'[r].at = "committed" /\ req[r].wrote)
  BY <1>1 DEF Turn, Stage
<1>3. CASE live[Proxy] # None
  <2>1. PICK q \in Requests : /\ req[q].kind = "enable"
                              /\ \/ req[q].at \in {"store", "broken"}
                                 \/ req[q].at = "done" /\ req[q].wrote
    BY <1>1, <1>2, <1>3 DEF Provision
  <2>2. CASE req[q].at = "broken"
    BY <1>1, <2>1, <2>2, Outcomes DEF Ended
  <2>3. CASE req[q].at = "store"
    BY <1>1, <2>1, <2>3, Outcomes DEF Fits
  <2>4. CASE req[q].at = "done" /\ req[q].wrote
    <3>1. CASE q = r
      BY <1>1, <1>2, <2>1, <2>4, <3>1, Outcomes
    <3>2. CASE q # r
      BY <2>1, <2>4, <3>2 DEF Turn
    <3> QED
      BY <3>1, <3>2
  <2> QED
    BY <2>1, <2>2, <2>3, <2>4
<1>4. CASE live[Proxy] = None
  <2>1. live \in [TokenNames -> Makers \union {None}] /\ Proxy \in TokenNames \ Names /\ r # Proxy
    BY <1>1, RegistryAssumption DEF RegistryAssumption, RegistryInv, TypeOK, TokenNames
  <2>2. req[r].at = "proxy" /\ req'[r].at = "store" /\ ProxyName(r) = Proxy
    BY <1>4, <2>1 DEF Turn
  <2>3. req[r].kind = "enable" /\ req'[r].kind = "enable"
    BY <1>1, <2>1, <2>2 DEF ProxyName, Stage, Turn
  <2> QED
    BY <2>2, <2>3
<1> QED
  BY <1>3, <1>4

\* What excuses a request goes on doing so.
LEMMA ExcusedStep ==
    ASSUME RegistryInv, NEW r \in Requests, Turn(r, req[r], req'[r]), LiveStays,
           NEW q \in Requests, req[q].at \in Ended, Excused(q)
    PROVE  Excused(q)'
<1>1. req'[q] = req[q]
  BY Outcomes
<1>2. EnableBroke => EnableBroke'
  BY Outcomes DEF EnableBroke, Ended
<1>3. live[Proxy] # None => live'[Proxy] # None
  BY RegistryAssumption DEF RegistryAssumption, LiveStays, TokenNames
<1>4. ASSUME NEW n \in Names, Revoked(n)
      PROVE  Revoked(n)'
  <2>1. PICK x \in Requests : /\ req[x].kind = "revoke" /\ req[x].name = n
                              /\ req[x].at \in {"record", "done", "committed", "broken"}
    BY <1>4 DEF Revoked
  <2>2. CASE req[x].at \in {"record", "done"}
    BY <2>1, <2>2, Outcomes DEF Revoked
  <2>3. CASE req[x].at \in {"committed", "broken"}
    BY <2>1, <2>3, Outcomes DEF Revoked, Ended
  <2> QED
    BY <2>1, <2>2, <2>3
<1>5. ASSUME NEW n \in Names, live[n] # None, live'[n] = None
      PROVE  Revoked(n)'
  <2>1. live \in [TokenNames -> Makers \union {None}] /\ n \in TokenNames
        /\ r # None /\ ProxyName(r) # n
    BY ProxyNames, RegistryAssumption DEF RegistryAssumption, RegistryInv, TypeOK, TokenNames
  <2>2. /\ req[r].at = "call" /\ req'[r].at = "record" /\ req[r].name = n
        /\ req[r].kind \in {"create", "revoke"} /\ Entry(r) = None
    BY <1>5, <2>1 DEF Turn
  <2>3. req'[r].kind = "revoke" /\ req'[r].name = n
    BY <2>1, <2>2 DEF Turn, Entry
  <2> QED
    BY <2>2, <2>3 DEF Revoked
<1> QED
  BY <1>1, <1>2, <1>3, <1>4, <1>5 DEF Excused

\* A request that is alone goes on alone ...
LEMMA LoneStep ==
    ASSUME AloneInv, NEW r \in Requests, Turn(r, req[r], req'[r]), LiveStays, r \notin met'
    PROVE  Lone(r)'
<1> DEFINE s == req[r]
           t == req'[r]
<1>1. /\ RegistryInv /\ Stage(r) /\ Provision /\ r \notin met /\ Lone(r) /\ Sound(r)
      /\ s.at = "idle" => Active = {}
  BY DEF AloneInv, RegistryInv, Turn
<1>2. /\ Path(r, s, t)
      /\ s.at \in Working \union {"idle"} /\ t.at \in {"idle"} \union Working \union Ended
      /\ s.at # "idle" /\ t.at # "refused" => t.kind = s.kind /\ t.name = s.name
      /\ t.at \in Ended => t.seen = NoConfig /\ ~t.wrote
      /\ \A q \in Requests \ {r} : req'[q] = req[q]
  BY DEF Turn, Request
<1>3. Active \subseteq {r}
  BY <1>1, <1>2 DEF Lone, Active
<1>4. (r \in Active => Active = {r})'
  BY <1>2, <1>3 DEF Active
<1>5. t.at = "post" => password' = None
  BY <1>2, <1>1 DEF Path, Fits, Working, Ended
<1>6. t.at \in {"proxy", "call"} => password' = r
  BY <1>1, <1>2 DEF Path, Fits, Lone, Working, Ended
<1>7. t.at \in {"ensure", "post", "reset", "proxy"} /\ t.seen = NoConfig => config' = NoConfig
  <2>1. t.at \in {"ensure", "post", "reset", "proxy"} => config' = config
    BY DEF Turn
  <2> QED
    BY <1>1, <1>2, <2>1 DEF Path, Fits, Keeps, Lone, Working, Ended
<1>8. ASSUME t.at = "gitea" PROVE Excused(r)'
  <2>1. live' = live /\ t.kind = s.kind /\ t.name = s.name
    BY <1>2, <1>8 DEF Turn, Path, Working
  <2>2. CASE s.at = "proxy"
    <3>1. live[ProxyName(r)] # None
      BY <1>1, <1>2, <1>8, <2>2 DEF Path, Lone
    <3>2. s.seen = NoConfig /\ live[Proxy] # None
      BY <1>1, <2>2, <3>1 DEF ProxyName, Stage
    <3>3. s.kind = "enable" /\ config = NoConfig
      BY <1>1, <2>2, <3>2 DEF Stage, Lone
    <3>4. PICK q \in Requests : /\ req[q].kind = "enable"
                                /\ \/ req[q].at \in {"store", "broken"}
                                   \/ req[q].at = "done" /\ req[q].wrote
      BY <1>1, <3>2, <3>3 DEF Provision
    <3>5. req[q].at = "broken"
      BY <1>3, <2>2, <3>4 DEF Active, Working
    <3>6. EnableBroke'
      BY <1>1, <3>4, <3>5, Outcomes DEF EnableBroke, Ended
    <3> QED
      BY <2>1, <3>2, <3>3, <3>6 DEF Excused
  <2>3. CASE s.at = "call"
    <3>1. s.kind = "create" /\ live[s.name] # None /\ s.name \in Names
      BY <1>1, <1>2, <1>8, <2>3 DEF Path, Lone, Sound
    <3> QED
      BY <2>1, <3>1 DEF Excused
  <2>4. CASE s.at \in {"images", "image"}
    BY <1>1, <1>2, <1>8, <2>4 DEF Path, Stage, Sound, Works, Authorized
  <2> QED
    BY <1>2, <1>8, <2>2, <2>3, <2>4 DEF Path, Fits, Working
<1> QED
  BY <1>4, <1>5, <1>6, <1>7, <1>8 DEF Lone

\* ... and while another request has a step it is not active.
LEMMA OtherLoneStep ==
    ASSUME AloneInv, NEW r \in Requests, Turn(r, req[r], req'[r]), LiveStays,
           NEW q \in Requests \ {r}, q \notin met'
    PROVE  Lone(q)'
<1>1. RegistryInv /\ q \notin met /\ Lone(q) /\ req'[q] = req[q]
  BY DEF AloneInv, Turn
<1>2. q \notin Active
  BY <1>1 DEF Turn, Lone, Active
<1>3. q \notin Active' /\ req[q].at \notin Working
  BY <1>1, <1>2 DEF Active
<1>4. req[q].at = "gitea" => Excused(q)'
  BY <1>1, ExcusedStep DEF Lone, Ended
<1> QED
  BY <1>1, <1>3, <1>4 DEF Lone, Working

LEMMA AloneInit == Init => AloneInv
<1> SUFFICES ASSUME Init PROVE AloneInv
  OBVIOUS
<1>1. ASSUME NEW r \in Requests PROVE req[r] = Idle /\ live[r] = None
  BY RegistryAssumption DEF RegistryAssumption, Init, TokenNames
<1>2. ASSUME NEW r \in Requests PROVE Stage(r) /\ Lone(r)
  BY <1>1 DEF Stage, Lone, Active, Idle, Working
<1>3. config = NoConfig => live[Proxy] = None
  <2>1. <<Proxy, Earlier>> # None
    BY RegistryAssumption DEF RegistryAssumption, Token, TokenNames, Makers
  <2>2. Proxy \in TokenNames
    BY DEF TokenNames
  <2>3. NoConfig.proxy = None
    BY DEF NoConfig
  <2>4. live = [n \in TokenNames |-> None] \/ config.proxy = <<Proxy, Earlier>>
    BY DEF Init
  <2> QED
    BY <2>1, <2>2, <2>3, <2>4
<1> QED
  BY <1>2, <1>3, InitInv DEF AloneInv, Provision

LEMMA LiveTurn ==
    ASSUME RegistryInv, NEW r \in Requests, Turn(r, req[r], req'[r])
    PROVE  LiveStays
  BY DEF Turn, LiveStays, RegistryInv, TypeOK

LEMMA AloneNext == AloneInv /\ [Next]_vars => AloneInv'
<1>1. ASSUME AloneInv, Next PROVE AloneInv'
  <2>1. PICK r \in Requests : Step(r)
    BY <1>1 DEF Next, Step
  <2>2. Turn(r, req[r], req'[r]) /\ RegistryInv' /\ LiveStays
    BY <1>1, <2>1, StepTurn, NextInv, LiveTurn DEF AloneInv
  <2>3. \A q \in Requests : Stage(q)'
    BY <1>1, <2>2, StageStep DEF AloneInv
  <2>4. \A q \in Requests \ met' : Lone(q)'
    BY <1>1, <2>2, LoneStep, OtherLoneStep
  <2>5. Provision'
    BY <1>1, <2>2, ProvisionStep
  <2> QED
    BY <2>2, <2>3, <2>4, <2>5 DEF AloneInv
<1>2. ASSUME AloneInv, UNCHANGED vars PROVE AloneInv'
  BY <1>2, StutterInv DEF AloneInv, Stage, Lone, Provision, Excused, Revoked, EnableBroke, Active, vars
<1> QED
  BY <1>1, <1>2

-----------------------------------------------------------------------------
(* The list of tokens.                                                     *)

Manages(r, n) == req[r].kind \in {"create", "revoke"} /\ req[r].name = n

\* A request goes by the tokens of the committed configuration, but for its own, until
\* another one replaces the configuration.
Current(r) ==
    r \in Active \ behind /\ req[r].at # "read" =>
        req[r].seen.listed =
            IF req[r].at = "done" /\ req[r].kind \in {"create", "revoke"}
            THEN [config.listed EXCEPT ![req[r].name] = Entry(r)]
            ELSE config.listed

\* The requests that have changed the token at Gitea and not committed.
Changers(n) == {r \in Requests : Manages(r, n) /\ req[r].at \in {"record", "done"}}

\* No request has committed a configuration another one had replaced.
Settled == \A r \in behind : req[r].at # "committed"

Broken(n) == \E r \in Requests : Manages(r, n) /\ req[r].at = "broken"

\* The list has the token as Gitea has it, or lacks what the one request that has changed it
\* since is about to record; of several such requests the first to commit leaves the others
\* behind.
Agrees(n) ==
    Settled /\ ~Broken(n) =>
        /\ Changers(n) = {} => config.listed[n] = live[n]
        /\ \A r \in Changers(n) : Changers(n) = {r} /\ r \notin behind => live[n] = Entry(r)

ListInv ==
    /\ RegistryInv
    /\ \A r \in Requests : Stage(r) /\ Current(r)
    /\ \A n \in Names : Agrees(n)

LEMMA CurrentStep ==
    ASSUME ListInv, NEW r \in Requests, Turn(r, req[r], req'[r]), NEW q \in Requests
    PROVE  Current(q)'
<1> SUFFICES ASSUME q \in Active' \ behind', req'[q].at # "read"
             PROVE  req'[q].seen.listed =
                        IF req'[q].at = "done" /\ req'[q].kind \in {"create", "revoke"}
                        THEN [config'.listed EXCEPT ![req'[q].name] = Entry(q)']
                        ELSE config'.listed
  BY DEF Current
<1>1. RegistryInv /\ Stage(q) /\ Current(q) /\ q \notin behind /\ req'[q].at \in Working
  BY DEF ListInv, Turn, Active
<1>2. CASE q # r
  <2>1. req'[q] = req[q] /\ q \in Active
    BY <1>1, <1>2 DEF Turn, Active
  <2>2. config' = config
    BY <1>2, <2>1 DEF Turn
  <2> QED
    BY <1>1, <2>1, <2>2 DEF Current, Entry
<1>3. CASE q = r
  <2> DEFINE s == req[r]
             t == req'[r]
  <2>1. /\ Path(r, s, t) /\ s.at \in Working \union {"idle"} /\ t.at \in Working \ {"read"}
        /\ s.at # "idle" => t.kind = s.kind /\ t.name = s.name
        /\ config' = config
    BY <1>1, <1>3 DEF Turn, Working
  <2>2. s.at # "idle" /\ s.at # "done"
    BY <2>1 DEF Path, Working
  <2>3. Entry(r)' = Entry(r)
    BY <2>1, <2>2 DEF Entry
  <2>4. CASE s.at = "read"
    <3>1. t.seen = config /\ ~(t.at = "done" /\ t.kind \in {"create", "revoke"})
      BY <1>1, <1>3, <2>1, <2>4 DEF Path, Keeps, Fits, Stage, Working
    <3> QED
      BY <1>3, <2>1, <3>1
  <2>5. CASE s.at # "read"
    <3>1. s.seen.listed = config.listed
      BY <1>1, <1>3, <2>1, <2>2, <2>5 DEF Current, Active
    <3>2. CASE s.at = "record"
      BY <1>3, <2>1, <2>3, <3>1, <3>2, <1>1 DEF Path, Working, RegistryInv, Sound
    <3>3. CASE s.at # "record"
      <4>1. t.seen.listed = s.seen.listed
        BY <2>1, <2>2, <2>5, <3>3 DEF Path, Keeps, Fits, Working
      <4>2. ~(t.at = "done" /\ t.kind \in {"create", "revoke"})
        BY <1>1, <1>3, <2>1, <2>2, <2>5, <3>3 DEF Path, Keeps, Fits, Stage, Working
      <4> QED
        BY <1>3, <2>1, <3>1, <4>1, <4>2
    <3> QED
      BY <3>2, <3>3
  <2> QED
    BY <2>4, <2>5
<1> QED
  BY <1>2, <1>3

\* Who manages a token, with its change made, goes on to do so.
LEMMA ManagesStep ==
    ASSUME RegistryInv, NEW r \in Requests, Stage(r), Turn(r, req[r], req'[r]), NEW n \in Names
    PROVE  /\ Settled' => Settled
           /\ ~Broken(n)' => ~Broken(n)
           /\ \A q \in Requests \ {r} : q \in Changers(n)' <=> q \in Changers(n)
           /\ r \in Changers(n) /\ ~Broken(n)' =>
                \/ r \in Changers(n)'
                \/ req[r].at = "done" /\ req'[r].at = "committed"
           /\ r \in Changers(n)' /\ r \notin Changers(n) =>
                req[r].at = "call" /\ req'[r].at = "record" /\ req[r].name = n
<1> DEFINE s == req[r]
           t == req'[r]
<1>1. /\ Path(r, s, t) /\ s.at \in Working \union {"idle"}
      /\ s.at # "idle" /\ t.at # "refused" => t.kind = s.kind /\ t.name = s.name
      /\ \A q \in Requests \ {r} : req'[q] = req[q]
      /\ behind \subseteq behind' /\ behind \subseteq Requests
  BY DEF Turn, RegistryInv, TypeOK
<1>2. Settled' => Settled
  <2>1. ASSUME NEW q \in behind, req[q].at = "committed" PROVE req'[q].at = "committed"
    BY <1>1, <2>1, Outcomes DEF Ended
  <2> QED
    BY <1>1, <2>1 DEF Settled
<1>3. Broken(n) => Broken(n)'
  BY Outcomes DEF Broken, Manages, Ended
<1>4. \A q \in Requests \ {r} : q \in Changers(n)' <=> q \in Changers(n)
  BY <1>1 DEF Changers, Manages
<1>5. ASSUME r \in Changers(n), ~Broken(n)', r \notin Changers(n)'
      PROVE  s.at = "done" /\ t.at = "committed"
  <2>1. s.at \in {"record", "done"} /\ Manages(r, n)
    BY <1>5 DEF Changers
  <2>2. t.at \in {"done", "committed", "broken"} /\ (t.at = "done" => s.at = "record")
    BY <1>1, <2>1 DEF Path
  <2>3. Manages(r, n)'
    BY <1>1, <2>1, <2>2 DEF Manages
  <2>4. t.at # "broken" /\ t.at # "done"
    BY <1>5, <2>3 DEF Broken, Changers
  <2> QED
    BY <1>1, <2>1, <2>2, <2>4 DEF Path
<1>6. ASSUME r \in Changers(n)', r \notin Changers(n)
      PROVE  s.at = "call" /\ t.at = "record" /\ s.name = n
  <2>1. t.at \in {"record", "done"} /\ Manages(r, n)'
    BY <1>6 DEF Changers
  <2>2. s.at # "idle" /\ t.kind = s.kind /\ t.name = s.name
    BY <1>1, <2>1 DEF Path
  <2>3. Manages(r, n) /\ s.at \notin {"record", "done"}
    BY <1>6, <2>1, <2>2 DEF Manages, Changers
  <2> QED
    BY <1>1, <2>1, <2>2, <2>3 DEF Path, Fits, Stage, Manages, Working
<1> QED
  BY <1>2, <1>3, <1>4, <1>5, <1>6

\* What a step does to the token of a name.
LEMMA NameStep ==
    ASSUME RegistryInv, NEW r \in Requests, Turn(r, req[r], req'[r]), NEW n \in Names
    PROVE  live'[n] = IF req[r].at = "call" /\ req'[r].at = "record" /\ req[r].name = n
                      THEN Entry(r) ELSE live[n]
<1>1. live \in [TokenNames -> Makers \union {None}] /\ n \in TokenNames /\ ProxyName(r) # n
  BY ProxyNames DEF RegistryInv, TypeOK, TokenNames
<1> QED
  BY <1>1 DEF Turn

LEMMA AgreesStep ==
    ASSUME ListInv, NEW r \in Requests, Turn(r, req[r], req'[r]), NEW n \in Names
    PROVE  Agrees(n)'
<1> DEFINE s == req[r]
           t == req'[r]
<1> SUFFICES ASSUME Settled', ~Broken(n)'
             PROVE  /\ Changers(n)' = {} => config'.listed[n] = live'[n]
                    /\ \A q \in Changers(n)' :
                          Changers(n)' = {q} /\ q \notin behind' => live'[n] = Entry(q)'
  BY DEF Agrees
<1>1. /\ RegistryInv /\ Stage(r) /\ Current(r) /\ Agrees(n)
      /\ config.listed \in [Names -> Makers \union {None}]
      /\ s.name \in Names \union {Proxy}
  BY DEF ListInv, RegistryInv, TypeOK, Config, Request
<1>2. /\ Settled /\ ~Broken(n)
      /\ \A q \in Requests \ {r} : q \in Changers(n)' <=> q \in Changers(n)
      /\ r \in Changers(n) => r \in Changers(n)' \/ (s.at = "done" /\ t.at = "committed")
      /\ r \in Changers(n)' /\ r \notin Changers(n) =>
           s.at = "call" /\ t.at = "record" /\ s.name = n
  BY <1>1, ManagesStep
<1>3. /\ Changers(n) = {} => config.listed[n] = live[n]
      /\ \A q \in Changers(n) : Changers(n) = {q} /\ q \notin behind => live[n] = Entry(q)
  BY <1>1, <1>2 DEF Agrees
<1>4. Changers(n) \subseteq Requests /\ Changers(n)' \subseteq Requests
  BY DEF Changers
<1>5. \A q \in Changers(n)' : q \in Changers(n) => Entry(q)' = Entry(q)
  <2> SUFFICES ASSUME NEW q \in Changers(n)', q \in Changers(n)
               PROVE  req'[q].kind = req[q].kind
    BY DEF Entry
  <2>1. q \in Requests /\ req[q].at \in {"record", "done"}
    BY DEF Changers
  <2> QED
    BY <1>1, <2>1, Outcomes
\* The request changes the token at Gitea.
<1>6. CASE s.at = "call" /\ t.at = "record" /\ s.name = n
  <2>1. r \in Changers(n)' /\ live'[n] = Entry(r) /\ Entry(r)' = Entry(r)
    BY <1>1, <1>6, NameStep DEF Turn, Changers, Manages, Entry
  <2> QED
    BY <2>1
\* It commits what it has written ...
<1>7. CASE s.at = "done" /\ t.at = "committed" /\ s.wrote
  <2>1. /\ config' = s.seen
        /\ behind' = behind \union {q \in Active \ {r} : req[q].at # "read"}
        /\ live'[n] = live[n]
    BY <1>1, <1>7, NameStep DEF Turn
  <2>2. r \notin behind /\ r \in Active
    BY <1>7, <2>1 DEF Settled, Active, Working
  <2>3. config'.listed = IF s.kind \in {"create", "revoke"}
                         THEN [config.listed EXCEPT ![s.name] = Entry(r)]
                         ELSE config.listed
    BY <1>1, <1>7, <2>1, <2>2 DEF Current
  <2>4. r \notin Changers(n)' /\ Changers(n) \ {r} = Changers(n)'
    BY <1>2, <1>4, <1>7 DEF Changers
  <2>5. \A q \in Changers(n)' : q \in behind'
    BY <1>4, <2>1, <2>4 DEF Changers, Active, Working
  <2>6. ASSUME Changers(n)' = {} PROVE config'.listed[n] = live'[n]
    <3>1. CASE r \in Changers(n)
      <4>1. s.kind \in {"create", "revoke"} /\ s.name = n /\ Changers(n) = {r}
        BY <2>4, <2>6, <3>1 DEF Changers, Manages
      <4> QED
        BY <1>1, <1>3, <2>1, <2>2, <2>3, <3>1, <4>1
    <3>2. CASE r \notin Changers(n)
      <4>1. Changers(n) = {} /\ ~Manages(r, n)
        BY <1>7, <2>4, <2>6, <3>2 DEF Changers
      <4>2. config'.listed[n] = config.listed[n]
        BY <1>1, <2>3, <4>1 DEF Manages
      <4> QED
        BY <1>3, <2>1, <4>1, <4>2
    <3> QED
      BY <3>1, <3>2
  <2> QED
    BY <2>5, <2>6
\* ... or nothing, and any other step leaves the token and the list as they are.
<1>8. CASE /\ ~(s.at = "call" /\ t.at = "record" /\ s.name = n)
           /\ ~(s.at = "done" /\ t.at = "committed" /\ s.wrote)
  <2>1. config' = config /\ behind' = behind /\ live'[n] = live[n]
    BY <1>1, <1>8, NameStep DEF Turn
  <2>2. r \in Changers(n)' <=> r \in Changers(n)
    BY <1>1, <1>2, <1>8 DEF Changers, Manages, Stage
  <2>3. Changers(n)' = Changers(n)
    BY <1>2, <1>4, <2>2
  <2> QED
    BY <1>3, <1>5, <2>1, <2>3
<1> QED
  BY <1>6, <1>7, <1>8

LEMMA ListInit == Init => ListInv
<1> SUFFICES ASSUME Init PROVE ListInv
  OBVIOUS
<1>1. ASSUME NEW r \in Requests PROVE req[r] = Idle /\ Stage(r) /\ Current(r)
  <2>1. req[r] = Idle
    BY DEF Init
  <2> QED
    BY <2>1, AloneInit DEF AloneInv, Current, Active, Idle, Working
<1>2. ASSUME NEW n \in Names PROVE config.listed[n] = live[n] /\ Changers(n) = {}
  <2>1. Changers(n) = {}
    BY <1>1 DEF Changers, Idle
  <2>2. n \in TokenNames /\ n # Proxy
    BY RegistryAssumption DEF RegistryAssumption, TokenNames
  <2>3. CASE config = NoConfig /\ live = [m \in TokenNames |-> None]
    BY <1>2, <2>1, <2>2, <2>3 DEF NoConfig, NoTokens
  <2>4. CASE /\ config.listed = [m \in Names |-> IF m \in Issued THEN Earlier ELSE None]
             /\ live = [m \in TokenNames |-> IF m \in Issued \union {Proxy} THEN Earlier ELSE None]
    BY <1>2, <2>1, <2>2, <2>4
  <2>5. \/ config = NoConfig /\ live = [m \in TokenNames |-> None]
        \/ /\ config.listed = [m \in Names |-> IF m \in Issued THEN Earlier ELSE None]
           /\ live = [m \in TokenNames |-> IF m \in Issued \union {Proxy} THEN Earlier ELSE None]
    BY DEF Init
  <2> QED
    BY <2>1, <2>3, <2>4, <2>5
<1> QED
  BY <1>1, <1>2, InitInv DEF ListInv, Agrees

LEMMA ListNext == ListInv /\ [Next]_vars => ListInv'
<1>1. ASSUME ListInv, Next PROVE ListInv'
  <2>1. PICK r \in Requests : Step(r)
    BY <1>1 DEF Next, Step
  <2>2. Turn(r, req[r], req'[r]) /\ RegistryInv'
    BY <1>1, <2>1, StepTurn, NextInv DEF ListInv
  <2>3. \A q \in Requests : Stage(q)' /\ Current(q)'
    BY <1>1, <2>2, StageStep, CurrentStep DEF ListInv
  <2>4. \A n \in Names : Agrees(n)'
    BY <1>1, <2>2, AgreesStep
  <2> QED
    BY <2>2, <2>3, <2>4 DEF ListInv
<1>2. ASSUME ListInv, UNCHANGED vars PROVE ListInv'
  <2>1. RegistryInv'
    BY <1>2, StutterInv DEF ListInv
  <2>2. \A q \in Requests : Stage(q)' /\ Current(q)'
    BY <1>2 DEF ListInv, Stage, Current, Active, Entry, vars
  <2>3. \A n \in Names : Agrees(n)'
    BY <1>2 DEF ListInv, Agrees, Settled, Broken, Changers, Manages, Entry, vars
  <2> QED
    BY <2>1, <2>2, <2>3 DEF ListInv
<1> QED
  BY <1>1, <1>2

-----------------------------------------------------------------------------
(* Theorems.                                                               *)

\* The invariant holds: whatever requests overlap or break, the proxy tokens in committed,
\* read and unsaved configurations are live.
THEOREM InvariantCorrect == Spec => []RegistryInv
  BY InitInv, NextInv, PTL DEF Spec

\* All state has its type: the handlers of artifact_registry_service.py keep to the stages
\* and the kinds of configuration, for any number of requests, names and failures.
THEOREM TypeCorrect == Spec => []TypeOK
<1>1. RegistryInv => TypeOK
  BY DEF RegistryInv
<1> QED
  BY <1>1, InvariantCorrect, PTL

\* The proxy token that is stored for a user is one that Gitea accepts, whatever requests
\* enable the feature, refresh the token, create and revoke tokens at once, and break.
THEOREM ProxyTokenWorks == Spec => []StoredProxyTokenWorks
<1>1. RegistryInv => StoredProxyTokenWorks
  BY RegistryAssumption DEF RegistryAssumption, RegistryInv, Works, StoredProxyTokenWorks
<1> QED
  BY <1>1, InvariantCorrect, PTL

\* A request that was served alone fails at Gitea only over a name in use: as long as nothing
\* overlaps, each password that artifact_registry_service.py sets is the one it authenticates
\* with, a refreshed proxy token's name is free, and a user without a configuration is
\* provisioned, unless an earlier enable broke on the way.
THEOREM LoneRequestsServed == Spec => []LoneRequestsGetTheirToken
<1>1. AloneInv => LoneRequestsGetTheirToken
  <2> SUFFICES ASSUME AloneInv, NEW r \in Requests \ met, req[r].at = "gitea"
               PROVE  \/ /\ req[r].kind = "enable"
                         /\ live[Proxy] # None
                         /\ \E q \in Requests : req[q].kind = "enable" /\ req[q].at = "broken"
                      \/ /\ req[r].kind = "create"
                         /\ \/ live[req[r].name] # None
                            \/ \E q \in Requests : req[q].kind = "revoke" /\ req[q].name = req[r].name
    BY DEF LoneRequestsGetTheirToken
  <2>1. Excused(r)
    BY DEF AloneInv, Lone
  <2> QED
    BY <2>1 DEF Excused, Revoked, EnableBroke
<1> QED
  BY <1>1, AloneInit, AloneNext, PTL DEF Spec

\* What the API lists of a token is what Gitea has, once the requests for it have ended without
\* breaking, whatever other requests overlap with them, as long as each request that commits
\* goes by a configuration that was not replaced meanwhile.
THEOREM ListedTokensLive == Spec => []ListShowsLiveTokens
<1>1. ListInv => ListShowsLiveTokens
  <2> SUFFICES ASSUME ListInv, \A r \in behind : req[r].at # "committed",
                      NEW n \in Names, Undisturbed(n)
               PROVE  config.listed[n] = live[n]
    BY DEF ListShowsLiveTokens
  <2>1. Settled /\ ~Broken(n) /\ Changers(n) = {}
    BY DEF Settled, Broken, Changers, Manages, Undisturbed
  <2> QED
    BY <2>1 DEF ListInv, Agrees
<1> QED
  BY <1>1, ListInit, ListNext, PTL DEF Spec
=============================================================================
