-------------------------- MODULE ArtifactRegistry --------------------------
(***************************************************************************)
(* Custom images of one user: the control plane's artifact registry          *)
(* service, the row of user_feature_config in which it keeps what it knows,  *)
(* and the user's account and tokens at Gitea.                               *)
(*                                                                         *)
(* A request changes Gitea at once and its row when its transaction commits, *)
(* which is after the answer.  It authenticates as the user with a password  *)
(* that it has just set, and it writes the configuration as a whole, from    *)
(* what it read at its start.                                                *)
(*                                                                         *)
(* Definitions named Bug... are not part of the specification: each is the   *)
(* definition below it with a plausible programming error.                   *)
(***************************************************************************)
EXTENDS Naturals, FiniteSets

CONSTANTS
    Requests,       \* HTTP requests of the user
    Names,          \* token names users choose
    Proxy,          \* PROXY_TOKEN_NAME, "mldlc-proxy"
    Earlier,        \* stands for what made a token or a password before the first request
    Issued,         \* names of the tokens of a user who has used the registry before
    None,
    MaxFaults       \* bound: transactions that break

Kinds == {"enable", "list", "images", "create", "revoke", "deploy"}

\* A refreshed proxy token is named "mldlc-proxy-<random>": request r stands for the name
\* it gives.  A token is its name and who made it.
TokenNames == Names \union {Proxy} \union Requests
Makers     == Requests \union {Earlier}
Token      == TokenNames \X Makers

ASSUME RegistryAssumption ==
    /\ IsFiniteSet(Requests)
    /\ Proxy \notin Names \union Requests
    /\ Names \intersect Requests = {}
    /\ None \notin Requests \union Names \union {Proxy, Earlier} \union Token
    /\ Earlier \notin Requests /\ Issued \subseteq Names
    /\ MaxFaults \in Nat

NoTokens == [n \in Names |-> None]

\* config_data: the proxy token, whether its scopes are PROXY_TOKEN_SCOPES, registry_tokens.
Config   == [proxy : Token \union {None}, current : BOOLEAN, listed : [Names -> Makers \union {None}]]
NoConfig == [proxy |-> None, current |-> FALSE, listed |-> NoTokens]

VARIABLES
    config,     \* the committed row of user_feature_config, NoConfig without one
    password,   \* who set the password of the Gitea user, None without a user
    live,       \* [TokenNames -> Makers \union {None}] the tokens Gitea accepts
    req,        \* [Requests -> Request] the handlers
    met,        \* requests that were served while another one was
    behind,     \* requests that went on after another one's changes to the row they have read
    faults      \* environment events so far

vars == <<config, password, live, req, met, behind, faults>>

Working == {"read", "ensure", "post", "reset", "proxy", "store", "reserved", "password",
            "call", "record", "images", "image", "name", "insert", "done"}
Ended   == {"committed", "refused", "gitea", "broken"}

\* "gitea" is a 502, "refused" any other error answer; "broken" rolls back without either.
Request == [at    : {"idle"} \union Working \union Ended,
            kind  : Kinds,
            name  : Names \union {Proxy},
            seen  : Config,         \* the configuration it goes by
            wrote : BOOLEAN]        \* seen is in the row, locked and not committed

Idle == [at |-> "idle", kind |-> "list", name |-> Proxy, seen |-> NoConfig, wrote |-> FALSE]

TypeOK ==
    /\ config \in Config
    /\ password \in Makers \union {None}
    /\ live \in [TokenNames -> Makers \union {None}]
    /\ req \in [Requests -> Request]
    /\ met \subseteq Requests /\ behind \subseteq Requests
    /\ faults \in 0..MaxFaults

\* A new user, or one enabled before, perhaps with the proxy scopes of an older release.
Init ==
    /\ \/ /\ config = NoConfig /\ password = None
          /\ live = [n \in TokenNames |-> None]
       \/ /\ password = Earlier
          /\ \E c \in BOOLEAN :
               config = [proxy |-> <<Proxy, Earlier>>, current |-> c,
                         listed |-> [n \in Names |-> IF n \in Issued THEN Earlier ELSE None]]
          /\ live = [n \in TokenNames |->
                       IF n \in Issued \union {Proxy} THEN Earlier ELSE None]
    /\ req = [r \in Requests |-> Idle]
    /\ met = {} /\ behind = {} /\ faults = 0

-----------------------------------------------------------------------------
Active == {r \in Requests : req[r].at \in Working}

To(r, stage) == req' = [req EXCEPT ![r].at = stage]

\* The end of a transaction; after an error answer get_db rolls back.
End(r, how) == req' = [req EXCEPT ![r].at = how, ![r].wrote = FALSE, ![r].seen = NoConfig]

\* An error answer of the control plane's own: nothing is left of the request.
Refuse(r) == req' = [req EXCEPT ![r] = [Idle EXCEPT !.at = "refused"]]

\* A name that users cannot have: it starts with PROXY_TOKEN_NAME.
BugReserved(n) == FALSE

Reserved(n) == n \notin Names

Begin(r) ==
    /\ req[r].at = "idle"
    /\ \E k \in Kinds, n \in Names \union {Proxy} :
         /\ n # Proxy => k \in {"create", "revoke"}
         /\ IF k = "create" /\ Reserved(n) THEN Refuse(r)
            ELSE req' = [req EXCEPT ![r].kind = k, ![r].name = n, ![r].at = "read"]
    /\ met' = IF Active = {} THEN met ELSE met \union Active \union {r}
    /\ UNCHANGED <<config, password, live, behind, faults>>

\* What a request does once it has a configuration with a usable proxy token.
Purpose(r) ==
    CASE req[r].kind \in {"enable", "list"}    -> "done"
      [] req[r].kind = "create"                -> "password"
      [] req[r].kind = "revoke"                -> IF Reserved(req[r].name) THEN "reserved" ELSE "password"
      [] req[r].kind = "images"                -> "images"
      [] req[r].kind = "deploy"                -> "image"

\* _proxy_token_needs_refresh.
NeedsRefresh(c) == ~c.current

\* get_user_config.  Without a row enable provisions the user and the others answer 403;
\* a proxy token with other scopes is replaced first.
ReadConfig(r) ==
    /\ req[r].at = "read"
    /\ \/ config = NoConfig /\ req[r].kind = "enable" /\ To(r, "ensure")
       \/ config = NoConfig /\ req[r].kind # "enable" /\ Refuse(r)
       \/ /\ config # NoConfig
          /\ req' = [req EXCEPT ![r].seen = config,
                        ![r].at = IF NeedsRefresh(config) THEN "reset" ELSE Purpose(r)]
    /\ UNCHANGED <<config, password, live, met, behind, faults>>

-----------------------------------------------------------------------------
(* Gitea.                                                                  *)

\* An existing user's password left as it is.
BugEnsureUser(r) ==
    /\ req[r].at = "ensure"
    /\ To(r, IF password = None THEN "post" ELSE "proxy")
    /\ UNCHANGED <<config, password, live, met, behind, faults>>

\* ensure_user asks whether the user exists ...
EnsureUser(r) ==
    /\ req[r].at = "ensure"
    /\ To(r, IF password = None THEN "post" ELSE "reset")
    /\ UNCHANGED <<config, password, live, met, behind, faults>>

\* ... and creates it.  422, for one that exists by now, is as good, and sets no password.
PostUser(r) ==
    /\ req[r].at = "post"
    /\ password' = IF password = None THEN r ELSE password
    /\ To(r, "proxy")
    /\ UNCHANGED <<config, live, met, behind, faults>>

\* reset_user_password.
ResetPassword(r) ==
    /\ \/ req[r].at = "reset" /\ To(r, "proxy")
       \/ req[r].at = "password" /\ To(r, "call")
    /\ password' = r
    /\ UNCHANGED <<config, live, met, behind, faults>>

\* create_token_with_password.  Gitea wants the password and a name not in use.
CreateToken(r, n, next) ==
    IF password = r /\ live[n] = None
    THEN live' = [live EXCEPT ![n] = r] /\ To(r, next)
    ELSE End(r, "gitea") /\ UNCHANGED live

ProxyName(r) == IF req[r].seen = NoConfig THEN Proxy ELSE r

CreateProxyToken(r) ==
    /\ req[r].at = "proxy"
    /\ CreateToken(r, ProxyName(r), "store")
    /\ UNCHANGED <<config, password, met, behind, faults>>

\* revoke_token_with_password: 404 is no token, and no change.
RevokeToken(r) ==
    LET n == req[r].name IN
    IF password # r THEN End(r, "gitea") /\ UNCHANGED live
    ELSE IF live[n] = None THEN Refuse(r) /\ UNCHANGED live
    ELSE live' = [live EXCEPT ![n] = None] /\ To(r, "record")

CallGitea(r) ==
    /\ req[r].at = "call"
    /\ \/ req[r].kind = "create" /\ CreateToken(r, req[r].name, "record")
       \/ req[r].kind = "revoke" /\ RevokeToken(r)
    /\ UNCHANGED <<config, password, met, behind, faults>>

-----------------------------------------------------------------------------
(* The row of user_feature_config.                                         *)

\* upsert_user_config waits for a transaction that has written the row.
Locked(r) == \E q \in Requests \ {r} : req[q].wrote

Upsert(r, c, next) ==
    /\ ~Locked(r)
    /\ req' = [req EXCEPT ![r].at = next, ![r].seen = c, ![r].wrote = TRUE]
    /\ UNCHANGED <<config, password, live, met, behind, faults>>

\* registry_tokens forgotten in the configuration of a refreshed proxy token.
BugWithProxyToken(r) == [proxy |-> <<ProxyName(r), r>>, current |-> TRUE, listed |-> NoTokens]

\* The configuration of enable and of _refresh_proxy_token.
WithProxyToken(r) ==
    [proxy |-> <<ProxyName(r), r>>, current |-> TRUE, listed |-> req[r].seen.listed]

StoreProxyToken(r) ==
    /\ req[r].at = "store"
    /\ Upsert(r, WithProxyToken(r), Purpose(r))

\* _store_token_metadata, _remove_token_metadata.
RecordToken(r) ==
    /\ req[r].at = "record"
    /\ Upsert(r, [req[r].seen EXCEPT !.listed[req[r].name] =
                    IF req[r].kind = "create" THEN r ELSE None], "done")

-----------------------------------------------------------------------------
(* What the requests are for.                                              *)

\* A reserved name is not revoked: 404.
RefuseReserved(r) ==
    /\ req[r].at = "reserved"
    /\ Refuse(r)
    /\ UNCHANGED <<config, password, live, met, behind, faults>>

\* Gitea accepts the proxy token that the request goes by.
Authorized(r) == live[req[r].seen.proxy[1]] = req[r].seen.proxy[2]

\* list_container_images: one call for the packages and one for the tags of each, all with
\* the proxy token.
ListImages(r) ==
    /\ req[r].at = "images"
    /\ IF Authorized(r) THEN To(r, "done") ELSE End(r, "gitea")
    /\ UNCHANGED <<config, password, live, met, behind, faults>>

\* image_tag_exists.  A tag that is not found is 422.
FindImage(r) ==
    /\ req[r].at = "image"
    /\ IF Authorized(r) THEN To(r, "name") \/ Refuse(r) ELSE End(r, "gitea")
    /\ UNCHANGED <<config, password, live, met, behind, faults>>

\* Deployments are all of one name here.
Deployments(stages) == {r \in Requests : req[r].kind = "deploy" /\ req[r].at \in stages}

\* create_image_deployment: name_exists, 409; then the INSERTs, which wait for a transaction
\* that has inserted the name and fail when that commits.
CheckName(r) ==
    /\ req[r].at = "name"
    /\ IF Deployments({"committed"}) = {} THEN To(r, "insert") ELSE Refuse(r)
    /\ UNCHANGED <<config, password, live, met, behind, faults>>

InsertDeployment(r) ==
    /\ req[r].at = "insert"
    /\ Deployments({"done"}) = {}
    /\ IF Deployments({"committed"}) = {} THEN To(r, "done") ELSE Refuse(r)
    /\ UNCHANGED <<config, password, live, met, behind, faults>>

\* The answer is sent, and then the transaction commits.
Commit(r) ==
    /\ req[r].at = "done"
    /\ IF req[r].wrote
       THEN /\ config' = req[r].seen
            /\ behind' = behind \union {q \in Active \ {r} : req[q].at # "read"}
       ELSE UNCHANGED <<config, behind>>
    /\ End(r, "committed")
    /\ UNCHANGED <<password, live, met, faults>>

\* A call or a statement fails, perhaps after it has taken effect, or the process dies.
Break(r) ==
    /\ req[r].at \in Working
    /\ faults < MaxFaults /\ faults' = faults + 1
    /\ End(r, "broken")
    /\ UNCHANGED <<config, password, live, met, behind>>

Serve(r) ==
    \/ ReadConfig(r) \/ EnsureUser(r) \/ PostUser(r) \/ ResetPassword(r)
    \/ CreateProxyToken(r) \/ CallGitea(r) \/ StoreProxyToken(r) \/ RecordToken(r)
    \/ RefuseReserved(r) \/ ListImages(r) \/ FindImage(r) \/ CheckName(r) \/ InsertDeployment(r) \/ Commit(r)

Next == \E r \in Requests : Begin(r) \/ Serve(r) \/ Break(r)

Spec == Init /\ [][Next]_vars

\* Handlers run to their end.
FairSpec == Spec /\ WF_vars(\E r \in Requests : Serve(r))

-----------------------------------------------------------------------------
(* Properties.                                                             *)

\* The proxy token in the configuration, with which image pull secrets are made, is one that
\* Gitea accepts, although tokens are created and revoked before anything is committed and
\* whole configurations are written back from old reads.
StoredProxyTokenWorks ==
    config # NoConfig =>
        /\ config.proxy # None
        /\ live[config.proxy[1]] = config.proxy[2]

Undisturbed(n) ==
    \A r \in Requests : req[r].kind \in {"create", "revoke"} /\ req[r].name = n
                            => req[r].at \in {"idle", "committed", "refused", "gitea"}

\* What the API lists of a token is what Gitea has, unless a request for the token is under
\* way or broke between the two, or a request has committed that went by a configuration
\* another one had replaced.
ListShowsLiveTokens ==
    (\A r \in behind : req[r].at # "committed") => \A n \in Names : Undisturbed(n) => config.listed[n] = live[n]

\* A request that was served alone fails at Gitea only over a name in use: for enable, that of
\* the proxy token of an earlier enable that broke before its configuration was stored; for
\* create, that of a token there is, or was before a later request revoked it.
LoneRequestsGetTheirToken ==
    \A r \in Requests \ met : req[r].at = "gitea" =>
        \/ /\ req[r].kind = "enable"
           /\ live[Proxy] # None
           /\ \E q \in Requests : req[q].kind = "enable" /\ req[q].at = "broken"
        \/ /\ req[r].kind = "create"
           /\ \/ live[req[r].name] # None
              \/ \E q \in Requests : req[q].kind = "revoke" /\ req[q].name = req[r].name

\* Every request ends: transactions wait for one another's configuration and deployment rows,
\* and none for ever.
RequestsEnd == \A r \in Requests : (req[r].at = "read") ~> (req[r].at \in Ended)

\* What the documentation says of a token that was issued: it can be listed until it is revoked.
IssuedTokensAreListed ==
    \A r \in Requests :
        req[r].at = "committed" /\ req[r].kind = "create" /\ live[req[r].name] = r
            => config.listed[req[r].name] = r
=============================================================================
