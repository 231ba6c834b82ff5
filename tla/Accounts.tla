------------------------------ MODULE Accounts ------------------------------
(***************************************************************************)
(* Users, their passwords and API keys, and the bearer tokens that web     *)
(* sessions get for a password and SDK clients for a key.                  *)
(*                                                                         *)
(* The web requests of users change the tables user and api_key.  Those of *)
(* keys are committed by get_db after the answer is sent, and that commit  *)
(* can fail; the library that keeps the users commits before it.  A token  *)
(* is a signed text that names a user and an end: nothing on the server    *)
(* knows of it, so that a new password or a revocation reaches the tokens  *)
(* there are only as they expire.  The SDK keeps its token and asks for    *)
(* another when a call is answered 401, once.                              *)
(*                                                                         *)
(* Definitions named Bug... are not part of the specification: each is the *)
(* definition below it with a plausible programming error.                 *)
(***************************************************************************)
EXTENDS Naturals, FiniteSets

CONSTANTS
    Users,
    Emails,
    Names,          \* names of keys
    Passwords,
    Tabs,           \* web sessions, one request of each at a time
    Clients,        \* SDK clients, each used by one thread
    None,           \* in place of what is not there
    Registered,     \* [Users -> Emails or None]: the users there are at first
    FirstHash,      \* [Users -> Hash] their hashes at first, or once registered
    Lifetime,       \* access_token_lifetime_seconds, in ticks
    MaxKeys,        \* bound: keys ever made
    MaxTime,        \* bound: ticks of the clock
    MaxAsked,       \* bound: web requests ever made that write
    MaxCalls,       \* bound: calls of each client
    MaxFaults       \* bound: failed commits and lost answers

\* hashed_password: the password it is of, and whether with parameters of the past.
Hash == [word : Passwords, old : BOOLEAN]

\* A key and its prefix: new for each.
Keys == 1..MaxKeys
Time == 0..MaxTime

Key   == [user : Users, name : Names, revoked : BOOLEAN]
Token == [user : Users, key : Keys, exp : 0..(MaxTime + Lifetime)]

ASSUME AccountsAssumption ==
    /\ None \notin Users \union Emails \union Names \union Nat \union Key \union Token
    /\ Users # {} /\ Names # {}
    /\ Registered \in [Users -> Emails \union {None}]
    /\ \A u, v \in Users : u # v => Registered[u] # Registered[v] \/ Registered[u] = None
    /\ FirstHash \in [Users -> Hash]
    /\ Lifetime \in Nat \ {0}
    /\ {MaxKeys, MaxTime, MaxAsked, MaxCalls, MaxFaults} \subseteq Nat

VARIABLES
    email,      \* [Users -> Emails or None]: a user without one is not registered
    key,        \* [Keys -> Key or None] committed rows of api_key
    shown,      \* [Keys -> Users or None] who has been shown the key's plaintext
    made,       \* keys made so far
    hash,       \* [Users -> Hash]
    session,    \* [Tabs -> Session or None] the token each tab has
    web,        \* [Tabs -> Request] the web requests' local state
    client,     \* [Clients -> Client] the SDK clients and the calls that they wait for
    ran,        \* [Clients -> Nat] how often the client's call has been executed
    now,        \* the control plane's clock
    ended,      \* [Keys -> Time or None] when the key's revocation was committed (history)
    changed,    \* [Users -> Time] when the hash became that of another password (history)
    asked,
    faults

passwords == <<hash, session, changed>>
accounts == <<email, key, shown, made, ended, passwords>>
vars == <<accounts, web, client, ran, now, asked, faults>>

Session == [user : Users, word : Passwords, exp : 0..(MaxTime + Lifetime)]
Request == [at   : {"idle", "write", "commit"},
            op   : {"register", "change", "password", "login", "issue", "revoke"},
            user : Users,
            to   : Emails \union Passwords \union Names,
            key  : Keys \union {0}]

\* at: not made yet, between calls, or waiting for the user's row, the key's row, the answer
\* to the call or the one after a 401; the last call's outcome.
Waiting == {"user", "key", "send"}
Over    == {"done", "denied", "failed"}
Client  == [at    : {"new", "idle"} \union Waiting \union Over,
            email : Emails \union {None},           \* what it was made with
            key   : Keys \union {0},
            token : Token \union {None},            \* _access_token
            who   : Users \union {None},            \* user, as the exchange has read it
            again : BOOLEAN,                        \* this is the second attempt
            begun : Time,                           \* when the call was made (history)
            calls : 0..MaxCalls]

TypeOK ==
    /\ email \in [Users -> Emails \union {None}]
    /\ \A u, v \in Users : u # v => email[u] # email[v] \/ email[u] = None
    /\ key \in [Keys -> Key \union {None}]
    /\ made \in 0..MaxKeys /\ shown \in [Keys -> Users \union {None}]
    /\ hash \in [Users -> Hash] /\ changed \in [Users -> Time]
    /\ session \in [Tabs -> Session \union {None}]
    /\ web \in [Tabs -> Request]
    /\ client \in [Clients -> Client]
    /\ ran \in [Clients -> Nat]
    /\ now \in Time /\ asked \in 0..MaxAsked /\ faults \in 0..MaxFaults
    /\ ended \in [Keys -> Time \union {None}]
    /\ \A k \in Keys : ended[k] # None <=> key[k] # None /\ key[k].revoked

Quiet  == [at |-> "idle", op |-> "issue", user |-> CHOOSE u \in Users : TRUE,
           to |-> CHOOSE n \in Names : TRUE, key |-> 0]
Unmade == [at |-> "new", email |-> None, key |-> 0, token |-> None, who |-> None,
           again |-> FALSE, begun |-> 0, calls |-> 0]

Init ==
    /\ email = Registered
    /\ key = [k \in Keys |-> None]
    /\ shown = [k \in Keys |-> None] /\ made = 0
    /\ hash = FirstHash /\ changed = [u \in Users |-> 0]
    /\ session = [t \in Tabs |-> None]
    /\ web = [t \in Tabs |-> Quiet]
    /\ client = [c \in Clients |-> Unmade]
    /\ ran = [c \in Clients |-> 0]
    /\ now = 0 /\ asked = 0 /\ faults = 0
    /\ ended = [k \in Keys |-> None]

-----------------------------------------------------------------------------
(* Web requests.                                                           *)

Sdk == UNCHANGED <<client, ran, now>>

Close(t) == web' = [web EXCEPT ![t] = Quiet]

\* get_by_email: the address is someone's.
Taken(e) == \E u \in Users : email[u] = e

\* name_exists: keys of the name, revoked or not.
Named(u, n) == {k \in Keys : key[k] # None /\ key[k].user = u /\ key[k].name = n}

\* A web request begins with a query, and one that the query turns down ends there.
Begin(t, op, u, to, k) ==
    /\ web[t].at = "idle" /\ asked < MaxAsked /\ asked' = asked + 1
    /\ web' = [web EXCEPT ![t] = [at |-> "write", op |-> op, user |-> u, to |-> to, key |-> k]]
    /\ UNCHANGED <<email, key, shown, ended, passwords, faults>> /\ Sdk

\* A token past its end is no token.
Live(token) == token.exp > now

\* get_current_user: the tab's token is of u.
SignedIn(t, u) == session[t] # None /\ session[t].user = u /\ Live(session[t])

\* register: 400 for an address that is taken.
AskRegister(t, u, e) ==
    /\ email[u] = None /\ \A s \in Tabs : web[s].at = "idle" \/ web[s].user # u
    /\ ~Taken(e)
    /\ Begin(t, "register", u, e, 0) /\ UNCHANGED made

\* update_me with an address: an error for one that is taken.
AskChange(t, u, e) ==
    /\ SignedIn(t, u) /\ ~Taken(e)
    /\ Begin(t, "change", u, e, 0) /\ UNCHANGED made

\* update_me with a password.
AskPassword(t, u, p) ==
    /\ SignedIn(t, u)
    /\ Begin(t, "password", u, p, 0) /\ UNCHANGED made

\* write_token, for a tab.
SignIn(t, u, p) ==
    session' = [session EXCEPT ![t] = [user |-> u, word |-> p, exp |-> now + Lifetime]]

\* users:login, authenticate_credentials: the user with the address is read, and 401 is
\* answered for another password.  An outdated hash is first replaced.
AskLogin(t, u, p) ==
    /\ email[u] # None /\ hash[u].word = p
    /\ \/ hash[u].old /\ Begin(t, "login", u, p, 0) /\ UNCHANGED made
       \/ /\ ~hash[u].old /\ web[t].at = "idle"
          /\ SignIn(t, u, p)
          /\ UNCHANGED <<email, key, shown, made, ended, hash, changed, web, asked, faults>> /\ Sdk

\* issue_key: 409 for a name that has a key.
AskIssue(t, u, n) ==
    /\ SignedIn(t, u) /\ Named(u, n) = {}
    /\ made < MaxKeys /\ made' = made + 1
    /\ Begin(t, "issue", u, n, made + 1)

\* revoke: 404 for one without a key that is not revoked.
AskRevoke(t, u, n) ==
    /\ SignedIn(t, u)
    /\ \E k \in {k \in Named(u, n) : ~key[k].revoked} : Begin(t, "revoke", u, n, k)
    /\ UNCHANGED made

Ask(t) ==
    \E u \in Users :
        \/ \E e \in Emails : AskRegister(t, u, e) \/ AskChange(t, u, e)
        \/ \E p \in Passwords : AskPassword(t, u, p) \/ AskLogin(t, u, p)
        \/ \E n \in Names : AskIssue(t, u, n) \/ AskRevoke(t, u, n)

\* SQLAlchemyUserDatabase.create and update with an address, which commit: the column is
\* unique (500).
WriteEmail(t) ==
    LET w == web[t] IN
    /\ w.at = "write" /\ w.op \in {"register", "change"}
    /\ email' = IF Taken(w.to) THEN email ELSE [email EXCEPT ![w.user] = w.to]
    /\ Close(t)
    /\ UNCHANGED <<key, shown, made, ended, passwords, asked, faults>> /\ Sdk

\* update with a hash, whatever the row's hash is by now.
WriteHash(t) ==
    LET w == web[t] IN
    /\ w.at = "write" /\ w.op \in {"password", "login"}
    /\ hash' = [hash EXCEPT ![w.user] = [word |-> w.to, old |-> FALSE]]
    /\ changed' = IF hash[w.user].word = w.to THEN changed ELSE [changed EXCEPT ![w.user] = now]
    /\ IF w.op = "login" THEN SignIn(t, w.user, w.to) ELSE UNCHANGED session
    /\ Close(t)
    /\ UNCHANGED <<email, key, shown, made, ended, asked, faults>> /\ Sdk

\* Another web request has written to what t is about to write and is not committed: a key of
\* the same name, or the same key.
Blocked(t) ==
    \E s \in Tabs \ {t} :
        /\ web[s].at = "commit" /\ web[s].op = web[t].op
        /\ web[s].user = web[t].user /\ web[s].to = web[t].to

\* INSERT of a key, for which (user_id, name) must be unique (500), or UPDATE of is_revoked.
\* After it the answer is sent, with the plaintext of a new key.
WriteKey(t) ==
    LET w == web[t] IN
    /\ w.at = "write" /\ w.op \in {"issue", "revoke"} /\ ~Blocked(t)
    /\ IF w.op = "issue" /\ Named(w.user, w.to) # {}
       THEN Close(t) /\ UNCHANGED shown
       ELSE /\ web' = [web EXCEPT ![t].at = "commit"]
            /\ shown' = IF w.op = "issue" THEN [shown EXCEPT ![w.key] = w.user] ELSE shown
    /\ UNCHANGED <<email, key, made, ended, passwords, asked, faults>> /\ Sdk

\* get_db.
Commit(t) ==
    LET w == web[t] IN
    /\ w.at = "commit"
    /\ IF w.op = "issue"
       THEN /\ key' = [key EXCEPT ![w.key] = [user |-> w.user, name |-> w.to, revoked |-> FALSE]]
            /\ UNCHANGED ended
       ELSE /\ key' = [key EXCEPT ![w.key].revoked = TRUE]
            /\ ended' = [ended EXCEPT ![w.key] = IF @ = None THEN now ELSE @]
    /\ Close(t)
    /\ UNCHANGED <<email, shown, made, passwords, asked, faults>> /\ Sdk

\* The commit fails, or the process dies before it.
LoseCommit(t) ==
    /\ web[t].at = "commit"
    /\ faults < MaxFaults /\ faults' = faults + 1
    /\ Close(t)
    /\ UNCHANGED <<accounts, asked>> /\ Sdk

Serve(t) == WriteEmail(t) \/ WriteHash(t) \/ WriteKey(t) \/ Commit(t)

-----------------------------------------------------------------------------
(* SDK clients.                                                            *)

Web == UNCHANGED <<accounts, web, asked>>

Update(c, state) == client' = [client EXCEPT ![c] = state]

\* MLDLC(username, api_key): somebody who has been shown a key, which need not be committed.
Make(c, k) ==
    /\ client[c].at = "new" /\ shown[k] # None
    /\ Update(c, [client[c] EXCEPT !.at = "idle", !.email = email[shown[k]], !.key = k])
    /\ UNCHANGED <<ran, now, faults>> /\ Web

\* _request: _authenticate only when there is no token yet.
Call(c) ==
    /\ client[c].at \in {"idle"} \union Over /\ client[c].calls < MaxCalls
    /\ Update(c, [client[c] EXCEPT !.at = IF client[c].token = None THEN "user" ELSE "send",
                  !.again = FALSE, !.who = None, !.begun = now, !.calls = @ + 1])
    /\ ran' = [ran EXCEPT ![c] = 0]
    /\ UNCHANGED <<now, faults>> /\ Web

\* 401: AuthenticationError.
Deny(c) == Update(c, [client[c] EXCEPT !.at = "denied", !.who = None])

\* users:login_with_api_key, first get_by_email,
FindUser(c) ==
    /\ client[c].at = "user"
    /\ \/ \E u \in Users : /\ email[u] = client[c].email
                           /\ Update(c, [client[c] EXCEPT !.at = "key", !.who = u])
       \/ ~Taken(client[c].email) /\ Deny(c)
    /\ UNCHANGED <<ran, now, faults>> /\ Web

\* Without the user that the key is of.
BugValid(k, u) == key[k] # None /\ ~key[k].revoked

\* With whatever keys there are.
BugValidRevoked(k, u) == key[k] # None /\ key[k].user = u

\* authenticate_for_user, then the key's row by its prefix.
Valid(k, u) == key[k] # None /\ ~key[k].revoked /\ key[k].user = u

\* write_token: an hour from now.  The SDK keeps it.
Exchange(c) ==
    LET k == client[c].key  u == client[c].who IN
    /\ client[c].at = "key"
    /\ IF Valid(k, u)
       THEN Update(c, [client[c] EXCEPT !.at = "send", !.who = None,
                       !.token = [user |-> u, key |-> k, exp |-> now + Lifetime]])
       ELSE Deny(c)
    /\ UNCHANGED <<ran, now, faults>> /\ Web

\* A second 401 does not renew the token: _authenticate without force_refresh.
BugUnauthorized(c) ==
    IF client[c].again THEN Deny(c) ELSE Update(c, [client[c] EXCEPT !.at = "send", !.again = TRUE])

\* 401: the first makes _request authenticate again, the second is raised.
Unauthorized(c) ==
    IF client[c].again THEN Deny(c) ELSE Update(c, [client[c] EXCEPT !.at = "user", !.again = TRUE])

\* The endpoint is executed, or not for the answer 401.
Answer(c) ==
    /\ client[c].at = "send"
    /\ IF Live(client[c].token)
       THEN /\ ran' = [ran EXCEPT ![c] = @ + 1]
            /\ Update(c, [client[c] EXCEPT !.at = "done"])
       ELSE /\ Unauthorized(c)
            /\ UNCHANGED ran
    /\ UNCHANGED <<now, faults>> /\ Web

\* A call without an answer is made again.
BugLost(c) == Update(c, [client[c] EXCEPT !.at = IF @ = "send" THEN "send" ELSE "user"])

\* httpx raises: nothing is tried again.
Lost(c) == Update(c, [client[c] EXCEPT !.at = "failed", !.who = None])

\* The answer to a call or to a login does not come: the call may have been executed.
LoseAnswer(c) ==
    /\ client[c].at \in Waiting
    /\ faults < MaxFaults /\ faults' = faults + 1
    /\ ran' = IF client[c].at = "send" /\ Live(client[c].token)
              THEN [ran EXCEPT ![c] = @ + 1] ELSE ran
    /\ Lost(c)
    /\ UNCHANGED now /\ Web

Tick ==
    /\ now < MaxTime /\ now' = now + 1
    /\ UNCHANGED <<client, ran, faults>> /\ Web

Attend(c) == FindUser(c) \/ Exchange(c) \/ Answer(c)

Next ==
    \/ \E t \in Tabs : Ask(t) \/ Serve(t) \/ LoseCommit(t)
    \/ \E c \in Clients :
         \/ \E k \in Keys : Make(c, k)
         \/ Call(c) \/ Attend(c) \/ LoseAnswer(c)
    \/ Tick

Spec == Init /\ [][Next]_vars

\* A request that has reached the control plane is answered.
FairSpec == Spec /\ (\A t \in Tabs : WF_vars(Serve(t))) /\ (\A c \in Clients : WF_vars(Attend(c)))

-----------------------------------------------------------------------------
(* Properties.                                                             *)

\* A call is executed at most once, although the SDK may send it twice and answers get lost;
\* when it returns it was, and AuthenticationError means that it was not.
CallsRunOnce ==
    \A c \in Clients :
        /\ ran[c] <= 1
        /\ client[c].at = "done" => ran[c] = 1
        /\ client[c].at \in {"denied", "user", "key"} => ran[c] = 0

\* A token acts for the user who made the key it was exchanged for, though an address that a client
\* was made with may be another user's by now, or become so between the two queries.
TokensAreTheKeyOwners ==
    \A c \in Clients : client[c].token # None => client[c].token.user = shown[client[c].token.key]

\* A tab asks for something that its token is needed for.
Acts(t) == web[t].at = "idle" /\ web'[t].at # "idle" /\ web'[t].op \notin {"register", "login"}

\* A call that is executed with a token of a revoked key comes within a lifetime of the revocation.
KeysFade ==
    \A c \in Clients :
        LET k == client[c].key IN
        ran'[c] > ran[c] /\ ended[k] # None => now < ended[k] + Lifetime

\* A tab acts with its password as it is now, or within a lifetime of the password's change.
SessionsFade ==
    \A t \in Tabs :
        LET s == session[t] IN
        Acts(t) => s.word = hash[s.user].word \/ now < changed[s.user] + Lifetime

\* What was exchanged for a key or a password works on for a token's lifetime after the key's
\* revocation or the password's replacement, and no longer: no token is ever renewed, and
\* none is made from a key or a password that is not valid any more.
CredentialsFadeOut == [][KeysFade /\ SessionsFade]_vars

\* Nobody's password becomes another one unless they ask for it.  Does not hold when a login
\* replaces an outdated hash that it has read before the user's new password was stored.
PasswordsAreTheUsers ==
    [][\A u \in Users : hash'[u].word # hash[u].word =>
         \E t \in Tabs : web[t].at = "write" /\ web[t].op = "password" /\ web[t].user = u]_vars

\* Why a step that ends a client's call with AuthenticationError may take place.
DenialsExplained ==
    \A c \in Clients :
        LET k == client[c].key IN
        client[c].at # "denied" /\ client'[c].at = "denied" =>
            \/ key[k] = None
            \/ key[k].revoked
            \/ email[shown[k]] # client[c].email
            \/ client[c].at = "key" /\ client[c].who # shown[k]
            \/ now >= client[c].begun + Lifetime

\* A call is refused only when the key is not there, not any more, or not for this address, or
\* when the call has lasted longer than a token: not because the token that the client kept is old.
DenialsAreExplained == [][DenialsExplained]_vars

\* Every call comes back, and so does every web request.
CallsEnd ==
    /\ \A c \in Clients : client[c].at \in Waiting ~> client[c].at \in Over
    /\ \A t \in Tabs : web[t].at # "idle" ~> web[t].at = "idle"
=============================================================================
