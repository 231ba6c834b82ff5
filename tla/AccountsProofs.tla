--------------------------- MODULE AccountsProofs ---------------------------
(***************************************************************************)
(* Keys and tokens, for any number of users, tabs, clients, keys and calls. *)
(*                                                                         *)
(* The argument: a key is shown to the user whose request made it, and to   *)
(* nobody else, since each request makes a key of its own (KeysAreOwned); a *)
(* token carries its key's user and ends a lifetime after it was made, when *)
(* the key was not revoked (TokensAreOfKeys).  So it is with sessions and   *)
(* passwords (SessionsAreOfPasswords).  A call that is still to be answered *)
(* has not been executed (CallsAreFresh): only its answer executes it.      *)
(***************************************************************************)
EXTENDS Accounts, TLAPS

\* What a web request carries, and what it has made sure of.
RequestsAreTyped ==
    \A t \in Tabs : web[t].at # "idle" =>
        /\ web[t].op \in {"register", "change"} => web[t].to \in Emails
        /\ web[t].op \in {"password", "login"} => web[t].to \in Passwords
        /\ web[t].op \in {"issue", "revoke"} => web[t].to \in Names /\ web[t].key \in Keys
        /\ web[t].op = "revoke" => key[web[t].key] # None
        /\ web[t].at = "commit" => web[t].op \in {"issue", "revoke"}

Issuing(t) == web[t].at # "idle" /\ web[t].op = "issue"

\* A key is shown to its user, and one that is being made is in nobody else's hands.
KeysAreOwned ==
    /\ \A k \in Keys : k > made => shown[k] = None /\ key[k] = None
    /\ \A k \in Keys : key[k] # None => shown[k] = key[k].user
    /\ \A t \in Tabs : Issuing(t) =>
         /\ web[t].key <= made /\ key[web[t].key] = None
         /\ shown[web[t].key] = IF web[t].at = "write" THEN None ELSE web[t].user
    /\ \A s, t \in Tabs : s # t /\ Issuing(s) /\ Issuing(t) => web[s].key # web[t].key

\* Nothing has happened in the future.
PastIsPast ==
    /\ \A k \in Keys : ended[k] # None => ended[k] <= now
    /\ \A u \in Users : changed[u] <= now

TokenOfKey(c) ==
    LET k == client[c].key  token == client[c].token IN
    token # None =>
        /\ token.key = k /\ shown[k] = token.user
        /\ token.exp <= now + Lifetime
        /\ ended[k] # None => token.exp <= ended[k] + Lifetime

TokensAreOfKeys ==
    \A c \in Clients :
        /\ client[c].at = "new" => client[c].token = None
        /\ client[c].at # "new" => client[c].key \in Keys /\ shown[client[c].key] # None
        /\ client[c].at = "send" => client[c].token # None
        /\ TokenOfKey(c)

\* The second attempt of a call has a token that was made during the call.
RetriesAreRenewed ==
    \A c \in Clients :
        /\ client[c].begun <= now
        /\ client[c].at = "send" /\ client[c].again =>
             client[c].token.exp >= client[c].begun + Lifetime

SessionsAreOfPasswords ==
    \A t \in Tabs :
        LET s == session[t] IN
        s # None =>
            /\ s.exp <= now + Lifetime
            /\ s.word # hash[s.user].word => s.exp <= changed[s.user] + Lifetime

\* A call is executed by its answer, and by nothing else.
CallsAreFresh ==
    \A c \in Clients :
        /\ client[c].at \in {"new", "denied"} \union Waiting => ran[c] = 0
        /\ client[c].at = "done" => ran[c] = 1
        /\ ran[c] <= 1

AccountsInv ==
    /\ TypeOK
    /\ RequestsAreTyped
    /\ KeysAreOwned
    /\ PastIsPast
    /\ TokensAreOfKeys
    /\ SessionsAreOfPasswords
    /\ CallsAreFresh
    /\ RetriesAreRenewed

-----------------------------------------------------------------------------
(* Types of what there is at first.                                        *)

LEMMA Bounds ==
    /\ MaxKeys \in Nat /\ MaxTime \in Nat /\ MaxAsked \in Nat /\ MaxCalls \in Nat
    /\ MaxFaults \in Nat /\ Lifetime \in Nat
  BY AccountsAssumption DEF AccountsAssumption

LEMMA NoneIsNothing ==
    None \notin Users \union Emails \union Names \union Nat \union Key \union Token
  BY AccountsAssumption DEF AccountsAssumption

LEMMA QuietType == Quiet \in Request /\ Quiet.at = "idle"
<1>1. (CHOOSE u \in Users : TRUE) \in Users /\ (CHOOSE n \in Names : TRUE) \in Names
  BY AccountsAssumption DEF AccountsAssumption
<1> QED
  BY <1>1 DEF Quiet, Request

LEMMA UnmadeType == Unmade \in Client
  BY Bounds DEF Unmade, Client, Time

LEMMA InitInv == Init => AccountsInv
<1> SUFFICES ASSUME Init PROVE AccountsInv
  OBVIOUS
<1>1. TypeOK
  BY AccountsAssumption, Bounds, QuietType, UnmadeType
     DEF AccountsAssumption, Init, TypeOK, Time
<1>2. RequestsAreTyped /\ KeysAreOwned
  BY QuietType DEF Init, RequestsAreTyped, KeysAreOwned, Issuing
<1>3. PastIsPast /\ SessionsAreOfPasswords
  BY DEF Init, PastIsPast, SessionsAreOfPasswords
<1>4. TokensAreOfKeys /\ CallsAreFresh /\ RetriesAreRenewed
  BY DEF Init, TokensAreOfKeys, TokenOfKey, CallsAreFresh, RetriesAreRenewed, Unmade
<1> QED
  BY <1>1, <1>2, <1>3, <1>4 DEF AccountsInv

-----------------------------------------------------------------------------
(* Web requests.                                                           *)

\* What the requests of tabs hold of the others when one of them becomes w.
LEMMA WebShape ==
    ASSUME TypeOK, NEW t \in Tabs, NEW w \in Request, web' = [web EXCEPT ![t] = w]
    PROVE  /\ web' \in [Tabs -> Request]
           /\ web'[t] = w
           /\ \A s \in Tabs \ {t} : web'[s] = web[s]
  BY DEF TypeOK

\* What SDK clients have is untouched by what does not concern keys.
LEMMA ClientsUntouched ==
    ASSUME AccountsInv, UNCHANGED <<client, ran, now, shown, ended>>
    PROVE  TokensAreOfKeys' /\ CallsAreFresh' /\ RetriesAreRenewed'
  BY DEF AccountsInv, TokensAreOfKeys, TokenOfKey, CallsAreFresh, RetriesAreRenewed

\* So are sessions by what does not concern passwords.
LEMMA SessionsUntouched ==
    ASSUME AccountsInv, UNCHANGED <<passwords, now, ended>>
    PROVE  PastIsPast' /\ SessionsAreOfPasswords'
  BY DEF AccountsInv, PastIsPast, SessionsAreOfPasswords, passwords

LEMMA BeginInv ==
    ASSUME AccountsInv, NEW t \in Tabs, NEW op, NEW u \in Users, NEW to,
           NEW k \in Keys \union {0}, Begin(t, op, u, to, k),
           \/ op \in {"register", "change"} /\ to \in Emails
           \/ op \in {"password", "login"} /\ to \in Passwords
           \/ op \in {"issue", "revoke"} /\ to \in Names /\ k \in Keys,
           op = "issue" => made' = made + 1 /\ k = made + 1 /\ made < MaxKeys,
           op # "issue" => made' = made,
           op = "revoke" => key[k] # None
    PROVE  AccountsInv'
<1> DEFINE w == [at |-> "write", op |-> op, user |-> u, to |-> to, key |-> k]
<1>1. w \in Request
  BY DEF Request
<1>2. /\ web' \in [Tabs -> Request]
      /\ web'[t] = w
      /\ \A s \in Tabs \ {t} : web'[s] = web[s]
  BY <1>1, WebShape DEF AccountsInv, Begin
<1>3. UNCHANGED <<email, key, shown, ended, hash, session, changed, faults, client, ran, now>>
  BY DEF Begin, Sdk, passwords
<1>4. made' \in 0..MaxKeys /\ asked' \in 0..MaxAsked /\ made <= made'
  BY Bounds DEF AccountsInv, TypeOK, Begin
<1>5. TypeOK'
  BY <1>2, <1>3, <1>4 DEF AccountsInv, TypeOK
<1>6. RequestsAreTyped'
  BY <1>2, <1>3 DEF AccountsInv, RequestsAreTyped
<1>7. KeysAreOwned'
  <2>1. made \in Nat /\ (op = "issue" => shown[k] = None /\ key[k] = None)
    BY DEF AccountsInv, TypeOK, KeysAreOwned, Keys
  <2>2. \A n \in Keys : n > made' => shown'[n] = None /\ key'[n] = None
    BY <1>3, <1>4, <2>1 DEF AccountsInv, KeysAreOwned, Keys
  <2>3. \A s \in Tabs \ {t} : Issuing(s)' = Issuing(s)
    BY <1>2 DEF Issuing
  <2>4. Issuing(t)' => op = "issue" /\ web'[t].at = "write"
    BY <1>2 DEF Issuing
  <2>5. \A s \in Tabs : Issuing(s)' =>
          /\ web'[s].key <= made' /\ key'[web'[s].key] = None
          /\ shown'[web'[s].key] = IF web'[s].at = "write" THEN None ELSE web'[s].user
    <3> SUFFICES ASSUME NEW s \in Tabs, Issuing(s)'
                 PROVE  /\ web'[s].key <= made' /\ key'[web'[s].key] = None
                        /\ shown'[web'[s].key] = IF web'[s].at = "write" THEN None
                                                 ELSE web'[s].user
      OBVIOUS
    <3>1. CASE s = t
      BY <1>2, <1>3, <2>1, <2>4, <3>1
    <3>2. CASE s # t
      <4>1. Issuing(s) /\ web'[s] = web[s] /\ web[s].key \in Keys \union {0}
        BY <1>2, <2>3, <3>2 DEF AccountsInv, TypeOK, Request
      <4> QED
        BY <1>3, <1>4, <2>1, <4>1 DEF AccountsInv, KeysAreOwned, Keys
    <3> QED
      BY <3>1, <3>2
  <2>6. \A r, s \in Tabs : r # s /\ Issuing(r)' /\ Issuing(s)' => web'[r].key # web'[s].key
    <3>1. \A s \in Tabs \ {t} : Issuing(s) => web[s].key <= made /\ web[s].key \in Keys
      BY DEF AccountsInv, KeysAreOwned, RequestsAreTyped, Issuing
    <3>2. \A s \in Tabs \ {t} : Issuing(t)' /\ Issuing(s)' => web'[t].key # web'[s].key
      BY <1>2, <2>1, <2>3, <2>4, <3>1 DEF Keys
    <3> QED
      BY <1>2, <2>3, <3>2 DEF AccountsInv, KeysAreOwned
  <2> QED
    BY <2>2, <1>3, <2>5, <2>6 DEF AccountsInv, KeysAreOwned
<1> QED
  BY <1>3, <1>5, <1>6, <1>7, ClientsUntouched, SessionsUntouched DEF AccountsInv, passwords

\* A tab whose user has a password gets a token of it.
LEMMA SignInStep ==
    ASSUME AccountsInv, NEW t \in Tabs, NEW u \in Users, NEW p \in Passwords, SignIn(t, u, p)
    PROVE  /\ session' \in [Tabs -> Session \union {None}]
           /\ session'[t].user = u /\ session'[t].word = p /\ session'[t].exp = now + Lifetime
           /\ \A s \in Tabs \ {t} : session'[s] = session[s]
  BY Bounds DEF AccountsInv, TypeOK, SignIn, Session, Time

LEMMA AskInv ==
    ASSUME AccountsInv, NEW t \in Tabs, Ask(t)
    PROVE  AccountsInv'
<1>1. PICK u \in Users :
        \/ \E e \in Emails : AskRegister(t, u, e) \/ AskChange(t, u, e)
        \/ \E p \in Passwords : AskPassword(t, u, p) \/ AskLogin(t, u, p)
        \/ \E n \in Names : AskIssue(t, u, n) \/ AskRevoke(t, u, n)
  BY DEF Ask
<1>2. ASSUME NEW e \in Emails, AskRegister(t, u, e) \/ AskChange(t, u, e) PROVE AccountsInv'
  BY <1>2, BeginInv DEF AskRegister, AskChange
<1>3. ASSUME NEW p \in Passwords, AskPassword(t, u, p) PROVE AccountsInv'
  BY <1>3, BeginInv DEF AskPassword
<1>4. ASSUME NEW p \in Passwords, AskLogin(t, u, p) PROVE AccountsInv'
  <2>1. CASE Begin(t, "login", u, p, 0) /\ UNCHANGED made
    BY <2>1, BeginInv
  <2>2. CASE /\ SignIn(t, u, p) /\ hash[u].word = p
             /\ UNCHANGED <<email, key, shown, made, ended, hash, changed, web, asked, faults>>
             /\ Sdk
    <3>1. /\ session' \in [Tabs -> Session \union {None}]
          /\ session'[t].user = u /\ session'[t].word = p /\ session'[t].exp = now + Lifetime
          /\ \A s \in Tabs \ {t} : session'[s] = session[s]
      BY <2>2, SignInStep
    <3>2. now' = now /\ now + Lifetime \in Nat
      BY <2>2, Bounds DEF Sdk, AccountsInv, TypeOK, Time
    <3>3. TypeOK'
      BY <2>2, <3>1 DEF Sdk, AccountsInv, TypeOK
    <3>4. RequestsAreTyped' /\ KeysAreOwned' /\ PastIsPast'
      BY <2>2 DEF Sdk, AccountsInv, RequestsAreTyped, KeysAreOwned, Issuing, PastIsPast
    <3>5. SessionsAreOfPasswords'
      BY <2>2, <3>1, <3>2 DEF AccountsInv, SessionsAreOfPasswords
    <3> QED
      BY <2>2, <3>3, <3>4, <3>5, ClientsUntouched DEF Sdk, AccountsInv
  <2> QED
    BY <1>4, <2>1, <2>2 DEF AskLogin
<1>5. ASSUME NEW n \in Names, AskIssue(t, u, n) PROVE AccountsInv'
  <2>1. made + 1 \in Keys
    BY <1>5, Bounds DEF AskIssue, AccountsInv, TypeOK, Keys
  <2> QED
    BY <1>5, <2>1, BeginInv DEF AskIssue
<1>6. ASSUME NEW n \in Names, AskRevoke(t, u, n) PROVE AccountsInv'
  <2>1. PICK k \in Named(u, n) : Begin(t, "revoke", u, n, k)
    BY <1>6 DEF AskRevoke
  <2>2. k \in Keys /\ key[k] # None
    BY DEF Named
  <2> QED
    BY <1>6, <2>1, <2>2, BeginInv DEF AskRevoke
<1> QED
  BY <1>1, <1>2, <1>3, <1>4, <1>5, <1>6

\* The end of a web request that has changed no key.
LEMMA CloseStep ==
    ASSUME AccountsInv, NEW t \in Tabs, Close(t), UNCHANGED <<key, shown, made>>
    PROVE  /\ web' \in [Tabs -> Request]
           /\ RequestsAreTyped'
           /\ KeysAreOwned'
<1>1. /\ web' \in [Tabs -> Request]
      /\ web'[t].at = "idle"
      /\ \A s \in Tabs \ {t} : web'[s] = web[s]
  BY QuietType, WebShape DEF AccountsInv, Close
<1>2. RequestsAreTyped'
  BY <1>1 DEF AccountsInv, RequestsAreTyped
<1>3. /\ ~Issuing(t)'
      /\ \A s \in Tabs \ {t} : Issuing(s)' = Issuing(s)
  BY <1>1 DEF Issuing
<1>4. KeysAreOwned'
  BY <1>1, <1>3 DEF AccountsInv, KeysAreOwned
<1> QED
  BY <1>1, <1>2, <1>4

LEMMA WriteEmailInv ==
    ASSUME AccountsInv, NEW t \in Tabs, WriteEmail(t)
    PROVE  AccountsInv'
<1>1. /\ Close(t)
      /\ UNCHANGED <<key, shown, made, ended, passwords, asked, faults, client, ran, now>>
  BY DEF WriteEmail, Sdk
<1>2. web' \in [Tabs -> Request] /\ RequestsAreTyped' /\ KeysAreOwned'
  BY <1>1, CloseStep
<1>3. /\ email' \in [Users -> Emails \union {None}]
      /\ \A u, v \in Users : u # v => email'[u] # email'[v] \/ email'[u] = None
  <2>1. CASE email' = email
    BY <2>1 DEF AccountsInv, TypeOK
  <2>2. CASE ~Taken(web[t].to) /\ email' = [email EXCEPT ![web[t].user] = web[t].to]
    <3>1. web[t].to \in Emails /\ web[t].user \in Users
      BY DEF AccountsInv, RequestsAreTyped, TypeOK, Request, WriteEmail
    <3> QED
      BY <2>2, <3>1 DEF AccountsInv, TypeOK, Taken
  <2> QED
    BY <2>1, <2>2 DEF WriteEmail
<1>4. TypeOK'
  BY <1>1, <1>2, <1>3 DEF AccountsInv, TypeOK, passwords
<1> QED
  BY <1>1, <1>2, <1>4, ClientsUntouched, SessionsUntouched DEF AccountsInv

LEMMA WriteHashInv ==
    ASSUME AccountsInv, NEW t \in Tabs, WriteHash(t)
    PROVE  AccountsInv'
<1> DEFINE u == web[t].user
           p == web[t].to
<1>1. /\ Close(t)
      /\ UNCHANGED <<email, key, shown, made, ended, asked, faults, client, ran, now>>
  BY DEF WriteHash, Sdk
<1>2. web' \in [Tabs -> Request] /\ RequestsAreTyped' /\ KeysAreOwned'
  BY <1>1, CloseStep
<1>3. u \in Users /\ p \in Passwords
  BY DEF AccountsInv, RequestsAreTyped, TypeOK, Request, WriteHash
<1>4. now \in Time /\ now \in Nat /\ changed \in [Users -> Time]
  BY Bounds DEF AccountsInv, TypeOK, Time
<1>5. /\ hash' \in [Users -> Hash]
      /\ hash'[u].word = p
      /\ \A v \in Users \ {u} : hash'[v] = hash[v]
  BY <1>3 DEF AccountsInv, TypeOK, WriteHash, Hash
<1>6. /\ changed' \in [Users -> Time]
      /\ changed'[u] = IF hash[u].word = p THEN changed[u] ELSE now
      /\ \A v \in Users \ {u} : changed'[v] = changed[v]
  BY <1>3, <1>4 DEF WriteHash
<1>7. /\ session' \in [Tabs -> Session \union {None}]
      /\ \/ session'[t] = session[t]
         \/ session'[t].user = u /\ session'[t].word = p /\ session'[t].exp = now + Lifetime
      /\ \A s \in Tabs \ {t} : session'[s] = session[s]
  BY <1>3, SignInStep DEF AccountsInv, TypeOK, WriteHash
<1>8. TypeOK'
  BY <1>1, <1>2, <1>5, <1>6, <1>7 DEF AccountsInv, TypeOK
<1>9. PastIsPast'
  BY <1>1, <1>3, <1>4, <1>6 DEF AccountsInv, PastIsPast, Time
<1>10. SessionsAreOfPasswords'
  <2> SUFFICES ASSUME NEW s \in Tabs, session'[s] # None
               PROVE  /\ session'[s].exp <= now + Lifetime
                      /\ session'[s].word # hash'[session'[s].user].word =>
                            session'[s].exp <= changed'[session'[s].user] + Lifetime
    BY <1>1 DEF SessionsAreOfPasswords
  <2>1. CASE session'[s] = session[s]
    <3>1. /\ session[s] \in Session /\ session[s].exp <= now + Lifetime
          /\ session[s].word # hash[session[s].user].word =>
                session[s].exp <= changed[session[s].user] + Lifetime
      BY <2>1 DEF AccountsInv, TypeOK, SessionsAreOfPasswords
    <3>2. CASE session[s].user = u
      BY <1>3, <1>5, <1>6, <2>1, <3>1, <3>2
    <3>3. CASE session[s].user # u
      BY <1>5, <1>6, <2>1, <3>1, <3>3 DEF Session
    <3> QED
      BY <3>2, <3>3
  <2>2. CASE /\ session'[s].user = u /\ session'[s].word = p
             /\ session'[s].exp = now + Lifetime
    BY <1>4, <1>5, <2>2, Bounds
  <2> QED
    BY <1>7, <2>1, <2>2
<1> QED
  BY <1>1, <1>2, <1>8, <1>9, <1>10, ClientsUntouched DEF AccountsInv

\* A key that is shown for the first time is not one that a client has.
LEMMA WriteKeyInv ==
    ASSUME AccountsInv, NEW t \in Tabs, WriteKey(t)
    PROVE  AccountsInv'
<1> DEFINE k == web[t].key
<1>1. /\ UNCHANGED <<email, key, made, ended, passwords, asked, faults, client, ran, now>>
      /\ web[t].at = "write" /\ web[t].op \in {"issue", "revoke"}
      /\ k \in Keys /\ web[t].user \in Users /\ web[t] \in Request
  BY DEF WriteKey, Sdk, AccountsInv, RequestsAreTyped, TypeOK, Request
<1>2. CASE Close(t) /\ UNCHANGED shown
  <2>1. web' \in [Tabs -> Request] /\ RequestsAreTyped' /\ KeysAreOwned'
    BY <1>1, <1>2, CloseStep
  <2>2. TypeOK'
    BY <1>1, <1>2, <2>1 DEF AccountsInv, TypeOK, passwords
  <2> QED
    BY <1>1, <1>2, <2>1, <2>2, ClientsUntouched, SessionsUntouched DEF AccountsInv
<1>3. CASE /\ web' = [web EXCEPT ![t].at = "commit"]
           /\ shown' = IF web[t].op = "issue" THEN [shown EXCEPT ![k] = web[t].user] ELSE shown
  <2>1. /\ web' \in [Tabs -> Request]
        /\ web'[t].at = "commit" /\ web'[t].op = web[t].op /\ web'[t].user = web[t].user
        /\ web'[t].to = web[t].to /\ web'[t].key = k
        /\ \A s \in Tabs \ {t} : web'[s] = web[s]
    BY <1>1, <1>3 DEF AccountsInv, TypeOK, Request
  <2>2. /\ shown' \in [Keys -> Users \union {None}]
        /\ web[t].op = "issue" => shown[k] = None /\ shown'[k] = web[t].user
        /\ web[t].op # "issue" => shown' = shown
        /\ \A n \in Keys \ {k} : shown'[n] = shown[n]
    BY <1>1, <1>3 DEF AccountsInv, TypeOK, KeysAreOwned, Issuing
  <2>3. TypeOK'
    BY <1>1, <2>1, <2>2 DEF AccountsInv, TypeOK, passwords
  <2>4. RequestsAreTyped'
    BY <1>1, <2>1 DEF AccountsInv, RequestsAreTyped
  <2>5. KeysAreOwned'
    <3>1. \A s \in Tabs : Issuing(s)' = Issuing(s)
      BY <1>1, <2>1 DEF Issuing
    <3>2. Issuing(t) => k <= made /\ key[k] = None
      BY DEF AccountsInv, KeysAreOwned
    <3>3. web[t].op = "issue" => Issuing(t)
      BY <1>1 DEF Issuing
    <3>4. \A n \in Keys : n > made' => shown'[n] = None /\ key'[n] = None
      BY <1>1, <2>2, <3>2, <3>3 DEF AccountsInv, KeysAreOwned, TypeOK, Keys
    <3>5. \A n \in Keys : key'[n] # None => shown'[n] = key'[n].user
      BY <1>1, <2>2, <3>2, <3>3 DEF AccountsInv, KeysAreOwned
    <3>6. \A s \in Tabs : Issuing(s)' =>
            /\ web'[s].key <= made' /\ key'[web'[s].key] = None
            /\ shown'[web'[s].key] = IF web'[s].at = "write" THEN None ELSE web'[s].user
      <4> SUFFICES ASSUME NEW s \in Tabs, Issuing(s)'
                   PROVE  /\ web'[s].key <= made' /\ key'[web'[s].key] = None
                          /\ shown'[web'[s].key] = IF web'[s].at = "write" THEN None
                                                   ELSE web'[s].user
        OBVIOUS
      <4>1. CASE s = t
        BY <1>1, <2>1, <2>2, <3>1, <3>2, <4>1 DEF Issuing
      <4>2. CASE s # t
        <5>1. Issuing(s) /\ web'[s] = web[s] /\ web[s].key \in Keys
          BY <2>1, <3>1, <4>2 DEF AccountsInv, RequestsAreTyped, Issuing
        <5>2. web[t].op = "issue" => web[s].key # k
          BY <3>3, <4>2, <5>1 DEF AccountsInv, KeysAreOwned
        <5>3. shown'[web[s].key] = shown[web[s].key]
          BY <2>2, <5>1, <5>2
        <5> QED
          BY <1>1, <5>1, <5>3 DEF AccountsInv, KeysAreOwned
      <4> QED
        BY <4>1, <4>2
    <3>7. \A r, s \in Tabs : r # s /\ Issuing(r)' /\ Issuing(s)' => web'[r].key # web'[s].key
      BY <2>1, <3>1 DEF AccountsInv, KeysAreOwned
    <3> QED
      BY <3>4, <3>5, <3>6, <3>7 DEF KeysAreOwned
  <2>6. TokensAreOfKeys'
    <3>1. \A c \in Clients : client[c].at # "new" =>
            shown'[client[c].key] = shown[client[c].key]
      BY <2>2 DEF AccountsInv, TokensAreOfKeys
    <3>2. \A c \in Clients : client[c].token # None => client[c].at # "new" /\ TokenOfKey(c)
      BY DEF AccountsInv, TokensAreOfKeys
    <3>3. \A c \in Clients : TokenOfKey(c)'
      BY <1>1, <3>1, <3>2 DEF TokenOfKey
    <3> QED
      BY <1>1, <3>1, <3>3 DEF AccountsInv, TokensAreOfKeys
  <2>7. CallsAreFresh' /\ RetriesAreRenewed'
    BY <1>1 DEF AccountsInv, CallsAreFresh, RetriesAreRenewed
  <2> QED
    BY <1>1, <2>3, <2>4, <2>5, <2>6, <2>7, SessionsUntouched DEF AccountsInv
<1> QED
  BY <1>2, <1>3 DEF WriteKey

\* What SDK clients have when a key's row changes: a revocation is noted as it happens.
LEMMA CommitInv ==
    ASSUME AccountsInv, NEW t \in Tabs, Commit(t)
    PROVE  AccountsInv'
<1> DEFINE k == web[t].key
<1>1. /\ UNCHANGED <<email, shown, made, passwords, asked, faults, client, ran, now>>
      /\ web[t].at = "commit" /\ web[t].op \in {"issue", "revoke"} /\ Close(t)
      /\ k \in Keys /\ web[t].user \in Users /\ web[t].to \in Names
  BY DEF Commit, Sdk, AccountsInv, RequestsAreTyped, TypeOK, Request
<1>2. /\ web' \in [Tabs -> Request]
      /\ web'[t].at = "idle"
      /\ \A s \in Tabs \ {t} : web'[s] = web[s]
  BY <1>1, QuietType, WebShape DEF AccountsInv, Close
<1>3. /\ ~Issuing(t)'
      /\ \A s \in Tabs \ {t} : Issuing(s)' = Issuing(s)
  BY <1>2 DEF Issuing
<1>4. now \in Time /\ now \in Nat /\ now # None
  BY Bounds, NoneIsNothing DEF AccountsInv, TypeOK, Time
<1>5. /\ key' \in [Keys -> Key \union {None}] /\ ended' \in [Keys -> Time \union {None}]
      /\ key'[k] \in Key
      /\ key'[k].user = shown[k]
      /\ ended'[k] # None <=> key'[k].revoked
      /\ ended'[k] = ended[k] \/ (ended[k] = None /\ ended'[k] = now)
      /\ \A n \in Keys \ {k} : key'[n] = key[n] /\ ended'[n] = ended[n]
  <2>1. CASE web[t].op = "issue"
    <3>1. Issuing(t) /\ web[t].at # "write"
      BY <1>1, <2>1 DEF Issuing
    <3>2. key[k] = None /\ shown[k] = web[t].user
      BY <3>1 DEF AccountsInv, KeysAreOwned
    <3>3. /\ key' = [key EXCEPT ![k] = [user |-> web[t].user, name |-> web[t].to,
                                        revoked |-> FALSE]]
          /\ ended' = ended
      BY <2>1 DEF Commit
    <3>4. PICK row \in Key : /\ row.user = web[t].user /\ ~row.revoked
                            /\ key' = [key EXCEPT ![k] = row]
      BY <1>1, <3>3 DEF Key
    <3>5. ended[k] = None /\ ended \in [Keys -> Time \union {None}]
      BY <1>1, <3>2 DEF AccountsInv, TypeOK
    <3>6. /\ key' \in [Keys -> Key \union {None}] /\ key'[k] = row
          /\ \A n \in Keys \ {k} : key'[n] = key[n]
      BY <1>1, <3>4 DEF AccountsInv, TypeOK
    <3>7. ended'[k] # None <=> key'[k].revoked
      BY <3>3, <3>4, <3>5, <3>6, Zenon
    <3> QED
      BY <3>2, <3>3, <3>4, <3>5, <3>6, <3>7
  <2>2. CASE web[t].op = "revoke"
    <3>1. key[k] # None /\ key[k] \in Key
      BY <1>1, <2>2 DEF AccountsInv, RequestsAreTyped, TypeOK
    <3>2. key' = [key EXCEPT ![k] = [key[k] EXCEPT !.revoked = TRUE]]
      BY <2>2 DEF Commit
    <3>3. PICK row \in Key : /\ row.user = key[k].user /\ row.revoked
                            /\ key' = [key EXCEPT ![k] = row]
      BY <3>1, <3>2 DEF Key
    <3>4. /\ key' \in [Keys -> Key \union {None}] /\ key'[k] = row
          /\ \A n \in Keys \ {k} : key'[n] = key[n]
      BY <1>1, <3>3 DEF AccountsInv, TypeOK
    <3>5. key[k].user = shown[k]
      BY <1>1, <3>1 DEF AccountsInv, KeysAreOwned
    <3>6. /\ ended' \in [Keys -> Time \union {None}]
          /\ ended'[k] = IF ended[k] = None THEN now ELSE ended[k]
          /\ \A n \in Keys \ {k} : ended'[n] = ended[n]
      BY <1>1, <1>4, <2>2 DEF Commit, AccountsInv, TypeOK
    <3>7. ended'[k] # None <=> key'[k].revoked
      BY <1>4, <3>3, <3>4, <3>6, Zenon
    <3> QED
      BY <3>3, <3>4, <3>5, <3>6, <3>7
  <2> QED
    BY <1>1, <2>1, <2>2
<1>6. TypeOK'
  <2>1. key'[k] # None
    BY <1>5, NoneIsNothing
  <2>2. \A n \in Keys : ended'[n] # None <=> key'[n] # None /\ key'[n].revoked
    BY <1>5, <2>1 DEF AccountsInv, TypeOK
  <2> QED
    BY <1>1, <1>2, <1>5, <2>2 DEF AccountsInv, TypeOK, passwords
<1>7. RequestsAreTyped'
  <2>1. \A n \in Keys : key[n] # None => key'[n] # None
    BY <1>5, NoneIsNothing
  <2> QED
    BY <1>2, <2>1 DEF AccountsInv, RequestsAreTyped
<1>8. KeysAreOwned'
  <2>1. shown[k] # None
    BY <1>5, NoneIsNothing DEF Key
  <2>2. \A n \in Keys : n > made' => shown'[n] = None /\ key'[n] = None
    BY <1>1, <1>5, <2>1 DEF AccountsInv, KeysAreOwned
  <2>3. \A n \in Keys : key'[n] # None => shown'[n] = key'[n].user
    BY <1>1, <1>5 DEF AccountsInv, KeysAreOwned
  <2>4. \A s \in Tabs \ {t} : Issuing(s) => web[s].key \in Keys \ {k}
    <3> SUFFICES ASSUME NEW s \in Tabs \ {t}, Issuing(s), web[s].key = k PROVE FALSE
      BY DEF AccountsInv, RequestsAreTyped, Issuing
    <3>1. key[k] = None /\ shown[k] = IF web[s].at = "write" THEN None ELSE web[s].user
      BY DEF AccountsInv, KeysAreOwned
    <3>2. CASE web[t].op = "issue"
      BY <1>1, <3>2 DEF AccountsInv, KeysAreOwned, Issuing
    <3>3. CASE web[t].op = "revoke"
      BY <1>1, <3>1, <3>3 DEF AccountsInv, RequestsAreTyped
    <3> QED
      BY <1>1, <3>2, <3>3
  <2>5. \A s \in Tabs : Issuing(s)' =>
          /\ web'[s].key <= made' /\ key'[web'[s].key] = None
          /\ shown'[web'[s].key] = IF web'[s].at = "write" THEN None ELSE web'[s].user
    BY <1>1, <1>2, <1>3, <1>5, <2>4 DEF AccountsInv, KeysAreOwned
  <2>6. \A r, s \in Tabs : r # s /\ Issuing(r)' /\ Issuing(s)' => web'[r].key # web'[s].key
    BY <1>2, <1>3 DEF AccountsInv, KeysAreOwned
  <2> QED
    BY <2>2, <2>3, <2>5, <2>6 DEF KeysAreOwned
<1>9. PastIsPast'
  BY <1>1, <1>4, <1>5 DEF AccountsInv, PastIsPast, passwords
<1>10. SessionsAreOfPasswords'
  BY <1>1 DEF AccountsInv, SessionsAreOfPasswords, passwords
<1>11. TokensAreOfKeys'
  <2> SUFFICES ASSUME NEW c \in Clients, client[c].token # None PROVE TokenOfKey(c)'
    BY <1>1 DEF AccountsInv, TokensAreOfKeys, TokenOfKey
  <2>1. TokenOfKey(c) /\ client[c].key \in Keys
    BY DEF AccountsInv, TokensAreOfKeys
  <2>2. CASE client[c].key = k
    BY <1>1, <1>5, <2>1, <2>2 DEF TokenOfKey
  <2>3. CASE client[c].key # k
    BY <1>1, <1>5, <2>1, <2>3 DEF TokenOfKey
  <2> QED
    BY <2>2, <2>3
<1>12. CallsAreFresh' /\ RetriesAreRenewed'
  BY <1>1 DEF AccountsInv, CallsAreFresh, RetriesAreRenewed
<1> QED
  BY <1>6, <1>7, <1>8, <1>9, <1>10, <1>11, <1>12 DEF AccountsInv

LEMMA LoseCommitInv ==
    ASSUME AccountsInv, NEW t \in Tabs, LoseCommit(t)
    PROVE  AccountsInv'
<1>1. /\ Close(t) /\ faults' \in 0..MaxFaults
      /\ UNCHANGED <<email, key, shown, made, ended, passwords, asked, client, ran, now>>
  BY Bounds DEF LoseCommit, Sdk, accounts, AccountsInv, TypeOK
<1>2. web' \in [Tabs -> Request] /\ RequestsAreTyped' /\ KeysAreOwned'
  BY <1>1, CloseStep
<1>3. TypeOK'
  BY <1>1, <1>2 DEF AccountsInv, TypeOK, passwords
<1> QED
  BY <1>1, <1>2, <1>3, ClientsUntouched, SessionsUntouched DEF AccountsInv

-----------------------------------------------------------------------------
(* SDK clients and the clock.                                              *)

\* A step of one client that leaves it in a state as the invariant has it.
LEMMA ClientStep ==
    ASSUME AccountsInv, NEW c \in Clients, NEW state \in Client, Update(c, state), Web,
           now' = now, faults' \in 0..MaxFaults,
           ran' \in [Clients -> Nat], \A d \in Clients \ {c} : ran'[d] = ran[d],
           state.at # "new", state.key \in Keys, shown[state.key] # None,
           state.at = "send" => state.token # None,
           state.token # None =>
               /\ state.token.key = state.key /\ shown[state.key] = state.token.user
               /\ state.token.exp <= now + Lifetime
               /\ ended[state.key] # None => state.token.exp <= ended[state.key] + Lifetime,
           state.at \in {"denied"} \union Waiting => ran'[c] = 0,
           state.at = "done" => ran'[c] = 1,
           ran'[c] <= 1,
           state.begun <= now,
           state.at = "send" /\ state.again => state.token.exp >= state.begun + Lifetime
    PROVE  AccountsInv'
<1>1. /\ client' \in [Clients -> Client]
      /\ client'[c] = state
      /\ \A d \in Clients \ {c} : client'[d] = client[d]
  BY DEF AccountsInv, TypeOK, Update
<1>2. UNCHANGED <<email, key, shown, made, ended, hash, session, changed, web, asked, now>>
  BY DEF Web, accounts, passwords
<1>3. TypeOK'
  BY <1>1, <1>2 DEF AccountsInv, TypeOK
<1>4. RequestsAreTyped' /\ KeysAreOwned' /\ PastIsPast' /\ SessionsAreOfPasswords'
  BY <1>2 DEF AccountsInv, RequestsAreTyped, KeysAreOwned, Issuing, PastIsPast,
              SessionsAreOfPasswords
<1>5. TokensAreOfKeys'
  <2>1. \A d \in Clients \ {c} : TokenOfKey(d)'
    BY <1>1, <1>2 DEF AccountsInv, TokensAreOfKeys, TokenOfKey
  <2>2. TokenOfKey(c)'
    BY <1>1, <1>2 DEF TokenOfKey
  <2> QED
    BY <1>1, <1>2, <2>1, <2>2 DEF AccountsInv, TokensAreOfKeys
<1>6. CallsAreFresh'
  BY <1>1 DEF AccountsInv, CallsAreFresh
<1>7. RetriesAreRenewed'
  BY <1>1, <1>2 DEF AccountsInv, RetriesAreRenewed
<1> QED
  BY <1>3, <1>4, <1>5, <1>6, <1>7 DEF AccountsInv

\* What is known of a client that is not new.
LEMMA ClientFacts ==
    ASSUME AccountsInv, NEW c \in Clients, client[c].at # "new"
    PROVE  /\ client[c] \in Client /\ client[c].key \in Keys
           /\ shown[client[c].key] # None /\ client[c].begun <= now
           /\ client[c].at = "send" => client[c].token # None
           /\ client[c].token # None =>
                /\ client[c].token \in Token
                /\ client[c].token.key = client[c].key
                /\ shown[client[c].key] = client[c].token.user
                /\ client[c].token.exp <= now + Lifetime
                /\ ended[client[c].key] # None =>
                     client[c].token.exp <= ended[client[c].key] + Lifetime
           /\ client[c].at \in {"denied"} \union Waiting => ran[c] = 0
           /\ client[c].at = "done" => ran[c] = 1
           /\ ran[c] <= 1 /\ ran[c] \in Nat /\ ran \in [Clients -> Nat]
           /\ now \in Time /\ faults \in 0..MaxFaults
  BY DEF AccountsInv, TypeOK, Client, TokensAreOfKeys, TokenOfKey, CallsAreFresh,
         RetriesAreRenewed

LEMMA MakeInv ==
    ASSUME AccountsInv, NEW c \in Clients, NEW k \in Keys, Make(c, k)
    PROVE  AccountsInv'
<1> DEFINE state == [client[c] EXCEPT !.at = "idle", !.email = email[shown[k]], !.key = k]
<1>1. /\ client[c] \in Client /\ client[c].token = None /\ ran[c] = 0
      /\ ran \in [Clients -> Nat] /\ faults \in 0..MaxFaults /\ client[c].begun <= now
  BY DEF AccountsInv, TypeOK, TokensAreOfKeys, CallsAreFresh, RetriesAreRenewed, Make
<1>2. email[shown[k]] \in Emails \union {None}
  BY DEF AccountsInv, TypeOK, Make
<1>3. /\ state \in Client /\ state.at = "idle" /\ state.key = k /\ state.token = None
      /\ state.begun = client[c].begun
      /\ Update(c, state)
  BY <1>1, <1>2 DEF Make, Client
<1> HIDE DEF state
<1> QED
  BY <1>1, <1>3, ClientStep DEF Make, Waiting

LEMMA CallInv ==
    ASSUME AccountsInv, NEW c \in Clients, Call(c)
    PROVE  AccountsInv'
<1> DEFINE at == IF client[c].token = None THEN "user" ELSE "send"
           calls == client[c].calls + 1
           state == [client[c] EXCEPT !.at = at, !.again = FALSE, !.who = None,
                                      !.begun = now, !.calls = calls]
<1>1. client[c].at # "new"
  BY DEF Call, Over
<1>2. /\ calls \in 0..MaxCalls /\ at \in {"user", "send"} /\ now \in Time
      /\ client[c] \in Client
  BY <1>1, ClientFacts, Bounds DEF Call, Client
<1>3. /\ state \in Client /\ state.key = client[c].key /\ state.token = client[c].token
      /\ state.at = at /\ state.begun = now /\ state.again = FALSE
  <2> HIDE DEF at, calls
  <2>1. state \in Client
    BY <1>2 DEF Client, Waiting
  <2> QED
    BY <1>2, <2>1 DEF Client
<1>4. /\ ran' \in [Clients -> Nat] /\ ran'[c] = 0
      /\ \A d \in Clients \ {c} : ran'[d] = ran[d]
  BY <1>1, ClientFacts DEF Call
<1>5. Update(c, state)
  BY DEF Call, Update
<1>6. now <= now /\ ~(state.at = "send" /\ state.again)
  BY <1>1, <1>3, ClientFacts, Bounds DEF Time
<1> HIDE DEF state
<1> QED
  BY <1>1, <1>3, <1>4, <1>5, <1>6, ClientFacts, ClientStep DEF Call

\* What a step makes of the record of a client that waits, when its token stays.
Goes(c, state, at) ==
    /\ state \in Client /\ Update(c, state)
    /\ state.key = client[c].key /\ state.token = client[c].token
    /\ state.begun = client[c].begun
    /\ state.at = at

LEMMA WaitingInv ==
    ASSUME AccountsInv, NEW c \in Clients, client[c].at \in Waiting, Web, now' = now,
           faults' \in 0..MaxFaults,
           NEW state, NEW at \in {"user", "key"} \union Over, Goes(c, state, at),
           ran' \in [Clients -> Nat], \A d \in Clients \ {c} : ran'[d] = ran[d],
           at \in {"denied", "user", "key"} => ran'[c] = 0,
           at = "done" => ran'[c] = 1,
           ran'[c] <= 1
    PROVE  AccountsInv'
<1>1. client[c].at # "new"
  BY DEF Waiting
<1>2. /\ at # "new" /\ at # "send"
      /\ at \in {"denied"} \union Waiting => ran'[c] = 0
  BY DEF Waiting, Over
<1> QED
  BY <1>1, <1>2, ClientFacts, ClientStep DEF Goes

\* The steps without a token and without an execution: the call goes on or is denied.
LEMMA DenyGoes ==
    ASSUME NEW c \in Clients, client[c] \in Client, Deny(c)
    PROVE  \E state : Goes(c, state, "denied")
<1> DEFINE state == [client[c] EXCEPT !.at = "denied", !.who = None]
<1>1. Goes(c, state, "denied")
  BY DEF Goes, Deny, Client, Over
<1> QED
  BY <1>1

LEMMA QuietInv ==
    ASSUME AccountsInv, NEW c \in Clients, client[c].at \in Waiting, Web, now' = now,
           ran' = ran, faults' = faults,
           NEW state, NEW at \in {"user", "key", "denied"}, Goes(c, state, at)
    PROVE  AccountsInv'
<1>1. client[c].at # "new"
  BY DEF Waiting
<1>2. ran[c] = 0 /\ ran \in [Clients -> Nat] /\ faults \in 0..MaxFaults
  BY <1>1, ClientFacts
<1>3. at \in {"user", "key"} \union Over /\ at # "done"
  BY DEF Over
<1> QED
  BY <1>2, <1>3, WaitingInv

LEMMA FindUserInv ==
    ASSUME AccountsInv, NEW c \in Clients, FindUser(c)
    PROVE  AccountsInv'
<1>1. /\ client[c].at \in Waiting /\ client[c].at # "new"
      /\ Web /\ now' = now /\ ran' = ran /\ faults' = faults
  BY DEF FindUser, Waiting
<1>2. client[c] \in Client
  BY <1>1, ClientFacts
<1>3. ASSUME NEW u \in Users, Update(c, [client[c] EXCEPT !.at = "key", !.who = u])
      PROVE  AccountsInv'
  <2> DEFINE state == [client[c] EXCEPT !.at = "key", !.who = u]
  <2>1. Goes(c, state, "key")
    BY <1>2, <1>3 DEF Goes, Client, Waiting
  <2> HIDE DEF state
  <2> QED
    BY <1>1, <2>1, QuietInv
<1>4. CASE Deny(c)
  BY <1>1, <1>2, <1>4, DenyGoes, QuietInv
<1> QED
  BY <1>3, <1>4 DEF FindUser

\* The token of an exchange is the key's user's, and made while the key was not revoked.
LEMMA ExchangeInv ==
    ASSUME AccountsInv, NEW c \in Clients, Exchange(c)
    PROVE  AccountsInv'
<1> DEFINE k == client[c].key
           u == client[c].who
<1>1. /\ client[c].at \in Waiting /\ client[c].at # "new"
      /\ Web /\ now' = now /\ ran' = ran /\ faults' = faults
  BY DEF Exchange, Waiting
<1>2. /\ client[c] \in Client /\ ran[c] = 0 /\ ran \in [Clients -> Nat]
      /\ faults \in 0..MaxFaults /\ k \in Keys /\ now \in Time
      /\ client[c].begun <= now /\ client[c].begun \in Time
  BY <1>1, ClientFacts DEF Client
<1>3. CASE Deny(c)
  BY <1>1, <1>2, <1>3, DenyGoes, QuietInv
<1>4. CASE /\ Valid(k, u)
           /\ Update(c, [client[c] EXCEPT !.at = "send", !.who = None,
                            !.token = [user |-> u, key |-> k, exp |-> now + Lifetime]])
  <2> DEFINE token == [user |-> u, key |-> k, exp |-> now + Lifetime]
             state == [client[c] EXCEPT !.at = "send", !.who = None, !.token = token]
  <2>1. key[k] \in Key /\ key[k].user = u /\ shown[k] = u /\ ended[k] = None
    BY <1>2, <1>4 DEF Valid, AccountsInv, TypeOK, KeysAreOwned
  <2>2. token \in Token
    BY <1>2, <2>1, Bounds DEF Token, Time, Key
  <2>3. token # None /\ token.key = k /\ token.user = u /\ token.exp = now + Lifetime
    BY <2>2, NoneIsNothing
  <2> HIDE DEF token
  <2>4. /\ state \in Client /\ state.at = "send" /\ state.key = k /\ state.token = token
        /\ state.begun = client[c].begun
    BY <1>2, <2>2 DEF Client, Waiting
  <2>5. Update(c, state)
    BY <1>4 DEF token
  <2>6. now + Lifetime <= now + Lifetime /\ now + Lifetime >= client[c].begun + Lifetime
    BY <1>2, Bounds DEF Time
  <2>7. shown[k] # None
    BY <1>1, ClientFacts
  <2> HIDE DEF state
  <2> QED
    BY <1>1, <1>2, <2>1, <2>3, <2>4, <2>5, <2>6, <2>7, ClientStep
<1> QED
  BY <1>3, <1>4 DEF Exchange

LEMMA AnswerInv ==
    ASSUME AccountsInv, NEW c \in Clients, Answer(c)
    PROVE  AccountsInv'
<1>1. /\ client[c].at \in Waiting /\ client[c].at # "new"
      /\ Web /\ now' = now /\ faults' = faults
  BY DEF Answer, Waiting
<1>2. client[c] \in Client /\ ran[c] = 0 /\ ran \in [Clients -> Nat] /\ faults' \in 0..MaxFaults
  BY <1>1, ClientFacts
<1>3. CASE ran' = [ran EXCEPT ![c] = ran[c] + 1] /\ Update(c, [client[c] EXCEPT !.at = "done"])
  <2> DEFINE state == [client[c] EXCEPT !.at = "done"]
  <2>1. /\ ran' \in [Clients -> Nat] /\ ran'[c] = 1
        /\ \A d \in Clients \ {c} : ran'[d] = ran[d]
    BY <1>2, <1>3
  <2>2. Goes(c, state, "done") /\ "done" \in {"user", "key"} \union Over
    BY <1>2, <1>3 DEF Goes, Client, Over
  <2> HIDE DEF state
  <2> QED
    BY <1>1, <1>2, <2>1, <2>2, WaitingInv
<1>4. CASE ran' = ran /\ Deny(c)
  BY <1>1, <1>2, <1>4, DenyGoes, QuietInv
<1>5. CASE ran' = ran /\ Update(c, [client[c] EXCEPT !.at = "user", !.again = TRUE])
  <2> DEFINE state == [client[c] EXCEPT !.at = "user", !.again = TRUE]
  <2>1. Goes(c, state, "user")
    BY <1>2, <1>5 DEF Goes, Client, Waiting
  <2> HIDE DEF state
  <2> QED
    BY <1>1, <1>5, <2>1, QuietInv
<1> QED
  BY <1>3, <1>4, <1>5 DEF Answer, Unauthorized

LEMMA LoseAnswerInv ==
    ASSUME AccountsInv, NEW c \in Clients, LoseAnswer(c)
    PROVE  AccountsInv'
<1> DEFINE state == [client[c] EXCEPT !.at = "failed", !.who = None]
<1>1. client[c].at \in Waiting /\ client[c].at # "new" /\ Web /\ now' = now
  BY DEF LoseAnswer, Waiting
<1>2. /\ client[c] \in Client /\ ran[c] = 0 /\ ran \in [Clients -> Nat]
      /\ faults' \in 0..MaxFaults
  BY <1>1, ClientFacts, Bounds DEF LoseAnswer
<1>3. /\ ran' \in [Clients -> Nat] /\ ran'[c] <= 1
      /\ \A d \in Clients \ {c} : ran'[d] = ran[d]
  BY <1>2 DEF LoseAnswer
<1>4. Goes(c, state, "failed") /\ "failed" \in {"user", "key"} \union Over
  BY <1>2 DEF Goes, LoseAnswer, Lost, Client, Over
<1> HIDE DEF state
<1> QED
  BY <1>1, <1>2, <1>3, <1>4, WaitingInv

LEMMA TickInv == AccountsInv /\ Tick => AccountsInv'
<1> SUFFICES ASSUME AccountsInv, Tick PROVE AccountsInv'
  OBVIOUS
<1>1. /\ UNCHANGED <<email, key, shown, made, ended, hash, session, changed, web, client, ran,
                     asked, faults>>
      /\ now' \in Time /\ now \in Nat /\ now' = now + 1
  BY Bounds DEF Tick, Web, accounts, passwords, AccountsInv, TypeOK, Time
<1>2. TypeOK' /\ RequestsAreTyped' /\ KeysAreOwned' /\ CallsAreFresh'
  BY <1>1 DEF AccountsInv, TypeOK, RequestsAreTyped, KeysAreOwned, Issuing, CallsAreFresh
<1>3. PastIsPast'
  BY <1>1 DEF AccountsInv, PastIsPast, TypeOK, Time
<1>4. SessionsAreOfPasswords'
  <2> SUFFICES ASSUME NEW t \in Tabs, session[t] # None
               PROVE  /\ session[t].exp <= now' + Lifetime
                      /\ session[t].word # hash[session[t].user].word =>
                            session[t].exp <= changed[session[t].user] + Lifetime
    BY <1>1 DEF SessionsAreOfPasswords
  <2>1. session[t].exp \in Nat /\ session[t].exp <= now + Lifetime
    BY Bounds DEF AccountsInv, TypeOK, SessionsAreOfPasswords, Session
  <2> QED
    BY <1>1, <2>1, Bounds DEF AccountsInv, SessionsAreOfPasswords
<1>5. TokensAreOfKeys'
  <2>1. ASSUME NEW c \in Clients PROVE TokenOfKey(c)'
    <3>1. client[c].token # None =>
            client[c].token.exp \in Nat /\ client[c].token.exp <= now + Lifetime
      BY Bounds DEF AccountsInv, TypeOK, TokensAreOfKeys, TokenOfKey, Client, Token
    <3> QED
      BY <1>1, <3>1, Bounds DEF AccountsInv, TokensAreOfKeys, TokenOfKey
  <2> QED
    BY <1>1, <2>1 DEF AccountsInv, TokensAreOfKeys
<1>6. RetriesAreRenewed'
  <2>1. \A c \in Clients : client[c].begun \in Nat
    BY Bounds DEF AccountsInv, TypeOK, Client, Time
  <2> QED
    BY <1>1, <2>1 DEF AccountsInv, RetriesAreRenewed
<1> QED
  BY <1>2, <1>3, <1>4, <1>5, <1>6 DEF AccountsInv

LEMMA StutterInv == AccountsInv /\ UNCHANGED vars => AccountsInv'
<1> SUFFICES ASSUME AccountsInv, UNCHANGED vars PROVE AccountsInv'
  OBVIOUS
<1>1. TypeOK' /\ RequestsAreTyped' /\ KeysAreOwned'
  BY DEF vars, accounts, passwords, AccountsInv, TypeOK, RequestsAreTyped, KeysAreOwned, Issuing
<1> QED
  BY <1>1, ClientsUntouched, SessionsUntouched DEF vars, accounts, AccountsInv

LEMMA NextInv == AccountsInv /\ [Next]_vars => AccountsInv'
<1> SUFFICES ASSUME AccountsInv, Next PROVE AccountsInv'
  BY StutterInv
<1>1. ASSUME NEW t \in Tabs, Ask(t) \/ Serve(t) \/ LoseCommit(t) PROVE AccountsInv'
  BY <1>1, AskInv, WriteEmailInv, WriteHashInv, WriteKeyInv, CommitInv, LoseCommitInv DEF Serve
<1>2. ASSUME NEW c \in Clients,
             (\E k \in Keys : Make(c, k)) \/ Call(c) \/ Attend(c) \/ LoseAnswer(c)
      PROVE  AccountsInv'
  BY <1>2, MakeInv, CallInv, FindUserInv, ExchangeInv, AnswerInv, LoseAnswerInv DEF Attend
<1> QED
  BY <1>1, <1>2, TickInv DEF Next

-----------------------------------------------------------------------------
(* Theorems.                                                               *)

\* The invariant holds, whatever users, tabs and clients do and whatever fails.
THEOREM InvariantCorrect == Spec => []AccountsInv
  BY InitInv, NextInv, PTL DEF Spec

\* All state has its type; in particular no two users have one address.
THEOREM TypeCorrect == Spec => []TypeOK
<1>1. AccountsInv => TypeOK
  BY DEF AccountsInv
<1> QED
  BY <1>1, InvariantCorrect, PTL

\* A call of the SDK is executed at most once, although _request may send it twice, and not at
\* all when AuthenticationError is raised.
THEOREM CallsRunOnceCorrect == Spec => []CallsRunOnce
<1>1. AccountsInv => CallsRunOnce
  BY DEF AccountsInv, CallsAreFresh, CallsRunOnce, Waiting
<1> QED
  BY <1>1, InvariantCorrect, PTL

\* A token that login_with_api_key writes is of the user who was shown the key, whoever has
\* which address when the user and the key are read.
THEOREM KeyOwnersCorrect == Spec => []TokensAreTheKeyOwners
<1>1. AccountsInv => TokensAreTheKeyOwners
  BY DEF AccountsInv, TokensAreOfKeys, TokenOfKey, TokensAreTheKeyOwners
<1> QED
  BY <1>1, InvariantCorrect, PTL

\* What web requests do not do.
LEMMA WebFrame ==
    ASSUME NEW t \in Tabs, Ask(t) \/ Serve(t) \/ LoseCommit(t)
    PROVE  UNCHANGED <<client, ran, now>>
<1>1. CASE Ask(t)
  <2>1. ASSUME NEW op, NEW u, NEW to, NEW k, Begin(t, op, u, to, k)
        PROVE  UNCHANGED <<client, ran, now>>
    BY <2>1 DEF Begin, Sdk
  <2> QED
    BY <1>1, <2>1 DEF Ask, AskRegister, AskChange, AskPassword, AskLogin, AskIssue, AskRevoke, Sdk
<1>2. CASE Serve(t) \/ LoseCommit(t)
  BY <1>2 DEF Serve, WriteEmail, WriteHash, WriteKey, Commit, LoseCommit, Sdk
<1> QED
  BY <1>1, <1>2

\* A call is executed with a token, and a tab asks with a session, that has not expired.
LEMMA FadeStep == AccountsInv /\ [Next]_vars => [KeysFade /\ SessionsFade]_vars
<1> SUFFICES ASSUME AccountsInv, Next PROVE KeysFade /\ SessionsFade
  OBVIOUS
<1>1. ASSUME NEW c \in Clients, ran'[c] > ran[c], ended[client[c].key] # None
      PROVE  now < ended[client[c].key] + Lifetime
  <2>1. ran[c] \in Nat /\ ran \in [Clients -> Nat]
    BY DEF AccountsInv, TypeOK
  <2>2. ran' # ran
    BY <1>1, <2>1
  <2>3. PICK d \in Clients : Call(d) \/ Answer(d) \/ LoseAnswer(d)
    BY <2>2, WebFrame DEF Next, Make, Attend, FindUser, Exchange, Tick
  <2>4. c = d /\ client[c].at = "send" /\ Live(client[c].token)
    BY <1>1, <2>1, <2>3 DEF Call, Answer, LoseAnswer
  <2>5. /\ client[c].token \in Token /\ client[c].key \in Keys
        /\ client[c].token.exp <= ended[client[c].key] + Lifetime
    BY <1>1, <2>4, ClientFacts
  <2>6. /\ now \in Nat /\ Lifetime \in Nat /\ ended[client[c].key] \in Nat
        /\ client[c].token.exp \in Nat
    BY <1>1, <2>5, Bounds DEF AccountsInv, TypeOK, Time, Token
  <2> QED
    BY <2>4, <2>5, <2>6 DEF Live
<1>2. ASSUME NEW t \in Tabs, Acts(t), session[t].word # hash[session[t].user].word
      PROVE  now < changed[session[t].user] + Lifetime
  <2>1. web[t].at = "idle" /\ web'[t].at # "idle" /\ web'[t].op \notin {"register", "login"}
    BY <1>2 DEF Acts
  <2>2. PICK s \in Tabs : Ask(s)
    BY <2>1, QuietType DEF Next, Serve, WriteEmail, WriteHash, WriteKey, Commit, LoseCommit,
       Close, Make, Call, Attend, FindUser, Exchange, Answer, LoseAnswer, Tick, Web, AccountsInv,
       TypeOK
  <2>3. ASSUME NEW op, NEW u \in Users, NEW to, NEW k, Begin(s, op, u, to, k),
               op \notin {"register", "login"} => SignedIn(s, u)
        PROVE  SignedIn(t, u)
    BY <2>1, <2>3 DEF Begin, AccountsInv, TypeOK
  <2>4. PICK u \in Users : SignedIn(t, u)
    BY <2>1, <2>2, <2>3 DEF Ask, AskRegister, AskChange, AskPassword, AskLogin, AskIssue, AskRevoke
  <2>5. /\ session[t] \in Session /\ session[t].exp > now
        /\ session[t].exp <= changed[session[t].user] + Lifetime
    BY <1>2, <2>4 DEF SignedIn, Live, AccountsInv, TypeOK, SessionsAreOfPasswords
  <2>6. /\ now \in Nat /\ Lifetime \in Nat /\ session[t].exp \in Nat
        /\ changed[session[t].user] \in Nat
    BY <2>5, Bounds DEF AccountsInv, TypeOK, Session, Time
  <2> QED
    BY <2>5, <2>6
<1> QED
  BY <1>1, <1>2 DEF KeysFade, SessionsFade

\* Revoked keys and replaced passwords open nothing any more a lifetime later.
THEOREM CredentialsFadeOutCorrect == Spec => CredentialsFadeOut
  BY InvariantCorrect, FadeStep, PTL DEF Spec, CredentialsFadeOut

\* A denial has its reason in what the tables hold, or in the time the call has taken.
LEMMA DenialStep == AccountsInv /\ [Next]_vars => [DenialsExplained]_vars
<1> SUFFICES ASSUME AccountsInv, Next, NEW c \in Clients,
                    client[c].at # "denied", client'[c].at = "denied",
                    key[client[c].key] # None, ~key[client[c].key].revoked,
                    email[shown[client[c].key]] = client[c].email,
                    client[c].at = "key" => client[c].who = shown[client[c].key]
             PROVE  now >= client[c].begun + Lifetime
  BY DEF DenialsExplained
<1>1. client \in [Clients -> Client]
  BY DEF AccountsInv, TypeOK
<1>2. PICK d \in Clients :
        (\E k \in Keys : Make(d, k)) \/ Call(d) \/ Attend(d) \/ LoseAnswer(d)
  BY WebFrame DEF Next, Tick
<1>3. PICK state : Update(d, state)
  BY <1>2 DEF Make, Call, Attend, FindUser, Exchange, Answer, Unauthorized, Deny, LoseAnswer, Lost
<1>4. c = d
  BY <1>1, <1>3 DEF Update
<1>5. CASE FindUser(c)
  <2>1. shown[client[c].key] \in Users
    BY <1>5, ClientFacts DEF FindUser, AccountsInv, TypeOK
  <2>2. Taken(client[c].email)
    BY <2>1 DEF Taken
  <2>3. PICK u : Update(c, [client[c] EXCEPT !.at = "key", !.who = u])
    BY <1>5, <2>2 DEF FindUser
  <2> QED
    BY <1>1, <2>3 DEF Update, Client
<1>6. CASE Exchange(c)
  <2>1. Valid(client[c].key, client[c].who)
    BY <1>6, ClientFacts DEF Exchange, Valid, AccountsInv, KeysAreOwned
  <2>2. PICK token : Update(c, [client[c] EXCEPT !.at = "send", !.who = None, !.token = token])
    BY <1>6, <2>1 DEF Exchange
  <2> QED
    BY <1>1, <2>2 DEF Update, Client
<1>7. CASE Answer(c)
  <2>1. ~Live(client[c].token) /\ client[c].again
    BY <1>1, <1>7 DEF Answer, Unauthorized, Update, Client
  <2>2. /\ client[c].token \in Token /\ client[c].at = "send"
        /\ client[c].token.exp >= client[c].begun + Lifetime
    BY <1>7, <2>1, ClientFacts DEF Answer, AccountsInv, RetriesAreRenewed
  <2>3. /\ now \in Nat /\ Lifetime \in Nat /\ client[c].token.exp \in Nat
        /\ client[c].begun \in Nat
    BY <1>1, <2>2, Bounds DEF AccountsInv, TypeOK, Client, Token, Time
  <2> QED
    BY <2>1, <2>2, <2>3 DEF Live
<1>8. ASSUME NEW k \in Keys
      PROVE  ~Make(c, k)
  <2> SUFFICES ASSUME Make(c, k)
               PROVE  FALSE
    OBVIOUS
  <2>1. client'[c] = [client[c] EXCEPT !.at = "idle", !.email = email[shown[k]], !.key = k]
    BY <1>1 DEF Make, Update
  <2> QED
    BY <1>1, <2>1 DEF Client
<1>9. ~Call(c)
  <2> SUFFICES ASSUME Call(c)
               PROVE  FALSE
    OBVIOUS
  <2>1. client'[c].at = IF client[c].token = None THEN "user" ELSE "send"
    BY <1>1 DEF Call, Update, Client
  <2> QED
    BY <2>1
<1>10. ~LoseAnswer(c)
  BY <1>1 DEF LoseAnswer, Lost, Update, Client
<1> QED
  BY <1>2, <1>4, <1>5, <1>6, <1>7, <1>8, <1>9, <1>10 DEF Attend

\* AuthenticationError means that the key or the address is not good, or that the call took
\* too long.
THEOREM DenialsAreExplainedCorrect == Spec => DenialsAreExplained
  BY InvariantCorrect, DenialStep, PTL DEF Spec, DenialsAreExplained
=============================================================================
