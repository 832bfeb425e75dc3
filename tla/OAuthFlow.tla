------------------------------ MODULE OAuthFlow ------------------------------
(***************************************************************************)
(* Sign-in with GitHub: OAuthService and the /oauth endpoints, the parked  *)
(* link in Redis that the password page completes, the unlinking of an     *)
(* account, and the tables oauth_states, users, github_accounts,           *)
(* github_credentials and sessions as far as they decide who is signed in. *)
(*                                                                         *)
(* Every statement and every call to GitHub or Redis is an action.         *)
(* Postgres runs at READ COMMITTED: a SELECT reads committed rows; an      *)
(* INSERT or UPDATE waits for the transaction that holds the row (for an   *)
(* INSERT, the equal unique key) and its effect is seen by others once the *)
(* request commits.  A step whose constraint is violated is not enabled:   *)
(* the request fails instead (Fail), and rolls back.                       *)
(***************************************************************************)
EXTENDS Integers, FiniteSets

CONSTANTS
    State,              \* `state' nonces begin can draw
    Code,               \* authorization codes GitHub can grant
    Identity,           \* GitHub identities (github_id), each with an email
    User,               \* ids of rows of users
    Link,               \* link tokens _park_pending_link can draw
    Req,                \* requests that may be in flight together
    None,               \* "no such value"
    StateTTL,           \* OAUTH_STATE_TTL_SECONDS, in ticks
    MaxTime             \* bound: the clock stops here

VARIABLES
    now,                \* wall clock
    info,               \* info[s]: what begin stored with state s, or None
    grant,              \* GitHub: grant[c]: what code c stands for, or None
    parked,             \* Redis keys gp:link:<link token>: a record or None
    row,                \* row[k]: committed row with key k, or None
    draft,              \* draft[k]: newest version of that row
    lock,               \* lock[k]: the request whose transaction holds it
    sessions,           \* committed sign-ins of the callback
    req                 \* req[r]: the request's step and local variables

github == <<grant>>
db     == <<row, draft, lock, sessions>>
vars   == <<now, info, grant, parked, row, draft, lock, sessions, req>>

ASSUME TimesAssumption == StateTTL \in Nat /\ MaxTime \in Nat

\* Rows by primary or unique key.  A credential is the account's active one.
StateRow(s)      == <<"state", s>>
UserRow(u)       == <<"user", u>>
AccountRow(i)    == <<"account", i>>
CredentialRow(i) == <<"credential", i>>

Key == ({"state"} \X State) \cup ({"user"} \X User)
       \cup ({"account", "credential"} \X Identity)

Info    == [until: Nat, linkTo: User \cup {None}]
Grant   == [state: State, id: Identity, used: BOOLEAN]
Parked  == [user: User, id: Identity, code: Code, until: Nat]
\* A user's email is named by the identity that has the same address.
Person  == [mail: Identity \cup {None}, password: BOOLEAN]
\* An account row is told from a later one by the code it was made with.
Account == [user: User, by: Code]
Stage   == {"initiated", "received", "completed"}

Steps == {"idle", "load", "consume", "exchange", "identity", "candidate",
    "insertUser", "insertAccount", "scan", "deactivate", "insertCredential",
    "pending", "existing", "dropPending", "deleteAccount", "commit"}

Request == [pc: Steps, kind: {"none", "callback", "link", "unlink"},
    state: State \cup {None}, code: Code \cup {None},
    id: Identity \cup {None}, mail: Identity \cup {None},
    user: User \cup {None}, account: Account \cup {None},
    link: Link \cup {None}, olds: SUBSET (Identity \X Code)]

Idle == [pc |-> "idle", kind |-> "none", state |-> None, code |-> None,
    id |-> None, mail |-> None, user |-> None, account |-> None,
    link |-> None, olds |-> {}]

ASSUME NoneAssumption ==
    None \notin State \cup Code \cup Identity \cup User \cup Link \cup Req
        \cup Info \cup Grant \cup Parked \cup Person \cup Account \cup Stage

-----------------------------------------------------------------------------
(* Helpers *)

Goto(r, step) == req' = [req EXCEPT ![r].pc = step]

Free(r, k) == lock[k] \in {None, r}

\* INSERT, UPDATE or DELETE of the row with key k by r.
Write(r, k, value) ==
    /\ Free(r, k)
    /\ draft' = [draft EXCEPT ![k] = value]
    /\ lock' = [lock EXCEPT ![k] = r]

Release(r) == lock' = [k \in Key |-> IF lock[k] = r THEN None ELSE lock[k]]

Rollback(r) ==
    /\ draft' = [k \in Key |-> IF lock[k] = r THEN row[k] ELSE draft[k]]
    /\ Release(r)
    /\ UNCHANGED <<row, sessions>>

Forget(r) == req' = [req EXCEPT ![r] = Idle]

Init ==
    /\ now = 0
    /\ info = [s \in State |-> None]
    /\ grant = [c \in Code |-> None]
    /\ parked = [l \in Link |-> None]
    /\ row = [k \in Key |-> None]
    /\ draft = [k \in Key |-> None]
    /\ lock = [k \in Key |-> None]
    /\ sessions = {}
    /\ req = [r \in Req |-> Idle]

-----------------------------------------------------------------------------
(* Around the callback: registration, begin, and GitHub *)

\* POST /auth/register: one INSERT and its commit.
Register(u, i) ==
    /\ draft[UserRow(u)] = None
    /\ \A v \in User :
        draft[UserRow(v)] # None => draft[UserRow(v)].mail # i
    /\ LET person == [mail |-> i, password |-> TRUE]
       IN  /\ row' = [row EXCEPT ![UserRow(u)] = person]
           /\ draft' = [draft EXCEPT ![UserRow(u)] = person]
    /\ UNCHANGED <<now, info, grant, parked, lock, sessions, req>>

\* GET /oauth/github/begin: the state row and its PKCE row are inserted and
\* committed; nobody knows the nonce before.  With link_to the flow attaches
\* the identity to that user.
Begin(s) ==
    /\ info[s] = None
    /\ \E u \in {v \in User : row[UserRow(v)] # None} \cup {None} :
        info' = [info EXCEPT ![s] = [until |-> now + StateTTL, linkTo |-> u]]
    /\ row' = [row EXCEPT ![StateRow(s)] = "initiated"]
    /\ draft' = [draft EXCEPT ![StateRow(s)] = "initiated"]
    /\ UNCHANGED <<now, grant, parked, lock, sessions, req>>

\* External: at GitHub somebody authorizes, as identity i, the page begin
\* opened for s.  The page may be authorized again and gives another code.
Authorize(c, s, i) ==
    /\ grant[c] = None /\ info[s] # None
    /\ grant' = [grant EXCEPT ![c] = [state |-> s, id |-> i, used |-> FALSE]]
    /\ UNCHANGED <<now, info, parked, db, req>>

-----------------------------------------------------------------------------
(* GET /oauth/github/callback: handle_callback *)

\* The browser brings code and state.  (An error instead of a code, or a state
\* nobody drew, changes nothing here.)  It may bring them again.
Callback(r) ==
    /\ req[r].pc = "idle"
    /\ \E c \in Code :
        /\ grant[c] # None
        /\ req' = [req EXCEPT ![r] = [Idle EXCEPT !.pc = "load",
                !.kind = "callback", !.code = c, !.state = grant[c].state]]
    /\ UNCHANGED <<now, info, github, parked, db>>

\* The consumed_at test is missing.
LoadAnyState(r) ==
    /\ req[r].pc = "load"
    /\ LET s == req[r].state
       IN  IF info[s].until < now THEN Forget(r) ELSE Goto(r, "consume")
    /\ UNCHANGED <<now, info, github, parked, db>>

\* _load_state, the TTL and the consumed_at tests, on committed data.  A
\* refusal commits its audit record and nothing else.
Load(r) ==
    /\ req[r].pc = "load"
    /\ LET s == req[r].state
       IN  IF info[s].until < now \/ row[StateRow(s)] # "initiated"
           THEN Forget(r)
           ELSE Goto(r, "consume")
    /\ UNCHANGED <<now, info, github, parked, db>>

\* consumed_at and flow_stage are flushed: the UPDATE waits for whoever holds
\* the row and then overwrites what that one committed.  The PKCE row was
\* inserted with the state, so its tests pass.
Consume(r) ==
    /\ req[r].pc = "consume"
    /\ Write(r, StateRow(req[r].state), "received")
    /\ Goto(r, "exchange")
    /\ UNCHANGED <<now, info, github, parked, row, sessions>>

\* GitHub redeems a code once; for a used code it answers with an error, and
\* the request fails.
Exchange(r) ==
    /\ req[r].pc = "exchange"
    /\ ~grant[req[r].code].used
    /\ grant' = [grant EXCEPT ![req[r].code].used = TRUE]
    /\ req' = [req EXCEPT ![r].pc = "identity",
                          ![r].id = grant[req[r].code].id]
    /\ UNCHANGED <<now, info, parked, db>>

\* The identity is known: look its account up.  The "Connect GitHub" flow
\* wants no account, and otherwise raises AccountLinkingRequired; a login goes
\* on with the account; a new identity needs its email, which GitHub may fail
\* to give.
Identify(r) ==
    /\ req[r].pc = "identity"
    /\ LET linkTo == info[req[r].state].linkTo
           account == row[AccountRow(req[r].id)]
       IN  \/ /\ linkTo # None /\ account = None
              /\ req' = [req EXCEPT ![r].pc = "insertAccount",
                                    ![r].user = linkTo]
              /\ UNCHANGED db
           \/ /\ linkTo # None /\ account # None
              /\ Rollback(r) /\ Forget(r)
           \/ /\ linkTo = None /\ account # None
              /\ req' = [req EXCEPT ![r].pc = "scan", ![r].account = account,
                                    ![r].user = account.user]
              /\ UNCHANGED db
           \/ /\ linkTo = None /\ account = None
              /\ \E mail \in {req[r].id, None} :
                    req' = [req EXCEPT ![r].pc = "candidate", ![r].mail = mail]
              /\ UNCHANGED db
    /\ UNCHANGED <<now, info, github, parked>>

HasMail(u, mail) == row[UserRow(u)] # None /\ row[UserRow(u)].mail = mail

\* No user has the email: a user is created.  Otherwise the credential is
\* parked in Redis under a link token and the transaction rolled back, the
\* consumption of the state with it.
Candidate(r) ==
    /\ req[r].pc = "candidate"
    /\ LET mail == req[r].mail
           candidates == {u \in User : mail # None /\ HasMail(u, mail)}
       IN  \/ /\ candidates = {}
              /\ Goto(r, "insertUser")
              /\ UNCHANGED <<parked, db>>
           \/ /\ \E u \in candidates, l \in Link :
                    /\ parked[l] = None
                    /\ parked' = [parked EXCEPT ![l] = [user |-> u,
                          id |-> req[r].id, code |-> req[r].code,
                          until |-> now + StateTTL]]
              /\ Rollback(r) /\ Forget(r)
    /\ UNCHANGED <<now, info, github>>

\* The new user's id is not passed on to the account.
InsertUserForgotten(r) ==
    /\ req[r].pc = "insertUser"
    /\ \A v \in User :
        draft[UserRow(v)] # None /\ req[r].mail # None =>
            draft[UserRow(v)].mail # req[r].mail
    /\ \E u \in User :
        /\ draft[UserRow(u)] = None
        /\ Write(r, UserRow(u), [mail |-> req[r].mail, password |-> FALSE])
        /\ Goto(r, "insertAccount")
    /\ UNCHANGED <<now, info, github, parked, row, sessions>>

\* users.email is unique (NULLs are not compared).
InsertUser(r) ==
    /\ req[r].pc = "insertUser"
    /\ \A v \in User :
        draft[UserRow(v)] # None /\ req[r].mail # None =>
            draft[UserRow(v)].mail # req[r].mail
    /\ \E u \in User :
        /\ draft[UserRow(u)] = None
        /\ Write(r, UserRow(u), [mail |-> req[r].mail, password |-> FALSE])
        /\ req' = [req EXCEPT ![r].pc = "insertAccount", ![r].user = u]
    /\ UNCHANGED <<now, info, github, parked, row, sessions>>

\* An INSERT that does not stop at an equal github_id.
InsertAnyAccount(r) ==
    /\ req[r].pc = "insertAccount"
    /\ LET account == [user |-> req[r].user, by |-> req[r].code]
       IN  /\ Write(r, AccountRow(req[r].id), account)
           /\ req' = [req EXCEPT ![r].pc = "scan", ![r].account = account]
    /\ UNCHANGED <<now, info, github, parked, row, sessions>>

\* github_accounts.github_id is unique.
InsertAccount(r) ==
    /\ req[r].pc = "insertAccount"
    /\ draft[AccountRow(req[r].id)] = None
    /\ LET account == [user |-> req[r].user, by |-> req[r].code]
       IN  /\ Write(r, AccountRow(req[r].id), account)
           /\ req' = [req EXCEPT ![r].pc = "scan", ![r].account = account]
    /\ UNCHANGED <<now, info, github, parked, row, sessions>>

-----------------------------------------------------------------------------
(* store_credential, and the deactivation of unlink_github *)

\* UPDATE ... SET is_active = false: the active rows its snapshot sees, of
\* the account, or of every account of the user who unlinks one.
Scan(r) ==
    /\ req[r].pc = "scan"
    /\ req' = [req EXCEPT ![r].pc = "deactivate",
          ![r].olds = {x \in Identity \X Code :
              /\ row[CredentialRow(x[1])] = x[2]
              /\ \/ req[r].kind # "unlink" /\ x[1] = req[r].id
                 \/ req[r].kind = "unlink"
                    /\ row[AccountRow(x[1])].user = req[r].user}]
    /\ UNCHANGED <<now, info, github, parked, db>>

\* Each row is waited for and then left alone if it is no longer active.
Deactivate(r) ==
    /\ req[r].pc = "deactivate"
    /\ \E x \in req[r].olds :
        /\ Free(r, CredentialRow(x[1]))
        /\ IF draft[CredentialRow(x[1])] = x[2]
           THEN Write(r, CredentialRow(x[1]), None)
           ELSE UNCHANGED <<draft, lock>>
        /\ req' = [req EXCEPT ![r].olds = @ \ {x}]
    /\ UNCHANGED <<now, info, github, parked, row, sessions>>

Deactivated(r) ==
    /\ req[r].pc = "deactivate" /\ req[r].olds = {}
    /\ Goto(r, IF req[r].kind = "unlink"
               THEN "deleteAccount" ELSE "insertCredential")
    /\ UNCHANGED <<now, info, github, parked, db>>

\* No foreign key ties the credential to the account the request knows.
InsertCredentialNoKey(r) ==
    LET i == req[r].id
        s == req[r].state
    IN  /\ req[r].pc = "insertCredential"
        /\ Free(r, CredentialRow(i))
        /\ draft[CredentialRow(i)] = None
        /\ draft' = [k \in Key |->
              IF k = CredentialRow(i) THEN req[r].code
              ELSE IF k = StateRow(s) THEN "completed" ELSE draft[k]]
        /\ lock' = [lock EXCEPT ![CredentialRow(i)] = r]
        /\ Goto(r, IF req[r].kind = "link" THEN "dropPending" ELSE "commit")
        /\ UNCHANGED <<now, info, github, parked, row, sessions>>

\* The new active row.  Its index admits one per account, its foreign key
\* wants the very account row the request knows, and locks it; the callback
\* then marks its state row COMPLETED.
InsertCredential(r) ==
    LET i == req[r].id
        s == req[r].state
        mine == {CredentialRow(i), AccountRow(i)}
    IN  /\ req[r].pc = "insertCredential"
        /\ \A k \in mine : Free(r, k)
        /\ draft[CredentialRow(i)] = None
        /\ draft[AccountRow(i)] = req[r].account
        /\ draft' = [k \in Key |->
              IF k = CredentialRow(i) THEN req[r].code
              ELSE IF k = StateRow(s) THEN "completed" ELSE draft[k]]
        /\ lock' = [k \in Key |-> IF k \in mine THEN r ELSE lock[k]]
        /\ Goto(r, IF req[r].kind = "link" THEN "dropPending" ELSE "commit")
        /\ UNCHANGED <<now, info, github, parked, row, sessions>>

-----------------------------------------------------------------------------
(* POST /oauth/link/complete *)

\* A link token is presented with the password of user u.  (A wrong password
\* changes nothing.)
CompleteLink(r) ==
    /\ req[r].pc = "idle"
    /\ \E l \in Link, u \in User :
        /\ row[UserRow(u)] # None /\ row[UserRow(u)].password
        /\ req' = [req EXCEPT ![r] = [Idle EXCEPT !.pc = "pending",
                !.kind = "link", !.link = l, !.user = u]]
    /\ UNCHANGED <<now, info, github, parked, db>>

\* The parked record; Redis drops it after its TTL.
GetPending(r) ==
    /\ req[r].pc = "pending"
    /\ LET pending == parked[req[r].link]
       IN  \/ /\ \/ pending = None
                 \/ pending # None /\ pending.until < now
                 \/ pending # None /\ pending.user # req[r].user
              /\ Forget(r)
           \/ /\ pending # None
              /\ pending.until >= now /\ pending.user = req[r].user
              /\ req' = [req EXCEPT ![r].pc = "existing",
                    ![r].id = pending.id, ![r].code = pending.code]
    /\ UNCHANGED <<now, info, github, parked, db>>

\* The identity must not have an account yet.
CheckExisting(r) ==
    /\ req[r].pc = "existing"
    /\ IF row[AccountRow(req[r].id)] # None
       THEN Forget(r)
       ELSE Goto(r, "insertAccount")
    /\ UNCHANGED <<now, info, github, parked, db>>

\* Redis forgets the token before Postgres commits.
DropPending(r) ==
    /\ req[r].pc = "dropPending"
    /\ parked' = [parked EXCEPT ![req[r].link] = None]
    /\ Goto(r, "commit")
    /\ UNCHANGED <<now, info, github, db>>

-----------------------------------------------------------------------------
(* POST /users/me/unlink/github/{id} *)

\* The account is looked up for its owner.
Unlink(r) ==
    /\ req[r].pc = "idle"
    /\ \E i \in Identity :
        /\ row[AccountRow(i)] # None
        /\ req' = [req EXCEPT ![r] = [Idle EXCEPT !.pc = "scan",
                !.kind = "unlink", !.id = i, !.account = row[AccountRow(i)],
                !.user = row[AccountRow(i)].user]]
    /\ UNCHANGED <<now, info, github, parked, db>>

\* The DELETE cascades to the account's credentials.
DeleteAccount(r) ==
    LET i == req[r].id
        mine == {CredentialRow(i), AccountRow(i)}
    IN  /\ req[r].pc = "deleteAccount"
        /\ \A k \in mine : Free(r, k)
        /\ draft[AccountRow(i)] = req[r].account
        /\ draft' = [k \in Key |-> IF k \in mine THEN None ELSE draft[k]]
        /\ lock' = [k \in Key |-> IF k \in mine THEN r ELSE lock[k]]
        /\ Goto(r, "commit")
        /\ UNCHANGED <<now, info, github, parked, row, sessions>>

-----------------------------------------------------------------------------
(* The end of a request *)

\* The callback creates its session in the same transaction.
Commit(r) ==
    /\ req[r].pc = "commit"
    /\ row' = [k \in Key |-> IF lock[k] = r THEN draft[k] ELSE row[k]]
    /\ Release(r)
    /\ sessions' = sessions \cup
          IF req[r].kind = "callback"
          THEN {[state |-> req[r].state, code |-> req[r].code,
                 id |-> req[r].id, user |-> req[r].user]}
          ELSE {}
    /\ Forget(r)
    /\ UNCHANGED <<now, info, github, parked, draft>>

\* GitHub, Redis or Postgres fails, a constraint is violated, a deadlock is
\* broken, or the worker dies: the transaction is rolled back.
Fail(r) ==
    /\ req[r].pc # "idle"
    /\ Rollback(r)
    /\ Forget(r)
    /\ UNCHANGED <<now, info, github, parked>>

Tick ==
    /\ now < MaxTime
    /\ now' = now + 1
    /\ UNCHANGED <<info, github, parked, db, req>>

Step(r) ==
    \/ Callback(r) \/ Load(r) \/ Consume(r) \/ Exchange(r) \/ Identify(r)
    \/ Candidate(r) \/ InsertUser(r) \/ InsertAccount(r)
    \/ Scan(r) \/ Deactivate(r) \/ Deactivated(r) \/ InsertCredential(r)
    \/ CompleteLink(r) \/ GetPending(r) \/ CheckExisting(r) \/ DropPending(r)
    \/ Unlink(r) \/ DeleteAccount(r)
    \/ Commit(r) \/ Fail(r)

Next ==
    \/ Tick
    \/ \E s \in State : Begin(s)
    \/ \E u \in User, i \in Identity : Register(u, i)
    \/ \E c \in Code, s \in State, i \in Identity : Authorize(c, s, i)
    \/ \E r \in Req : Step(r)

Spec == Init /\ [][Next]_vars

-----------------------------------------------------------------------------
(* Properties *)

SignIn == [state: State, code: Code, id: Identity, user: User]

Value(k) == CASE k[1] = "state" -> Stage
              [] k[1] = "user" -> Person
              [] k[1] = "account" -> Account
              [] k[1] = "credential" -> Code

\* Every variable keeps its type.
TypeOK ==
    /\ now \in Nat
    /\ info \in [State -> Info \cup {None}]
    /\ grant \in [Code -> Grant \cup {None}]
    /\ parked \in [Link -> Parked \cup {None}]
    /\ DOMAIN row = Key /\ DOMAIN draft = Key
    /\ \A k \in Key : {row[k], draft[k]} \subseteq Value(k) \cup {None}
    /\ lock \in [Key -> Req \cup {None}]
    /\ sessions \subseteq SignIn
    /\ req \in [Req -> Request]

\* The active credential of an account was granted by the account's own GitHub
\* identity, and no credential outlives its account: whatever the order of
\* logins, parked links and unlinking.
CredentialOfIdentity ==
    \A i \in Identity :
        row[CredentialRow(i)] # None =>
            /\ row[AccountRow(i)] # None
            /\ grant[row[CredentialRow(i)]].id = i

\* Whoever is signed in owns the identity that signed in, at the instant of
\* the commit: an account unlinked, or unlinked and linked to somebody else,
\* while GitHub was answering signs nobody in.
SignedInOwnsIdentity ==
    [][\A x \in sessions' \ sessions :
        /\ row'[AccountRow(x.id)] # None
        /\ row'[AccountRow(x.id)].user = x.user
        /\ row'[CredentialRow(x.id)] = x.code]_vars

\* A callback that arrives after its state has signed somebody in is refused.
ReplayRefused ==
    [][\A r \in Req :
        req[r].pc = "load" /\ req'[r].pc = "consume" =>
            \A x \in sessions : x.state # req[r].state]_vars

Owner == [i \in Identity |->
    IF row[AccountRow(i)] = None THEN None ELSE row[AccountRow(i)].user]

Ownership == INSTANCE IdentityOwnership WITH owner <- Owner

\* The committed accounts pass from user to user as IdentityOwnership says.
ImplementsOwnership == Ownership!Spec

-----------------------------------------------------------------------------
(* What the documents say and the code does not do *)

\* docs/threat-model.md, "State single-use; code exchange once": one state
\* signs in once.
SingleUse == \A x, y \in sessions : x.state = y.state => x = y
=============================================================================
