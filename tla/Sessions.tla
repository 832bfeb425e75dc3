------------------------------ MODULE Sessions ------------------------------
(***************************************************************************)
(* The sessions of one user of GitPilot: SessionService, the Redis         *)
(* SessionStore, the sessions table in Postgres, the authentication        *)
(* dependency that admits and rotates, and the endpoints that log in, log  *)
(* out and revoke.                                                         *)
(*                                                                         *)
(* A request runs on one event loop of one of several workers, so any      *)
(* other request may run at each of its awaits: every Redis command and    *)
(* every database statement is an action of its own.  Postgres runs at     *)
(* READ COMMITTED: an UPDATE waits for the row's lock, re-evaluates its    *)
(* WHERE clause, and keeps the lock until the request commits or, when the *)
(* endpoint never commits or raises, rolls back.  Redis is not part of the *)
(* transaction.                                                            *)
(***************************************************************************)
EXTENDS Integers, FiniteSets

CONSTANTS
    Token,              \* raw session tokens the process can draw
    Sid,                \* identities of rows of the sessions table
    Req,                \* requests that may be in flight together
    None,               \* "no such value"
    IdleTimeout,        \* SESSION_IDLE_TIMEOUT_SECONDS, in ticks
    SessionTTL,         \* SESSION_TTL_SECONDS, in ticks
    RotationPeriod,     \* SESSION_ROTATION_SECONDS, in ticks
    MaxTime,            \* bound: the clock stops here
    MaxRequests         \* bound: requests received in a behaviour

VARIABLES
    now,                \* wall clock
    store,              \* Redis keys gp:session:<hash t>: a record or None
    index,              \* Redis set gp:session:user:<user>: the user's tokens
    row,                \* row[s]: committed status of session row s
    draft,              \* draft[s]: newest version of row s, committed or not
    lock,               \* lock[s]: the request whose transaction locks row s
    born,               \* born[s]: the instant create_session read for s
    issued,             \* issued[t]: the session token t was drawn for
    started,            \* requests received so far, for the bound MaxRequests
    handed,             \* tokens that reached a browser in a Set-Cookie
    pc, tok, sid, used,\* per request: next step, cookie, the validated record's
                        \*   session and last_used_at,
    buf, new,           \*   record read and not yet written back, fresh token,
    todo, rows          \*   Redis keys and table rows still to visit

redis == <<store, index>>
db    == <<row, draft, lock>>
ids   == <<born, issued>>
local == <<tok, sid, used, buf, new, todo, rows>>
vars  == <<now, redis, db, ids, handed, started, pc, local>>

ASSUME TimesAssumption ==
    /\ IdleTimeout \in Nat /\ SessionTTL \in Nat
    /\ RotationPeriod \in Nat /\ MaxTime \in Nat /\ MaxRequests \in Nat

Status == {"absent", "active", "revoked", "expired", "terminated"}

\* SessionRecord: the fields that decide admission and rotation.
Record == [sid: Sid, abs: Nat, idle: Nat, used: Nat]

ASSUME NoneAssumption == None \notin Token \cup Sid \cup Req \cup Record

-----------------------------------------------------------------------------
(* Helpers *)

\* create_session's record for a session opened at instant t.
NewRecord(s, t) ==
    [sid |-> s, abs |-> t + SessionTTL, idle |-> t + IdleTimeout, used |-> t]

Expired(record) == now > record.abs \/ now > record.idle

Goto(r, step) == pc' = [pc EXCEPT ![r] = step]

\* An UPDATE of row s by r proceeds when no other transaction holds the row.
Free(r, s) == lock[s] \in {None, r}

Fresh == {t \in Token : issued[t] = None}

\* SET of a session key.
Put(t, record) == store' = [store EXCEPT ![t] = record]

\* UPDATE ... WHERE id = s: takes the row's lock and gives it a new version.
\* A row nobody has committed is not seen: the statement changes nothing.
Write(r, s, status) ==
    IF row[s] = "absent"
    THEN UNCHANGED <<draft, lock>>
    ELSE /\ Free(r, s)
         /\ draft' = [draft EXCEPT ![s] = status]
         /\ lock' = [lock EXCEPT ![s] = r]

\* UPDATE ... WHERE status = ACTIVE: the clause is evaluated on the version
\* found once the lock is free.
WriteIfActive(r, s, status) ==
    IF row[s] = "absent"
    THEN UNCHANGED <<draft, lock>>
    ELSE /\ Free(r, s)
         /\ IF draft[s] = "active"
            THEN Write(r, s, status)
            ELSE UNCHANGED <<draft, lock>>

Release(r) == lock' = [s \in Sid |-> IF lock[s] = r THEN None ELSE lock[s]]

Commit(r) ==
    /\ row' = [s \in Sid |-> IF lock[s] = r THEN draft[s] ELSE row[s]]
    /\ Release(r)
    /\ UNCHANGED draft

Rollback(r) ==
    /\ draft' = [s \in Sid |-> IF lock[s] = r THEN row[s] ELSE draft[s]]
    /\ Release(r)
    /\ UNCHANGED row

\* The request is over: its process-local state is gone.
Forget(r) ==
    /\ Goto(r, "idle")
    /\ tok' = [tok EXCEPT ![r] = None]
    /\ sid' = [sid EXCEPT ![r] = None]
    /\ used' = [used EXCEPT ![r] = 0]
    /\ buf' = [buf EXCEPT ![r] = None]
    /\ new' = [new EXCEPT ![r] = None]
    /\ todo' = [todo EXCEPT ![r] = {}]
    /\ rows' = [rows EXCEPT ![r] = {}]

Init ==
    /\ now = 0
    /\ store = [t \in Token |-> None]
    /\ index = {}
    /\ row = [s \in Sid |-> "absent"]
    /\ draft = [s \in Sid |-> "absent"]
    /\ lock = [s \in Sid |-> None]
    /\ born = [s \in Sid |-> 0]
    /\ issued = [t \in Token |-> None]
    /\ handed = {}
    /\ started = 0
    /\ pc = [r \in Req |-> "idle"]
    /\ tok = [r \in Req |-> None]
    /\ sid = [r \in Req |-> None]
    /\ used = [r \in Req |-> 0]
    /\ buf = [r \in Req |-> None]
    /\ new = [r \in Req |-> None]
    /\ todo = [r \in Req |-> {}]
    /\ rows = [r \in Req |-> {}]

-----------------------------------------------------------------------------
(* POST /auth/login, and the OAuth callback: create_session, then commit *)

\* The row is inserted and flushed; no other transaction sees it yet.
Login(r) ==
    /\ pc[r] = "idle"
    /\ started < MaxRequests /\ started' = started + 1
    /\ \E s \in Sid, t \in Fresh :
        /\ \A u \in Token : issued[u] # s
        /\ born' = [born EXCEPT ![s] = now]
        /\ issued' = [issued EXCEPT ![t] = s]
        /\ draft' = [draft EXCEPT ![s] = "active"]
        /\ lock' = [lock EXCEPT ![s] = r]
        /\ new' = [new EXCEPT ![r] = t]
        /\ buf' = [buf EXCEPT ![r] = NewRecord(s, now)]
    /\ Goto(r, "saveKey")
    /\ UNCHANGED <<now, redis, row, handed, tok, sid, used, todo, rows>>

\* SessionStore.save, first command: SET the record under the fresh token.
SaveKey(r) ==
    /\ \/ pc[r] = "saveKey" /\ Goto(r, "saveIndex")
       \/ pc[r] = "rotateKey" /\ Goto(r, "rotateIndex")
    /\ Put(new[r], buf[r])
    /\ buf' = [buf EXCEPT ![r] = None]
    /\ UNCHANGED <<now, index, db, ids, handed, started, tok, sid, used, new,
                   todo, rows>>

\* The session is answered before its row is committed.
SaveIndexNoCommit(r) ==
    /\ \/ pc[r] = "saveIndex" /\ Goto(r, "reply")
       \/ pc[r] = "rotateIndex" /\ Goto(r, "rotateDrop")
    /\ index' = index \cup {new[r]}
    /\ UNCHANGED <<now, store, db, ids, handed, started, local>>

\* SessionStore.save, second command: SADD the token to the user's index.
SaveIndex(r) ==
    /\ \/ pc[r] = "saveIndex" /\ Goto(r, "commit")
       \/ pc[r] = "rotateIndex" /\ Goto(r, "rotateDrop")
    /\ index' = index \cup {new[r]}
    /\ UNCHANGED <<now, store, db, ids, handed, started, local>>

-----------------------------------------------------------------------------
(* Authentication: SessionService.validate *)

\* A browser sends the cookie it has; any token it was ever handed may still
\* be on its way in a request sent before the cookie changed.
Send(r) ==
    /\ pc[r] = "idle"
    /\ started < MaxRequests /\ started' = started + 1
    /\ \E t \in handed : tok' = [tok EXCEPT ![r] = t]
    /\ \/ Goto(r, "validate")
       \/ Goto(r, "logoutGet")
    /\ UNCHANGED <<now, redis, db, ids, handed, sid, used, buf, new, todo,
                   rows>>

\* The session's lifetime is not checked.
ValidateNoExpiry(r) ==
    /\ pc[r] = "validate"
    /\ store[tok[r]] # None
    /\ sid' = [sid EXCEPT ![r] = store[tok[r]].sid]
    /\ used' = [used EXCEPT ![r] = store[tok[r]].used]
    /\ Goto(r, "touchGet")
    /\ UNCHANGED <<now, redis, db, ids, handed, started, tok, buf, new, todo,
                   rows>>

\* store.get and the two expiry checks.
Validate(r) ==
    /\ pc[r] = "validate"
    /\ store[tok[r]] # None
    /\ sid' = [sid EXCEPT ![r] = store[tok[r]].sid]
    /\ used' = [used EXCEPT ![r] = store[tok[r]].used]
    /\ \/ Expired(store[tok[r]]) /\ Goto(r, "expireDrop")
       \/ ~Expired(store[tok[r]]) /\ Goto(r, "touchGet")
    /\ UNCHANGED <<now, redis, db, ids, handed, started, tok, buf, new, todo,
                   rows>>

\* No record: validate returns None, and the request is refused with 401.
Refuse(r) ==
    /\ pc[r] = "validate"
    /\ store[tok[r]] = None
    /\ Forget(r)
    /\ UNCHANGED <<now, redis, db, ids, handed, started>>

\* SessionStore.delete, first half: GET the record, SREM the token from the
\* user's index if there was one.
DropFromIndex(r) ==
    /\ \/ pc[r] = "expireDrop" /\ Goto(r, "expireDelete")
       \/ pc[r] = "rotateDrop" /\ Goto(r, "rotateDelete")
       \/ pc[r] = "logoutDrop" /\ Goto(r, "logoutDelete")
    /\ index' = IF store[tok[r]] = None THEN index ELSE index \ {tok[r]}
    /\ UNCHANGED <<now, store, db, ids, handed, started, local>>

\* SessionStore.delete, second half: DEL the session key.
DeleteKey(r) ==
    /\ \/ pc[r] = "expireDelete" /\ Goto(r, "expireRow")
       \/ pc[r] = "rotateDelete" /\ Goto(r, "retouchGet")
       \/ pc[r] = "logoutDelete" /\ Goto(r, "logoutRow")
    /\ Put(tok[r], None)
    /\ UNCHANGED <<now, index, db, ids, handed, started, local>>

\* _expire_db_session.  get_current_user and get_authenticated_context raise
\* next, so the request rolls back (Fail); GET /oauth/github/begin ignores the
\* missing session and commits.
ExpireRow(r) ==
    /\ pc[r] = "expireRow"
    /\ WriteIfActive(r, sid[r], "expired")
    /\ Goto(r, "commit")
    /\ UNCHANGED <<now, redis, row, ids, handed, started, local>>

-----------------------------------------------------------------------------
(* Authentication: the two touches *)

\* SessionStore.touch, first half: GET the record and set last_used_at in the
\* copy.  A missing record ends the touch.
TouchGet(r) ==
    \E t \in {tok[r], new[r]} :
        /\ \/ pc[r] = "touchGet" /\ t = tok[r]
           \/ pc[r] = "retouchGet" /\ t = new[r]
        /\ IF store[t] = None
           THEN /\ UNCHANGED buf
                /\ Goto(r, IF pc[r] = "touchGet" THEN "touchRow" ELSE "handler")
           ELSE /\ Goto(r, IF pc[r] = "touchGet"
                           THEN "touchSet" ELSE "retouchSet")
                /\ buf' = [buf EXCEPT ![r] = [store[t] EXCEPT !.used = now]]
        /\ UNCHANGED <<now, redis, db, ids, handed, started, tok, sid, used,
                       new, todo, rows>>

\* SessionStore.touch, second half: SET the copy back, whatever became of the
\* key meanwhile.
TouchSet(r) ==
    /\ \/ pc[r] = "touchSet" /\ Goto(r, "touchRow") /\ Put(tok[r], buf[r])
       \/ pc[r] = "retouchSet" /\ Goto(r, "handler") /\ Put(new[r], buf[r])
    /\ buf' = [buf EXCEPT ![r] = None]
    /\ UNCHANGED <<now, index, db, ids, handed, started, tok, sid, used, new,
                   todo, rows>>

\* The row's last_used_at is left to a later statement: no lock is taken.
TouchRowNoLock(r) ==
    /\ pc[r] = "touchRow"
    /\ Goto(r, "admitted")
    /\ UNCHANGED <<now, redis, db, ids, handed, started, local>>

\* _touch_db_session: the UPDATE of last_used_at keeps the row's lock.
TouchRow(r) ==
    /\ pc[r] = "touchRow"
    /\ Write(r, sid[r], draft[sid[r]])
    /\ Goto(r, "admitted")
    /\ UNCHANGED <<now, redis, row, ids, handed, started, local>>

-----------------------------------------------------------------------------
(* Authentication: get_current_user, get_authenticated_context and rotation *)

\* get_current_user does not rotate and serves GETs, which never commit;
\* GET /oauth/github/begin validates the cookie by itself and commits.
AdmitPlain(r) ==
    /\ pc[r] = "admitted"
    /\ \/ Goto(r, "commit") /\ UNCHANGED db
       \/ Goto(r, "reply") /\ Rollback(r)
    /\ used' = [used EXCEPT ![r] = 0]
    /\ UNCHANGED <<now, redis, ids, handed, started, tok, sid, buf, new, todo,
                   rows>>

RotationDue(r) == now - used[r] >= RotationPeriod

\* get_authenticated_context, rotation not due.
Admit(r) ==
    /\ pc[r] = "admitted"
    /\ ~RotationDue(r)
    /\ Goto(r, "handler")
    /\ used' = [used EXCEPT ![r] = 0]
    /\ UNCHANGED <<now, redis, db, ids, handed, started, tok, sid, buf, new,
                   todo, rows>>

\* The rotated record starts a new idle period.
RotateRestartsIdle(r) ==
    /\ pc[r] = "admitted"
    /\ RotationDue(r)
    /\ IF store[tok[r]] = None
       THEN Goto(r, "handler") /\ UNCHANGED <<issued, buf, new>>
       ELSE \E t \in Fresh :
            /\ new' = [new EXCEPT ![r] = t]
            /\ issued' = [issued EXCEPT ![t] = store[tok[r]].sid]
            /\ buf' = [buf EXCEPT ![r] =
                          [store[tok[r]] EXCEPT !.idle = now + IdleTimeout]]
            /\ Goto(r, "rotateKey")
    /\ used' = [used EXCEPT ![r] = 0]
    /\ UNCHANGED <<now, redis, db, born, handed, started, tok, sid, todo, rows>>

\* get_authenticated_context, rotation due: rotate reads the record again and
\* draws a token.  A missing record ends the rotation, not the request.
Rotate(r) ==
    /\ pc[r] = "admitted"
    /\ RotationDue(r)
    /\ IF store[tok[r]] = None
       THEN Goto(r, "handler") /\ UNCHANGED <<issued, buf, new>>
       ELSE \E t \in Fresh :
            /\ new' = [new EXCEPT ![r] = t]
            /\ issued' = [issued EXCEPT ![t] = store[tok[r]].sid]
            /\ buf' = [buf EXCEPT ![r] = store[tok[r]]]
            /\ Goto(r, "rotateKey")
    /\ used' = [used EXCEPT ![r] = 0]
    /\ UNCHANGED <<now, redis, db, born, handed, started, tok, sid, todo, rows>>

-----------------------------------------------------------------------------
(* Endpoints of an authenticated request *)

\* An endpoint that changes no session: GETs end without a commit, the
\* mutating ones commit.
Serve(r) ==
    /\ pc[r] = "handler"
    /\ \/ Goto(r, "commit") /\ UNCHANGED db
       \/ Goto(r, "reply") /\ Rollback(r)
    /\ UNCHANGED <<now, redis, ids, handed, started, local>>

\* POST /sessions/{id}/revoke: SessionService.revoke writes the table only.
RevokeOne(r) ==
    /\ pc[r] = "handler"
    /\ \E s \in Sid : Write(r, s, "revoked")
    /\ Goto(r, "commit")
    /\ UNCHANGED <<now, redis, row, ids, handed, started, local>>

\* POST /sessions/revoke-all: list_active, then revoke every other row.
RevokeOthers(r) ==
    /\ pc[r] = "handler"
    /\ rows' = [rows EXCEPT ![r] = {s \in Sid : row[s] = "active"} \ {sid[r]}]
    /\ Goto(r, "revoke")
    /\ UNCHANGED <<now, redis, db, ids, handed, started, tok, sid, used, buf,
                   new, todo>>

\* POST /auth/logout-all: the keys in the user's index, less the request's
\* own cookie, are deleted one by one.
LogoutAll(r) ==
    /\ pc[r] = "handler"
    /\ todo' = [todo EXCEPT ![r] = index \ {tok[r]}]
    /\ Goto(r, "wipeKeys")
    /\ UNCHANGED <<now, redis, db, ids, handed, started, tok, sid, used, buf,
                   new, rows>>

WipeKey(r) ==
    /\ pc[r] = "wipeKeys"
    /\ \E t \in todo[r] : Put(t, None) /\ todo' = [todo EXCEPT ![r] = @ \ {t}]
    /\ UNCHANGED <<now, index, db, ids, handed, started, pc, tok, sid, used,
                   buf, new, rows>>

\* Then the whole index goes, the kept token's entry with it.
WipeIndex(r) ==
    /\ pc[r] = "wipeKeys" /\ todo[r] = {}
    /\ index' = {}
    /\ Goto(r, "scan")
    /\ UNCHANGED <<now, store, db, ids, handed, started, local>>

\* UPDATE ... WHERE user_id = u AND status = ACTIVE: the rows its snapshot sees.
ScanActive(r) ==
    /\ pc[r] = "scan"
    /\ rows' = [rows EXCEPT ![r] = {s \in Sid : row[s] = "active"}]
    /\ Goto(r, "terminate")
    /\ UNCHANGED <<now, redis, db, ids, handed, started, tok, sid, used, buf,
                   new, todo>>

\* The WHERE clause is not evaluated again after the wait for the lock.
EndRowUnchecked(r) ==
    /\ \E s \in rows[r] :
        /\ rows' = [rows EXCEPT ![r] = @ \ {s}]
        /\ \/ pc[r] = "terminate" /\ Write(r, s, "terminated")
           \/ pc[r] = "revoke" /\ Write(r, s, "revoked")
    /\ UNCHANGED <<now, redis, row, ids, handed, started, pc, tok, sid, used,
                   buf, new, todo>>

\* One row of the statement of logout-all, or one revoke of revoke-all.
EndRow(r) ==
    /\ \E s \in rows[r] :
        /\ rows' = [rows EXCEPT ![r] = @ \ {s}]
        /\ \/ pc[r] = "terminate" /\ WriteIfActive(r, s, "terminated")
           \/ pc[r] = "revoke" /\ Write(r, s, "revoked")
    /\ UNCHANGED <<now, redis, row, ids, handed, started, pc, tok, sid, used,
                   buf, new, todo>>

RowsEnded(r) ==
    /\ pc[r] \in {"terminate", "revoke"} /\ rows[r] = {}
    /\ Goto(r, "commit")
    /\ UNCHANGED <<now, redis, db, ids, handed, started, local>>

-----------------------------------------------------------------------------
(* POST /auth/logout: revoke_by_token, for whoever holds the cookie *)

LogoutGet(r) ==
    /\ pc[r] = "logoutGet"
    /\ IF store[tok[r]] = None
       THEN Goto(r, "commit") /\ UNCHANGED sid
       ELSE /\ Goto(r, "logoutDrop")
            /\ sid' = [sid EXCEPT ![r] = store[tok[r]].sid]
    /\ UNCHANGED <<now, redis, db, ids, handed, started, tok, used, buf, new,
                   todo, rows>>

LogoutRow(r) ==
    /\ pc[r] = "logoutRow"
    /\ Write(r, sid[r], "revoked")
    /\ Goto(r, "commit")
    /\ UNCHANGED <<now, redis, row, ids, handed, started, local>>

-----------------------------------------------------------------------------
(* The end of a request *)

CommitStep(r) ==
    /\ pc[r] = "commit"
    /\ Commit(r)
    /\ Goto(r, "reply")
    /\ UNCHANGED <<now, redis, ids, handed, started, local>>

\* The middleware sets a cookie whether or not the session rotated.
ReplyAlways(r) ==
    /\ pc[r] = "reply"
    /\ handed' = handed \cup {new[r]}
    /\ Forget(r)
    /\ UNCHANGED <<now, redis, db, ids, started>>

\* The response arrives: its Set-Cookie carries the login's or the rotation's
\* token.
Reply(r) ==
    /\ pc[r] = "reply"
    /\ handed' = handed \cup ({new[r]} \ {None})
    /\ Forget(r)
    /\ UNCHANGED <<now, redis, db, ids, started>>

\* rotate has returned: the middleware puts the new token on any response,
\* an error's too.
Rotated(r) ==
    /\ tok[r] # None /\ new[r] # None
    /\ pc[r] \notin {"rotateKey", "rotateIndex", "rotateDrop", "rotateDelete"}

\* A Redis or Postgres error, a deadlock Postgres breaks, a domain error of
\* the endpoint, or the worker's death: get_db_session rolls back, Redis keeps
\* what was written.  The error response may not arrive either.
Fail(r) ==
    /\ pc[r] # "idle"
    /\ Rollback(r)
    /\ \/ UNCHANGED handed
       \/ Rotated(r) /\ handed' = handed \cup {new[r]}
    /\ Forget(r)
    /\ UNCHANGED <<now, redis, ids, started>>

Tick ==
    /\ now < MaxTime
    /\ now' = now + 1
    /\ UNCHANGED <<redis, db, ids, handed, started, pc, local>>

Step(r) ==
    \/ Login(r) \/ SaveKey(r) \/ SaveIndex(r)
    \/ Send(r) \/ Validate(r) \/ Refuse(r)
    \/ DropFromIndex(r) \/ DeleteKey(r) \/ ExpireRow(r)
    \/ TouchGet(r) \/ TouchSet(r) \/ TouchRow(r)
    \/ AdmitPlain(r) \/ Admit(r) \/ Rotate(r)
    \/ Serve(r) \/ RevokeOne(r) \/ RevokeOthers(r)
    \/ LogoutAll(r) \/ WipeKey(r) \/ WipeIndex(r) \/ ScanActive(r)
    \/ EndRow(r) \/ RowsEnded(r)
    \/ LogoutGet(r) \/ LogoutRow(r)
    \/ CommitStep(r) \/ Reply(r) \/ Fail(r)

Next == Tick \/ \E r \in Req : Step(r)

Spec == Init /\ [][Next]_vars

-----------------------------------------------------------------------------
(* Properties *)

Steps == {"idle", "saveKey", "saveIndex", "validate", "expireDrop",
    "expireDelete", "expireRow", "touchGet", "touchSet", "touchRow", "admitted",
    "rotateKey", "rotateIndex", "rotateDrop", "rotateDelete", "retouchGet",
    "retouchSet", "handler", "wipeKeys", "scan", "terminate", "revoke",
    "logoutGet", "logoutDrop", "logoutDelete", "logoutRow", "commit", "reply"}

\* Every variable keeps its type.
TypeOK ==
    /\ now \in Nat
    /\ store \in [Token -> Record \cup {None}]
    /\ index \subseteq Token
    /\ row \in [Sid -> Status] /\ draft \in [Sid -> Status]
    /\ lock \in [Sid -> Req \cup {None}]
    /\ born \in [Sid -> Nat]
    /\ issued \in [Token -> Sid \cup {None}]
    /\ handed \subseteq Token
    /\ started \in Nat
    /\ pc \in [Req -> Steps]
    /\ tok \in [Req -> Token \cup {None}] /\ new \in [Req -> Token \cup {None}]
    /\ sid \in [Req -> Sid \cup {None}] /\ used \in [Req -> Nat]
    /\ buf \in [Req -> Record \cup {None}]
    /\ todo \in [Req -> SUBSET Token] /\ rows \in [Req -> SUBSET Sid]

\* The record under a token is the one its session was opened with: it names
\* the session the token was drawn for and carries that session's two expiry
\* instants, however many touches, rotations and late write-backs it has been
\* through.
Faithful(t, record) ==
    /\ record.sid = issued[t]
    /\ record.abs = born[record.sid] + SessionTTL
    /\ record.idle = born[record.sid] + IdleTimeout

RecordsFaithful == \A t \in Token : store[t] # None => Faithful(t, store[t])

\* A token reaches a browser only after the row of its session is committed:
\* nobody holds a cookie for a session Postgres does not know.
HandedHasRow == \A t \in handed : issued[t] # None /\ row[issued[t]] # "absent"

Rotating(r) ==
    pc[r] \in {"rotateKey", "rotateIndex", "rotateDrop", "rotateDelete"}

\* Two requests never rotate tokens of one session at the same time: the row
\* lock taken by the touch of the table, and kept to the end of the request,
\* serialises what happens in Redis.
RotationExclusive ==
    \A r, q \in Req :
        r # q /\ Rotating(r) /\ Rotating(q) => sid[r] # sid[q]

\* A request is admitted only within the idle timeout and the absolute
\* lifetime of the login its token goes back to.
AdmittedInLifetime ==
    [][\A r \in Req :
        pc[r] = "validate" /\ pc'[r] = "touchGet" =>
            LET opened == born[issued[tok[r]]]
            IN  now <= opened + IdleTimeout /\ now <= opened + SessionTTL]_vars

Lifecycle == INSTANCE SessionLifecycle WITH status <- row

\* The committed session rows follow the abstract life cycle: no interleaving
\* of expiry, logout, logout-all and revocation reopens an ended session or
\* overwrites a revocation.
ImplementsLifecycle == Lifecycle!Spec

-----------------------------------------------------------------------------
(* What the documents say and the code does not do *)

\* docs/security.md, "Revocation: per-session + global": once a session's row
\* is committed as revoked or terminated, no request is admitted to it that
\* presents its token afterwards.
RevokedIsRefused ==
    [][\A r \in Req :
        pc[r] = "validate" /\ pc'[r] = "touchGet" =>
            row[issued[tok[r]]] \notin {"revoked", "terminated"}]_vars
=============================================================================
