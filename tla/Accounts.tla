------------------------------- MODULE Accounts -------------------------------
(***************************************************************************)
(* Accounts with a password: registration, login and the verification of   *)
(* an email address, as requests that overlap.                             *)
(*                                                                         *)
(* A request passes the rate limiter, reads the account, writes it in its  *)
(* transaction, keeps or deletes a verification token in Redis and commits *)
(* last.  Postgres makes the second of two inserts of one email wait for   *)
(* the first; Redis knows nothing of transactions.  Sessions are modelled  *)
(* in Sessions.                                                            *)
(***************************************************************************)
EXTENDS RateLimiter, FiniteSets

CONSTANTS
    Req,                \* requests; each is one user's, made once
    Address,            \* emails as they are typed, in any case
    Email,              \* emails in lower case: what accounts are kept under
    Lower,              \* Lower[a]: address a in lower case
    None                \* model value: no account, no request

VARIABLES
    account,            \* Postgres: account[e], committed, or None
    inserted,           \* inserted[e]: whose insert of e is not committed
    locked,             \* locked[e]: whose UPDATE of e's row is not committed
    tokens,             \* Redis: the verification tokens
    req                 \* req[r]: the request's step and local variables

db == <<account, inserted, locked>>
vars == <<limiter, db, tokens, req>>

ASSUME LowerAssumption == Lower \in [Address -> Email]

\* One client's IP: its registrations share a bucket, and its logins have one
\* for each way an address is typed.
ASSUME BucketAssumption ==
    Bucket = Address \cup {"auth"} /\ "auth" \notin Address

Ops == {"register", "login", "verify", "resend"}

Steps == {"idle", "incr", "expire", "check", "token", "read", "insert",
    "update", "keep", "delete", "commit", "over"}

\* "lost": the request has committed, and its worker dies before the answer.
Answers == {"none", "limited", "refused", "error", "done", "lost"}
Committed == {"done", "lost"}

\* by: the request that registered the account.  A token carries that too: it
\* is the id of a user, who may never be committed.
Account == [by: Req, verified: BOOLEAN, status: {"pending_email", "active"}]
Token == [of: Req, user: Req]

ASSUME NoneAssumption == None \notin Req \cup Account \cup Token

\* count, at: the answer of INCR, and when.  seen: the account as it was read;
\* token: the token that is kept, or is shown.
Request == [pc: Steps, op: Ops \cup {"none"}, email: Email \cup {None},
    bucket: Bucket \cup {None}, count: Nat, at: Nat, admitted: BOOLEAN,
    seen: Account \cup {None}, token: Token \cup {None}, answer: Answers]

Idle == [pc |-> "idle", op |-> "none", email |-> None, bucket |-> None,
    count |-> 0, at |-> 0, admitted |-> FALSE, seen |-> None, token |-> None,
    answer |-> "none"]

\* A login is counted under the address as it is typed.  resend is not limited.
BucketOf(op, address) ==
    CASE op = "register" -> "auth" [] op = "login" -> address [] OTHER -> None

Goto(r, step) == req' = [req EXCEPT ![r].pc = step]

\* The locks on rows are left behind.
ReleaseInserts(r) ==
    /\ inserted' = [e \in Email |-> IF inserted[e] = r THEN None
                                    ELSE inserted[e]]
    /\ UNCHANGED locked

\* The locks of a transaction go with it.
Release(r) ==
    /\ inserted' = [e \in Email |-> IF inserted[e] = r THEN None
                                    ELSE inserted[e]]
    /\ locked' = [e \in Email |-> IF locked[e] = r THEN None ELSE locked[e]]

Answer(r, answer) ==
    req' = [req EXCEPT ![r].pc = "over", ![r].answer = answer]

\* The transaction ends without a trace, and the request with this answer.
Rollback(r, answer) ==
    /\ Release(r)
    /\ Answer(r, answer)
    /\ UNCHANGED <<limiter, account, tokens>>

Init ==
    /\ LimiterInit
    /\ account = [e \in Email |-> None]
    /\ inserted = [e \in Email |-> None]
    /\ locked = [e \in Email |-> None]
    /\ tokens = {}
    /\ req = [r \in Req |-> Idle]

-----------------------------------------------------------------------------
(* The endpoints *)

Start(r) ==
    /\ req[r].pc = "idle"
    /\ \E op \in {"register", "login", "resend"}, a \in Address :
        req' = [req EXCEPT ![r].op = op, ![r].email = Lower[a],
            ![r].bucket = BucketOf(op, a),
            ![r].pc = IF op = "resend" THEN "read" ELSE "incr"]
    /\ UNCHANGED <<limiter, db, tokens>>

\* Somebody has a token, by mail or in the answer, when the request that kept
\* it was told so.
Show(r) ==
    /\ req[r].pc = "idle"
    /\ \E s \in Req :
        /\ req[s].op \in {"register", "resend"} /\ req[s].answer = "done"
        /\ req' = [req EXCEPT ![r].op = "verify", ![r].pc = "token",
              ![r].email = req[s].email, ![r].token = req[s].token]
    /\ UNCHANGED <<limiter, db, tokens>>

-----------------------------------------------------------------------------
(* RateLimiter.check *)

\* RedisClient.incr.
Increment(r) ==
    LET b == req[r].bucket
    IN  /\ req[r].pc = "incr"
        /\ Incr(b)
        /\ req' = [req EXCEPT ![r].count = count[b] + 1, ![r].at = now,
              ![r].pc = IF count[b] = 0 THEN "expire" ELSE "check"]
        /\ UNCHANGED <<db, tokens>>

SetExpire(r) ==
    /\ req[r].pc = "expire"
    /\ Expire(req[r].bucket)
    /\ Goto(r, "check")
    /\ UNCHANGED <<db, tokens>>

\* The limit is compared with what was counted before.
AdmitOne(r) ==
    /\ req[r].pc = "check"
    /\ req[r].count <= Limit + 1
    /\ req' = [req EXCEPT ![r].pc = "read", ![r].admitted = TRUE]
    /\ UNCHANGED <<limiter, db, tokens>>

Admit(r) ==
    /\ req[r].pc = "check"
    /\ req[r].count <= Limit
    /\ req' = [req EXCEPT ![r].pc = "read", ![r].admitted = TRUE]
    /\ UNCHANGED <<limiter, db, tokens>>

\* TTL is read for the answer; nothing is changed.
TooMany(r) ==
    /\ req[r].pc = "check"
    /\ req[r].count > Limit
    /\ Rollback(r, "limited")

-----------------------------------------------------------------------------
(* AuthService *)

\* register: the SELECT.
ReadFree(r) ==
    /\ req[r].pc = "read" /\ req[r].op = "register"
    /\ account[req[r].email] = None
    /\ Goto(r, "insert")
    /\ UNCHANGED <<limiter, db, tokens>>

\* register finds the email; the others do not.
ReadRefused(r) ==
    /\ req[r].pc = "read"
    /\ \/ req[r].op = "register" /\ account[req[r].email] # None
       \/ req[r].op \in {"login", "resend"} /\ account[req[r].email] = None
    /\ Rollback(r, "refused")

\* verify_email gets the token ...
GetToken(r) ==
    /\ req[r].pc = "token" /\ req[r].token \in tokens
    /\ Goto(r, "read")
    /\ UNCHANGED <<limiter, db, tokens>>

\* ... or returns False if it is not there.
TokenGone(r) ==
    /\ req[r].pc = "token" /\ req[r].token \notin tokens
    /\ Rollback(r, "refused")

\* A second insert is not told of the first.
InsertAtOnce(r) ==
    LET e == req[r].email
    IN  /\ req[r].pc = "insert"
        /\ inserted' = [inserted EXCEPT ![e] = r]
        /\ Goto(r, "keep")
        /\ UNCHANGED <<limiter, account, locked, tokens>>

\* flush, with the unique index on the email: an insert that is not committed
\* is waited for.
Insert(r) ==
    LET e == req[r].email
    IN  /\ req[r].pc = "insert"
        /\ inserted[e] = None /\ account[e] = None
        /\ inserted' = [inserted EXCEPT ![e] = r]
        /\ Goto(r, "keep")
        /\ UNCHANGED <<limiter, account, locked, tokens>>

\* IntegrityError, which nothing handles.
Duplicate(r) ==
    /\ req[r].pc = "insert"
    /\ account[req[r].email] # None
    /\ Rollback(r, "error")

\* login with the right password, and verify_email: the account is read, to be
\* updated.  resend reads it for the token.
ReadAccount(r) ==
    LET found == account[req[r].email]
    IN  /\ req[r].pc = "read" /\ req[r].op # "register"
        /\ found # None
        /\ req' = [req EXCEPT ![r].seen = found,
              ![r].pc = IF req[r].op = "resend" THEN "keep" ELSE "update"]
        /\ UNCHANGED <<limiter, db, tokens>>

\* login with another password.
WrongPassword(r) ==
    /\ req[r].pc = "read" /\ req[r].op = "login"
    /\ account[req[r].email] # None
    /\ Rollback(r, "refused")

\* An account that is verified already is not written.
NoUpdate(r) ==
    /\ req[r].pc = "update" /\ req[r].op = "verify"
    /\ req[r].seen.verified
    /\ Goto(r, "delete")
    /\ UNCHANGED <<limiter, db, tokens>>

\* flush of the UPDATE: it waits for the row.
Update(r) ==
    LET e == req[r].email
    IN  /\ req[r].pc = "update"
        /\ req[r].op = "verify" => ~req[r].seen.verified
        /\ locked[e] = None
        /\ locked' = [locked EXCEPT ![e] = r]
        /\ Goto(r, IF req[r].op = "verify" THEN "delete" ELSE "commit")
        /\ UNCHANGED <<limiter, account, inserted, tokens>>

\* request_email_verification: the token names the user, before the commit.
KeepToken(r) ==
    LET user == IF req[r].op = "register" THEN r ELSE req[r].seen.by
        token == [of |-> r, user |-> user]
    IN  /\ req[r].pc = "keep"
        /\ tokens' = tokens \cup {token}
        /\ req' = [req EXCEPT ![r].pc = "commit", ![r].token = token]
        /\ UNCHANGED <<limiter, db>>

\* verify_email deletes the token before the commit.
DeleteToken(r) ==
    /\ req[r].pc = "delete"
    /\ tokens' = tokens \ {req[r].token}
    /\ Goto(r, "commit")
    /\ UNCHANGED <<limiter, db>>

\* Redis drops a token: an hour has passed.
TokenExpires(token) ==
    /\ token \in tokens
    /\ tokens' = tokens \ {token}
    /\ UNCHANGED <<limiter, db, req>>

\* The whole row is written as it was read, not the changed columns.
ChangedRow(r) ==
    IF req[r].op = "register"
    THEN [by |-> r, verified |-> FALSE, status |-> "pending_email"]
    ELSE IF req[r].op = "verify"
         THEN [req[r].seen EXCEPT !.verified = TRUE, !.status = "active"]
         ELSE req[r].seen

\* What the transaction makes of the account: the columns it has changed.
Changed(r) ==
    LET e == req[r].email
        current == account[e]
    IN  CASE req[r].op = "register" ->
               [by |-> r, verified |-> FALSE, status |-> "pending_email"]
          [] req[r].op = "verify" ->
               [current EXCEPT !.verified = TRUE,
                    !.status = IF req[r].seen.status = "pending_email"
                               THEN "active" ELSE @]
          [] OTHER -> current

\* The request is answered, and its session closed without a commit.
CommitForgotten(r) ==
    /\ req[r].pc = "commit"
    /\ Release(r)
    /\ Answer(r, "done")
    /\ UNCHANGED <<limiter, account, tokens>>

\* The answer follows, unless the worker dies.
Commit(r) ==
    /\ req[r].pc = "commit"
    /\ account' = [account EXCEPT ![req[r].email] = Changed(r)]
    /\ Release(r)
    /\ \E answer \in Committed : Answer(r, answer)
    /\ UNCHANGED <<limiter, tokens>>

\* Redis or Postgres fails, or the worker dies, before the commit.
Fail(r) ==
    /\ req[r].pc \notin {"idle", "over"}
    /\ Rollback(r, "error")

Proceed(r) ==
    \/ Increment(r) \/ SetExpire(r) \/ Admit(r) \/ TooMany(r)
    \/ ReadFree(r) \/ ReadRefused(r) \/ ReadAccount(r) \/ WrongPassword(r)
    \/ GetToken(r) \/ TokenGone(r)
    \/ Insert(r) \/ Duplicate(r) \/ NoUpdate(r) \/ Update(r)
    \/ KeepToken(r) \/ DeleteToken(r) \/ Commit(r)

Next ==
    \/ Tick /\ UNCHANGED <<db, tokens, req>>
    \/ \E token \in tokens : TokenExpires(token)
    \/ \E r \in Req : Start(r) \/ Show(r) \/ Proceed(r) \/ Fail(r)

Spec == Init /\ [][Next]_vars

-----------------------------------------------------------------------------
(* Properties *)

\* Every variable keeps its type, and what is locked is locked by a request
\* that is in its transaction.
TypeOK ==
    /\ LimiterType
    /\ account \in [Email -> Account \cup {None}]
    /\ inserted \in [Email -> Req \cup {None}]
    /\ locked \in [Email -> Req \cup {None}]
    /\ tokens \subseteq Token
    /\ req \in [Req -> Request]
    /\ \A e \in Email :
        /\ inserted[e] # None => req[inserted[e]].pc \in {"keep", "commit"}
        /\ locked[e] # None => req[locked[e]].pc \in {"delete", "commit"}

\* However requests of one bucket overlap, a span as long as the window admits
\* less than twice the limit: the request that begins a window and one that is
\* counted in the next are never that close.  An EXPIRE that is late or lost
\* makes it fewer.
SpanBounded ==
    \A b \in Bucket, t \in 0..MaxNow :
        Cardinality({r \in Req : req[r].admitted /\ req[r].bucket = b
                                  /\ req[r].at \in t..t + Window - 1})
            < 2 * Limit

\* Of the registrations of one email that overlap one at most is told it has
\* succeeded, and the account is the one that it made.
CreatedIsMine ==
    \A r \in Req :
        req[r].op = "register" /\ req[r].answer = "done" =>
            account[req[r].email] # None /\ account[req[r].email].by = r

\* Who is told that an address is verified has its account verified and
\* active, for good: no login, resend or second verification that had read it
\* before takes that back.
VerifiedForGood ==
    \A r \in Req :
        req[r].op = "verify" /\ req[r].answer = "done" =>
            /\ account[req[r].email].verified
            /\ account[req[r].email].status = "active"
            /\ account[req[r].email].by = req[r].token.user

\* The requests that committed, whose account each was about, and whether
\* they were told so.
Done ==
    {[req |-> r, op |-> req[r].op, email |-> req[r].email,
      user |-> IF req[r].op = "login" THEN req[r].seen.by
                                      ELSE req[r].token.user,
      told |-> req[r].answer = "done"]
        : r \in {s \in Req : req[s].answer \in Committed}}

Atomic == INSTANCE AtomicAccounts WITH done <- Done

\* However their steps in Redis and Postgres interleave and whichever of them
\* fail, the requests that commit look as if each had been carried out at
\* once, on the accounts as the ones before had left them, and no other has
\* changed anything or is told of success.
ImplementsAtomic == Atomic!Spec
=============================================================================
