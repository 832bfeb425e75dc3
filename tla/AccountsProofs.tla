---------------------------- MODULE AccountsProofs ----------------------------
(***************************************************************************)
(* Theorems about Accounts, for any requests, addresses, limits, windows.  *)
(*                                                                         *)
(* No lock is held from the reading of an account to its writing.  What    *)
(* makes up for it is that an account only grows: it is made once, by one  *)
(* request, and a verification is never undone, so that what was read      *)
(* before remains true of what is there.                                   *)
(*                                                                         *)
(* The limiter counts with two commands, and a worker may die between      *)
(* them.  What bounds a span is that the lives of a counter begin a window *)
(* apart, and that within a life no number is given twice.                 *)
(***************************************************************************)
EXTENDS Accounts, TLAPS, FiniteSetTheorems, FunctionTheorems

-----------------------------------------------------------------------------
(* The inductive invariant: q is what is known of request r, a the account *)
(* under its email, i who is inserting one there                           *)

\* What was true of an account stays true.
Grown(old, new) ==
    old # None =>
        /\ new # None /\ new.by = old.by
        /\ old.verified => new.verified

Consistent(a) == a # None => (a.verified <=> a.status = "active")

\* Where the kinds of requests go.
OnPath(q) ==
    /\ q.pc = "idle" => q = Idle
    /\ q.pc # "idle" => q.email \in Email /\ q.op \in Ops
    /\ q.pc \in {"incr", "expire", "check"} => q.bucket \in Bucket
    /\ q.pc = "insert" => q.op = "register"
    /\ q.pc = "keep" => q.op \in {"register", "resend"}
    /\ q.pc = "update" => q.op \in {"login", "verify"}
    /\ q.pc = "delete" => q.op = "verify"
    /\ q.answer \in Committed => q.pc = "over"

\* The account that was read, and the transactions that need one.
SeenOK(q, a) ==
    /\ q.seen # None => Consistent(q.seen) /\ Grown(q.seen, a)
    /\ q.pc \in {"keep", "update", "delete", "commit"} =>
        q.op = "register" \/ q.seen # None

\* A registration holds the key of its email.
HoldsOK(r, q, a, i) ==
    q.op = "register" /\ q.pc \in {"keep", "commit"} => a = None /\ i = r

\* A token names the user it is for.
TokenOK(r, q, a) ==
    /\ q.op = "verify" => q.token \in Token
    /\ q.op \in {"register", "resend"} /\ (q.pc = "commit" \/ q.answer = "done")
         => q.token \in Token
    /\ q.token # None =>
        /\ q.op = "register" => q.token.user = r
        /\ q.op # "register" => a # None /\ a.by = q.token.user

\* What the caller is told.
ToldOK(r, q, a) ==
    q.answer = "done" =>
        /\ q.op = "register" => a # None /\ a.by = r
        /\ q.op = "verify" => a # None /\ a.verified

RequestOK(r, q, a, i) ==
    /\ OnPath(q)
    /\ SeenOK(q, a)
    /\ HoldsOK(r, q, a, i)
    /\ TokenOK(r, q, a)
    /\ ToldOK(r, q, a)

IInv ==
    /\ TypeOK
    /\ \A e \in Email : Consistent(account[e])
    /\ \A r \in Req :
        RequestOK(r, req[r], account[req[r].email], inserted[req[r].email])

-----------------------------------------------------------------------------
(* Lemmas *)

\* The locks of others stay, and r's are kept where the next step has them.
LocksKept(r, q) ==
    \A e \in Email :
        /\ inserted'[e] = r => q.pc \in {"keep", "commit"}
        /\ inserted'[e] # r => inserted'[e] \in {None, inserted[e]}
        /\ locked'[e] = r => q.pc \in {"delete", "commit"}
        /\ locked'[e] # r => locked'[e] \in {None, locked[e]}

\* Accounts only grow, and not under the insert of another request.
AccountsKept(r) ==
    \A e \in Email :
        /\ Consistent(account'[e])
        /\ Grown(account[e], account'[e])
        /\ inserted[e] \notin {None, r} /\ account[e] = None =>
              inserted'[e] = inserted[e] /\ account'[e] = None

DbType ==
    /\ account \in [Email -> Account \cup {None}]
    /\ inserted \in [Email -> Req \cup {None}]
    /\ locked \in [Email -> Req \cup {None}]
    /\ tokens \subseteq Token

\* What is known of a request is not disturbed by a step of another.
LEMMA OtherRequest ==
    ASSUME IInv, NEW r \in Req, NEW s \in Req, s # r, req'[s] = req[s],
           AccountsKept(r)
    PROVE  RequestOK(s, req'[s], account'[req'[s].email],
                     inserted'[req'[s].email])
<1>1. RequestOK(s, req[s], account[req[s].email], inserted[req[s].email])
  BY DEF IInv
<1>2. CASE req[s].pc = "idle"
  <2>1. req[s] = Idle
    BY <1>1, <1>2 DEF RequestOK, OnPath
  <2> QED
    BY <1>1, <2>1 DEF RequestOK, OnPath, SeenOK, HoldsOK, TokenOK, ToldOK, Idle
<1>3. CASE req[s].pc # "idle"
  <2> DEFINE e == req[s].email
  <2>1. e \in Email
    BY <1>1, <1>3 DEF RequestOK, OnPath
  <2>2. Grown(account[e], account'[e])
    BY <2>1 DEF AccountsKept
  <2>3. inserted[e] = s /\ account[e] = None =>
            inserted'[e] = s /\ account'[e] = None
    BY <2>1, NoneAssumption DEF AccountsKept
  <2>4. SeenOK(req[s], account'[e])
    BY <1>1, <2>2 DEF RequestOK, SeenOK, Grown
  <2>5. HoldsOK(s, req[s], account'[e], inserted'[e])
    BY <1>1, <2>3 DEF RequestOK, HoldsOK
  <2>6. TokenOK(s, req[s], account'[e])
    BY <1>1, <2>2 DEF RequestOK, TokenOK, Grown
  <2>7. ToldOK(s, req[s], account'[e])
    BY <1>1, <2>2 DEF RequestOK, ToldOK, Grown
  <2> QED
    BY <1>1, <2>4, <2>5, <2>6, <2>7 DEF RequestOK
<1> QED BY <1>2, <1>3

\* A step of r preserves IInv if what is known of r after it is right.
LEMMA OneRequest ==
    ASSUME IInv, NEW r \in Req, NEW q \in Request,
           req' = [req EXCEPT ![r] = q], LimiterType', DbType',
           LocksKept(r, q), AccountsKept(r),
           RequestOK(r, q, account'[q.email], inserted'[q.email])
    PROVE  IInv'
<1>1. req' \in [Req -> Request] /\ req'[r] = q
      /\ \A s \in Req : s # r => req'[s] = req[s]
  BY DEF IInv, TypeOK
<1>2. ASSUME NEW e \in Email
      PROVE  /\ inserted'[e] # None =>
                    req'[inserted'[e]].pc \in {"keep", "commit"}
             /\ locked'[e] # None =>
                    req'[locked'[e]].pc \in {"delete", "commit"}
  <2>1. inserted'[e] \in Req \cup {None} /\ locked'[e] \in Req \cup {None}
    BY DEF DbType
  <2>2. /\ inserted[e] # None => req[inserted[e]].pc \in {"keep", "commit"}
        /\ locked[e] # None => req[locked[e]].pc \in {"delete", "commit"}
    BY DEF IInv, TypeOK
  <2> QED BY <1>1, <2>1, <2>2 DEF LocksKept
<1>3. TypeOK'
  BY <1>1, <1>2 DEF TypeOK, DbType
<1>4. ASSUME NEW s \in Req
      PROVE  RequestOK(s, req'[s], account'[req'[s].email],
                       inserted'[req'[s].email])
  BY <1>1, OtherRequest
<1>5. ASSUME NEW s \in Req
      PROVE  RequestOK(s, req[s], account[req[s].email],
                       inserted[req[s].email])'
  BY <1>4 DEF RequestOK, OnPath, SeenOK, HoldsOK, TokenOK, ToldOK, Grown,
              Consistent
<1> QED BY <1>3, <1>5 DEF IInv, AccountsKept, Consistent

\* The same for a step that Postgres does not see.
LEMMA QuietStep ==
    ASSUME IInv, NEW r \in Req, NEW q \in Request,
           req' = [req EXCEPT ![r] = q], LimiterType', tokens' \subseteq Token,
           UNCHANGED db,
           req[r].pc \in {"keep", "delete", "commit"} => q.pc = "commit",
           RequestOK(r, q, account[q.email], inserted[q.email])
    PROVE  IInv'
<1>1. DbType'
  BY DEF IInv, TypeOK, DbType, db
<1>2. AccountsKept(r)
  BY DEF IInv, AccountsKept, Grown, Consistent, db
<1>3. LocksKept(r, q)
  <2> SUFFICES ASSUME NEW e \in Email
               PROVE  /\ inserted'[e] = r => q.pc \in {"keep", "commit"}
                      /\ locked'[e] = r => q.pc \in {"delete", "commit"}
    BY DEF LocksKept, db
  <2> QED BY NoneAssumption DEF IInv, TypeOK, db
<1> QED BY <1>1, <1>2, <1>3, OneRequest DEF db

\* Requests keep what is their own.
LEMMA Known ==
    ASSUME IInv, NEW r \in Req
    PROVE  /\ req[r] \in Request
           /\ RequestOK(r, req[r], account[req[r].email],
                        inserted[req[r].email])
           /\ LimiterType /\ DbType
           /\ req[r].pc # "idle" =>
                req[r].email \in Email /\ Consistent(account[req[r].email])
BY DEF IInv, TypeOK, DbType, RequestOK, OnPath

\* A step that only moves r, or also has it admitted.
LEMMA EndStep ==
    ASSUME IInv, NEW r \in Req, req[r].pc # "idle",
           NEW answer \in Answers \ {"done", "lost", "none"},
           Rollback(r, answer)
    PROVE  IInv'
<1> DEFINE q == [req[r] EXCEPT !.pc = "over", !.answer = answer]
<1> USE Known
<1>a. q \in Request
  BY DEF Request, Steps
<1>b. req' = [req EXCEPT ![r] = q]
  BY DEF Rollback, Answer, IInv, TypeOK
<1>1. q \in Request /\ req' = [req EXCEPT ![r] = q]
  BY <1>a, <1>b
<1>2. LimiterType'
  BY Known DEF Rollback, limiter, LimiterType
<1>3. DbType'
  BY Known DEF DbType, Rollback, Release
<1>4. LocksKept(r, q)
  BY Known, NoneAssumption DEF LocksKept, Rollback, Release, DbType
<1>5. AccountsKept(r)
  BY Known, NoneAssumption
    DEF AccountsKept, Rollback, Release, Grown, IInv, DbType, Consistent
<1>6. RequestOK(r, q, account'[q.email], inserted'[q.email])
  <2>1. account'[q.email] = account[req[r].email]
    BY Known DEF Rollback, Request
  <2> QED
    BY Known, <2>1 DEF RequestOK, OnPath, SeenOK, HoldsOK, TokenOK, ToldOK,
      Request
<1> QED BY <1>1, <1>2, <1>3, <1>4, <1>5, <1>6, OneRequest

LEMMA StartStep ==
    ASSUME IInv, NEW r \in Req, Start(r)
    PROVE  IInv'
<1> USE Known
<1>1. PICK op \in {"register", "login", "resend"}, a \in Address :
        req' = [req EXCEPT ![r].op = op, ![r].email = Lower[a],
            ![r].bucket = BucketOf(op, a),
            ![r].pc = IF op = "resend" THEN "read" ELSE "incr"]
  BY DEF Start
<1> DEFINE to == IF op = "resend" THEN "read" ELSE "incr"
           e == Lower[a]
           b == BucketOf(op, a)
           q == [req[r] EXCEPT !.op = op, !.email = e, !.bucket = b,
                               !.pc = to]
<1>3. req' = [req EXCEPT ![r] = q]
  BY <1>1 DEF IInv, TypeOK
<1>a. to \in {"read", "incr"} /\ e \in Email
  BY LowerAssumption
<1>c. b \in Bucket \cup {None} /\ (to = "incr" => b \in Bucket)
  BY BucketAssumption DEF BucketOf
<1> HIDE DEF to, e, b
<1>b. to \in Steps /\ op \in Ops \cup {"none"}
  BY <1>a DEF Steps, Ops
<1>2. q \in Request
  BY <1>a, <1>b, <1>c DEF Request
<1>4. req[r] = Idle /\ UNCHANGED <<limiter, db, tokens>>
  BY DEF Start, RequestOK, OnPath
<1>5. RequestOK(r, q, account[q.email], inserted[q.email])
  BY <1>4, <1>a, <1>c
    DEF RequestOK, OnPath, SeenOK, HoldsOK, TokenOK, ToldOK, Idle, Request, Ops,
        Committed
<1>6. req[r].pc = "idle"
  BY DEF Start
<1>7. LimiterType' /\ tokens' \subseteq Token
  BY <1>4 DEF LimiterType, limiter, DbType
<1> HIDE DEF q
<1> QED BY <1>2, <1>3, <1>4, <1>5, <1>6, <1>7, QuietStep

\* Who is shown a token knows what is true of its account.
LEMMA ShowStep ==
    ASSUME IInv, NEW r \in Req, Show(r)
    PROVE  IInv'
<1> USE Known
<1>1. PICK s \in Req :
        /\ req[s].op \in {"register", "resend"} /\ req[s].answer = "done"
        /\ req' = [req EXCEPT ![r].op = "verify", ![r].pc = "token",
              ![r].email = req[s].email, ![r].token = req[s].token]
  BY DEF Show
<1> DEFINE q == [req[r] EXCEPT !.op = "verify", !.pc = "token",
                     !.email = req[s].email, !.token = req[s].token]
<1>a. "token" \in Steps /\ "verify" \in Ops
  BY DEF Steps, Ops
<1>b. /\ req[s].email \in Email \cup {None}
      /\ req[s].token \in Token \cup {None}
  BY DEF Request
<1>2. q \in Request
  BY <1>a, <1>b DEF Request
<1>3. req' = [req EXCEPT ![r] = q]
  BY <1>1 DEF IInv, TypeOK
<1>4. req[r] = Idle /\ UNCHANGED <<limiter, db, tokens>>
  BY DEF Show, RequestOK, OnPath
<1>5. /\ q.pc = "token" /\ q.op = "verify" /\ q.email = req[s].email
      /\ q.token = req[s].token /\ q.seen = None /\ q.answer = "none"
  BY <1>4 DEF Request, Idle
<1>6. /\ req[s].email \in Email /\ req[s].token \in Token
      /\ account[req[s].email] # None
      /\ account[req[s].email].by = req[s].token.user
  <2>1. RequestOK(s, req[s], account[req[s].email], inserted[req[s].email])
    OBVIOUS
  <2>2. req[s].pc # "idle"
    BY <1>1, <2>1 DEF RequestOK, OnPath, Committed
  <2>3. req[s].token \in Token
    BY <1>1, <2>1 DEF RequestOK, TokenOK
  <2>4. req[s].token # None
    BY <2>3, NoneAssumption
  <2> QED
    BY <1>1, <2>1, <2>2, <2>3, <2>4
      DEF RequestOK, OnPath, TokenOK, ToldOK
<1>7. RequestOK(r, q, account[q.email], inserted[q.email])
  BY <1>5, <1>6
    DEF RequestOK, OnPath, SeenOK, HoldsOK, TokenOK, ToldOK, Ops, Committed
<1>8. req[r].pc = "idle"
  BY DEF Show
<1>9. LimiterType' /\ tokens' \subseteq Token
  BY <1>4 DEF LimiterType, limiter, DbType
<1> HIDE DEF q
<1> QED BY <1>2, <1>3, <1>4, <1>7, <1>8, <1>9, QuietStep

LEMMA IncrementStep ==
    ASSUME IInv, NEW r \in Req, Increment(r)
    PROVE  IInv'
<1> USE Known
<1> DEFINE b == req[r].bucket
           to == IF count[b] = 0 THEN "expire" ELSE "check"
           q == [req[r] EXCEPT !.count = count[b] + 1, !.at = now, !.pc = to]
<1>1. req[r].pc = "incr" /\ UNCHANGED <<db, tokens>> /\ Incr(b)
  BY DEF Increment
<1>2. b \in Bucket
  BY <1>1 DEF RequestOK, OnPath
<1>3. now \in Nat /\ count[b] \in Nat
  BY <1>2 DEF LimiterType, LimiterAssumption
<1>5. req' = [req EXCEPT ![r] = q]
  BY DEF Increment, IInv, TypeOK
<1>a. to \in {"expire", "check"}
  OBVIOUS
<1>b. to \in Steps /\ count[b] + 1 \in Nat
  BY <1>3, <1>a DEF Steps
<1> HIDE DEF to, b
<1>4. q \in Request
  BY <1>3, <1>b DEF Request
<1>6. RequestOK(r, q, account[q.email], inserted[q.email])
  BY <1>1, <1>a
    DEF RequestOK, OnPath, SeenOK, HoldsOK, TokenOK, ToldOK, Request
<1>7. LimiterType' /\ tokens' \subseteq Token
  BY <1>1, <1>2, <1>3 DEF LimiterType, Incr, DbType
<1> HIDE DEF q
<1> QED BY <1>1, <1>4, <1>5, <1>6, <1>7, QuietStep

\* The steps that only move a request on.
LEMMA MoveStep ==
    ASSUME IInv, NEW r \in Req, NEW to \in Steps \ {"idle", "over"},
           req[r].pc \in {"expire", "check", "token", "read", "update"},
           Goto(r, to) \/ req' = [req EXCEPT ![r].pc = to,
                                             ![r].admitted = TRUE],
           RequestOK(r, [req[r] EXCEPT !.pc = to], account[req[r].email],
                     inserted[req[r].email]),
           LimiterType', UNCHANGED <<db, tokens>>
    PROVE  IInv'
<1> USE Known
<1>1. CASE Goto(r, to)
  <2> DEFINE q == [req[r] EXCEPT !.pc = to]
  <2>1. q \in Request /\ q.email = req[r].email
    BY DEF Request
  <2>2. req' = [req EXCEPT ![r] = q]
    BY <1>1 DEF Goto, IInv, TypeOK
  <2>3. RequestOK(r, q, account[q.email], inserted[q.email])
    BY <2>1
  <2> HIDE DEF q
  <2> QED BY <2>1, <2>2, <2>3, QuietStep DEF DbType
<1>2. CASE req' = [req EXCEPT ![r].pc = to, ![r].admitted = TRUE]
  <2> DEFINE q == [req[r] EXCEPT !.pc = to, !.admitted = TRUE]
  <2>1. q \in Request /\ q.email = req[r].email
    BY DEF Request
  <2>2. req' = [req EXCEPT ![r] = q]
    BY <1>2 DEF IInv, TypeOK
  <2>3. RequestOK(r, q, account[q.email], inserted[q.email])
    BY <2>1 DEF RequestOK, OnPath, SeenOK, HoldsOK, TokenOK, ToldOK, Request
  <2> HIDE DEF q
  <2> QED BY <2>1, <2>2, <2>3, QuietStep DEF DbType
<1> QED BY <1>1, <1>2

LEMMA SetExpireStep ==
    ASSUME IInv, NEW r \in Req, SetExpire(r)
    PROVE  IInv'
<1> USE Known
<1>1. req[r].pc = "expire" /\ Goto(r, "check") /\ UNCHANGED <<db, tokens>>
      /\ Expire(req[r].bucket)
  BY DEF SetExpire
<1>2. now + Window \in Nat
  BY LimiterAssumption DEF LimiterType
<1>3. LimiterType'
  BY <1>1, <1>2 DEF LimiterType, Expire
<1>4. RequestOK(r, [req[r] EXCEPT !.pc = "check"], account[req[r].email],
                inserted[req[r].email])
  BY <1>1 DEF RequestOK, OnPath, SeenOK, HoldsOK, TokenOK, ToldOK, Request
<1> QED BY <1>1, <1>3, <1>4, MoveStep DEF Steps

LEMMA AdmitStep ==
    ASSUME IInv, NEW r \in Req, Admit(r)
    PROVE  IInv'
<1> USE Known
<1>1. req[r].pc = "check" /\ UNCHANGED <<limiter, db, tokens>>
      /\ req' = [req EXCEPT ![r].pc = "read", ![r].admitted = TRUE]
  BY DEF Admit
<1>2. LimiterType'
  BY <1>1 DEF LimiterType, limiter
<1>3. RequestOK(r, [req[r] EXCEPT !.pc = "read"], account[req[r].email],
                inserted[req[r].email])
  BY <1>1 DEF RequestOK, OnPath, SeenOK, HoldsOK, TokenOK, ToldOK, Request
<1> QED BY <1>1, <1>2, <1>3, MoveStep DEF Steps

LEMMA ReadFreeStep ==
    ASSUME IInv, NEW r \in Req, ReadFree(r)
    PROVE  IInv'
<1> USE Known
<1>1. req[r].pc = "read" /\ req[r].op = "register" /\ Goto(r, "insert")
      /\ UNCHANGED <<limiter, db, tokens>>
  BY DEF ReadFree
<1>2. LimiterType'
  BY <1>1 DEF LimiterType, limiter
<1>3. RequestOK(r, [req[r] EXCEPT !.pc = "insert"], account[req[r].email],
                inserted[req[r].email])
  BY <1>1 DEF RequestOK, OnPath, SeenOK, HoldsOK, TokenOK, ToldOK, Request
<1> QED BY <1>1, <1>2, <1>3, MoveStep DEF Steps

LEMMA GetTokenStep ==
    ASSUME IInv, NEW r \in Req, GetToken(r)
    PROVE  IInv'
<1> USE Known
<1>1. req[r].pc = "token" /\ Goto(r, "read")
      /\ UNCHANGED <<limiter, db, tokens>>
  BY DEF GetToken
<1>2. LimiterType'
  BY <1>1 DEF LimiterType, limiter
<1>3. RequestOK(r, [req[r] EXCEPT !.pc = "read"], account[req[r].email],
                inserted[req[r].email])
  BY <1>1 DEF RequestOK, OnPath, SeenOK, HoldsOK, TokenOK, ToldOK, Request
<1> QED BY <1>1, <1>2, <1>3, MoveStep DEF Steps

LEMMA NoUpdateStep ==
    ASSUME IInv, NEW r \in Req, NoUpdate(r)
    PROVE  IInv'
<1> USE Known
<1>1. req[r].pc = "update" /\ req[r].op = "verify" /\ Goto(r, "delete")
      /\ UNCHANGED <<limiter, db, tokens>>
  BY DEF NoUpdate
<1>2. LimiterType'
  BY <1>1 DEF LimiterType, limiter
<1>3. RequestOK(r, [req[r] EXCEPT !.pc = "delete"], account[req[r].email],
                inserted[req[r].email])
  BY <1>1 DEF RequestOK, OnPath, SeenOK, HoldsOK, TokenOK, ToldOK, Request
<1> QED BY <1>1, <1>2, <1>3, MoveStep DEF Steps

LEMMA ReadAccountStep ==
    ASSUME IInv, NEW r \in Req, ReadAccount(r)
    PROVE  IInv'
<1> USE Known
<1> DEFINE found == account[req[r].email]
           to == IF req[r].op = "resend" THEN "keep" ELSE "update"
           q == [req[r] EXCEPT !.seen = found, !.pc = to]
<1>1. /\ req[r].pc = "read" /\ found # None
      /\ req[r].op \in {"login", "resend", "verify"}
      /\ UNCHANGED <<limiter, db, tokens>>
  BY DEF ReadAccount, RequestOK, OnPath, Ops
<1>2. found \in Account /\ Consistent(found)
  BY <1>1 DEF DbType
<1>4. req' = [req EXCEPT ![r] = q]
  BY DEF ReadAccount, IInv, TypeOK
<1>a. to \in {"keep", "update"} /\ (req[r].op = "resend" <=> to = "keep")
  OBVIOUS
<1> HIDE DEF to
<1>b. to \in Steps
  BY <1>a DEF Steps
<1>3. q \in Request
  BY <1>2, <1>b DEF Request
<1>5. /\ q.pc = to /\ q.seen = found /\ q.op = req[r].op
      /\ q.email = req[r].email /\ q.token = req[r].token
      /\ q.answer = req[r].answer
  BY DEF Request
<1>6. RequestOK(r, q, found, inserted[q.email])
  <2>1. SeenOK(q, found)
    BY <1>1, <1>2, <1>5 DEF SeenOK, Grown
  <2> QED
    BY <1>1, <1>5, <1>a, <2>1 DEF RequestOK, OnPath, HoldsOK, TokenOK, ToldOK
<1>7. LimiterType' /\ tokens' \subseteq Token
  BY <1>1 DEF LimiterType, limiter, DbType
<1>8. RequestOK(r, q, account[q.email], inserted[q.email])
  BY <1>5, <1>6
<1> HIDE DEF q, found
<1> QED BY <1>1, <1>3, <1>4, <1>7, <1>8, QuietStep

LEMMA InsertStep ==
    ASSUME IInv, NEW r \in Req, Insert(r)
    PROVE  IInv'
<1> USE Known
<1> DEFINE e == req[r].email
           q == [req[r] EXCEPT !.pc = "keep"]
<1>1. /\ req[r].pc = "insert" /\ inserted[e] = None /\ account[e] = None
      /\ inserted' = [inserted EXCEPT ![e] = r]
      /\ UNCHANGED <<limiter, account, locked, tokens>>
  BY DEF Insert
<1>2. req[r].op = "register" /\ e \in Email
  BY <1>1 DEF RequestOK, OnPath
<1>3. q \in Request
  BY DEF Request, Steps
<1>4. req' = [req EXCEPT ![r] = q]
  BY DEF Insert, Goto, IInv, TypeOK
<1>5. /\ q.pc = "keep" /\ q.seen = req[r].seen /\ q.op = req[r].op
      /\ q.email = e /\ q.token = req[r].token /\ q.answer = req[r].answer
  BY DEF Request
<1> HIDE DEF q
<1>6. LimiterType' /\ DbType'
  BY <1>1, <1>2 DEF LimiterType, limiter, DbType
<1>7. LocksKept(r, q)
  <2> SUFFICES ASSUME NEW f \in Email
               PROVE  /\ inserted'[f] # r =>
                            inserted'[f] \in {None, inserted[f]}
                      /\ locked'[f] # r
    BY <1>1, <1>5 DEF LocksKept
  <2> QED BY <1>1, <1>2, NoneAssumption DEF IInv, TypeOK
<1>8. AccountsKept(r)
  BY <1>1, <1>2 DEF AccountsKept, DbType, Grown, IInv, Consistent
<1>9. account'[q.email] = account[e] /\ inserted'[q.email] = r
  BY <1>1, <1>2, <1>5 DEF DbType
<1>10. RequestOK(r, q, account'[q.email], inserted'[q.email])
  BY <1>1, <1>2, <1>5, <1>9
    DEF RequestOK, OnPath, SeenOK, HoldsOK, TokenOK, ToldOK
<1> QED BY <1>3, <1>4, <1>6, <1>7, <1>8, <1>10, OneRequest

LEMMA UpdateStep ==
    ASSUME IInv, NEW r \in Req, Update(r)
    PROVE  IInv'
<1> USE Known
<1> DEFINE e == req[r].email
           to == IF req[r].op = "verify" THEN "delete" ELSE "commit"
           q == [req[r] EXCEPT !.pc = to]
<1>1. /\ req[r].pc = "update" /\ locked[e] = None
      /\ locked' = [locked EXCEPT ![e] = r]
      /\ UNCHANGED <<limiter, account, inserted, tokens>>
  BY DEF Update
<1>2. req[r].op \in {"login", "verify"} /\ e \in Email
  BY <1>1 DEF RequestOK, OnPath
<1>4. req' = [req EXCEPT ![r] = q]
  BY DEF Update, Goto, IInv, TypeOK
<1>a. to \in {"delete", "commit"} /\ (to = "delete" => req[r].op = "verify")
  OBVIOUS
<1> HIDE DEF to
<1>3. q \in Request
  BY <1>a DEF Request, Steps
<1>5. /\ q.pc = to /\ q.seen = req[r].seen /\ q.op = req[r].op
      /\ q.email = e /\ q.token = req[r].token /\ q.answer = req[r].answer
  BY DEF Request
<1> HIDE DEF q
<1>6. LimiterType' /\ DbType'
  BY <1>1, <1>2 DEF LimiterType, limiter, DbType
<1>7. LocksKept(r, q)
  <2> SUFFICES ASSUME NEW f \in Email
               PROVE  /\ inserted'[f] # r
                      /\ locked'[f] # r => locked'[f] \in {None, locked[f]}
    BY <1>1, <1>5, <1>a DEF LocksKept
  <2> QED BY <1>1, <1>2, NoneAssumption DEF IInv, TypeOK
<1>8. AccountsKept(r)
  BY <1>1, <1>2 DEF AccountsKept, DbType, Grown, IInv, Consistent
<1>9. account'[q.email] = account[e] /\ inserted'[q.email] = inserted[e]
  BY <1>1, <1>2, <1>5 DEF DbType
<1>10. RequestOK(r, q, account'[q.email], inserted'[q.email])
  BY <1>1, <1>2, <1>5, <1>9, <1>a
    DEF RequestOK, OnPath, SeenOK, HoldsOK, TokenOK, ToldOK
<1> QED BY <1>3, <1>4, <1>6, <1>7, <1>8, <1>10, OneRequest

\* The token is for the account that was made or read.
LEMMA KeepTokenStep ==
    ASSUME IInv, NEW r \in Req, KeepToken(r)
    PROVE  IInv'
<1> USE Known
<1> DEFINE user == IF req[r].op = "register" THEN r ELSE req[r].seen.by
           token == [of |-> r, user |-> user]
           q == [req[r] EXCEPT !.pc = "commit", !.token = token]
<1>1. req[r].pc = "keep" /\ tokens' = tokens \cup {token}
      /\ UNCHANGED <<limiter, db>>
  BY DEF KeepToken
<1>2. req[r].op \in {"register", "resend"} /\ req[r].email \in Email
  BY <1>1 DEF RequestOK, OnPath
<1>4. req' = [req EXCEPT ![r] = q]
  BY DEF KeepToken, IInv, TypeOK
<1>a. req[r].op # "register" =>
        /\ req[r].seen \in Account /\ user = req[r].seen.by
        /\ account[req[r].email] # None /\ account[req[r].email].by = user
  BY <1>1 DEF RequestOK, SeenOK, Grown, Request
<1>b. user \in Req /\ (req[r].op = "register" => user = r)
  BY <1>a DEF Account
<1> HIDE DEF user
<1>c. token \in Token /\ token.user = user
  BY <1>b DEF Token
<1> HIDE DEF token
<1>3. q \in Request
  BY <1>c DEF Request, Steps
<1>5. /\ q.pc = "commit" /\ q.seen = req[r].seen /\ q.op = req[r].op
      /\ q.email = req[r].email /\ q.token = token /\ q.answer = req[r].answer
  BY DEF Request
<1> HIDE DEF q
<1>6. RequestOK(r, q, account[q.email], inserted[q.email])
  BY <1>1, <1>2, <1>5, <1>a, <1>b, <1>c
    DEF RequestOK, OnPath, SeenOK, HoldsOK, TokenOK, ToldOK
<1>7. LimiterType' /\ tokens' \subseteq Token
  BY <1>1, <1>c DEF LimiterType, limiter, DbType
<1> QED BY <1>1, <1>3, <1>4, <1>5, <1>6, <1>7, QuietStep

LEMMA DeleteTokenStep ==
    ASSUME IInv, NEW r \in Req, DeleteToken(r)
    PROVE  IInv'
<1> USE Known
<1> DEFINE q == [req[r] EXCEPT !.pc = "commit"]
<1>1. /\ req[r].pc = "delete" /\ tokens' \subseteq tokens
      /\ UNCHANGED <<limiter, db>>
  BY DEF DeleteToken
<1>2. q \in Request
  BY DEF Request, Steps
<1>3. req' = [req EXCEPT ![r] = q]
  BY DEF DeleteToken, Goto, IInv, TypeOK
<1>4. q.pc = "commit" /\ RequestOK(r, q, account[q.email], inserted[q.email])
  BY <1>1 DEF RequestOK, OnPath, SeenOK, HoldsOK, TokenOK, ToldOK, Request
<1>5. LimiterType' /\ tokens' \subseteq Token
  BY <1>1 DEF LimiterType, limiter, DbType
<1> HIDE DEF q
<1> QED BY <1>1, <1>2, <1>3, <1>4, <1>5, QuietStep

\* What a transaction makes of an account is the account, grown.
LEMMA ChangedGrows ==
    ASSUME IInv, NEW r \in Req, req[r].pc = "commit"
    PROVE  /\ Changed(r) \in Account
           /\ Consistent(Changed(r))
           /\ Grown(account[req[r].email], Changed(r))
           /\ req[r].op = "register" => Changed(r).by = r
           /\ req[r].op = "verify" => Changed(r).verified
<1> USE Known
<1> DEFINE a == account[req[r].email]
<1>1. req[r].email \in Email /\ req[r].op \in Ops /\ Consistent(a)
  BY DEF RequestOK, OnPath
<1>2. CASE req[r].op = "register"
  <2>1. Changed(r) = [by |-> r, verified |-> FALSE, status |-> "pending_email"]
    BY <1>2 DEF Changed
  <2>2. a = None
    BY <1>2 DEF RequestOK, HoldsOK
  <2> QED BY <1>2, <2>1, <2>2 DEF Account, Consistent, Grown
<1>3. CASE req[r].op # "register"
  <2>1. a \in Account /\ a # None
    BY <1>1, <1>3, NoneAssumption DEF RequestOK, SeenOK, Grown, DbType
  <2>2. req[r].seen \in Account /\ Consistent(req[r].seen)
        /\ Grown(req[r].seen, a) /\ req[r].seen # None
    BY <1>3 DEF RequestOK, SeenOK, Request
  <2>3. CASE req[r].op = "verify"
    <3> DEFINE to == IF req[r].seen.status = "pending_email"
                     THEN "active" ELSE a.status
    <3>1. Changed(r) = [a EXCEPT !.verified = TRUE, !.status = to]
      BY <2>1, <2>3 DEF Changed, Account
    <3>2. to = "active"
      BY <1>1, <2>1, <2>2 DEF Consistent, Grown, Account
    <3> HIDE DEF to
    <3>3. /\ Changed(r) \in Account
          /\ Changed(r).by = a.by /\ Changed(r).verified
          /\ Changed(r).status = "active"
      BY <2>1, <3>1, <3>2 DEF Account
    <3> QED BY <2>3, <3>3, NoneAssumption DEF Consistent, Grown
  <2>4. CASE req[r].op # "verify"
    <3>1. Changed(r) = a
      BY <1>3, <2>4 DEF Changed
    <3> QED BY <1>1, <1>3, <2>1, <2>4, <3>1 DEF Grown
  <2> QED BY <2>3, <2>4
<1> QED BY <1>2, <1>3

LEMMA CommitStep ==
    ASSUME IInv, NEW r \in Req, Commit(r)
    PROVE  IInv'
<1> USE Known
<1>a. PICK answer \in Committed : Answer(r, answer)
  BY DEF Commit
<1> DEFINE e == req[r].email
           q == [req[r] EXCEPT !.pc = "over", !.answer = answer]
<1>1. /\ req[r].pc = "commit" /\ UNCHANGED <<limiter, tokens>>
      /\ account' = [account EXCEPT ![e] = Changed(r)]
  BY DEF Commit
<1>2. e \in Email /\ req[r].op \in Ops
  BY <1>1 DEF RequestOK, OnPath
<1>3. q \in Request
  BY DEF Request, Steps, Answers, Committed
<1>4. req' = [req EXCEPT ![r] = q]
  BY <1>a DEF Answer, IInv, TypeOK
<1>5. /\ q.pc = "over" /\ q.seen = req[r].seen /\ q.op = req[r].op
      /\ q.email = e /\ q.token = req[r].token /\ q.answer = answer
  BY DEF Request
<1> HIDE DEF q
<1>6. /\ Changed(r) \in Account /\ Consistent(Changed(r))
      /\ Grown(account[e], Changed(r))
      /\ req[r].op = "register" => Changed(r).by = r
      /\ req[r].op = "verify" => Changed(r).verified
  BY <1>1, ChangedGrows
<1>7. LimiterType' /\ DbType'
  BY <1>1, <1>2, <1>6 DEF LimiterType, limiter, DbType, Commit, Release
<1>8. LocksKept(r, q)
  BY NoneAssumption DEF LocksKept, Commit, Release, DbType
<1>9. AccountsKept(r)
  <2> SUFFICES ASSUME NEW f \in Email
               PROVE  /\ Consistent(account'[f])
                      /\ Grown(account[f], account'[f])
                      /\ inserted[f] \notin {None, r} /\ account[f] = None =>
                            inserted'[f] = inserted[f] /\ account'[f] = None
    BY DEF AccountsKept
  <2>1. inserted'[f] = IF inserted[f] = r THEN None ELSE inserted[f]
    BY DEF Commit, Release
  <2>2. CASE f # e
    <3>1. account'[f] = account[f]
      BY <1>1, <2>2 DEF DbType
    <3> QED BY <2>1, <3>1 DEF IInv, Grown, Consistent
  <2>3. CASE f = e
    <3>1. account'[f] = Changed(r)
      BY <1>1, <1>2, <2>3 DEF DbType
    <3>2. inserted[e] = r \/ account[e] # None
      BY <1>1, <1>2 DEF RequestOK, HoldsOK, SeenOK, Grown
    <3> QED BY <1>6, <2>1, <2>3, <3>1, <3>2
  <2> QED BY <2>2, <2>3
<1>10. account'[q.email] = Changed(r) /\ Changed(r) # None
  BY <1>1, <1>2, <1>5, <1>6, NoneAssumption DEF DbType
<1>11. RequestOK(r, q, account'[q.email], inserted'[q.email])
  <2> DEFINE c == Changed(r)
             i == inserted'[q.email]
  <2>1. RequestOK(r, req[r], account[e], inserted[e])
    OBVIOUS
  <2>2. OnPath(q)
    BY <1>2, <1>5 DEF OnPath
  <2>3. SeenOK(q, c)
    BY <1>5, <1>6, <2>1 DEF RequestOK, SeenOK, Grown
  <2>4. HoldsOK(r, q, c, i)
    BY <1>5 DEF HoldsOK
  <2>5. TokenOK(r, q, c)
    BY <1>1, <1>5, <1>6, <1>10, <2>1 DEF RequestOK, TokenOK, Grown
  <2>6. ToldOK(r, q, c)
    BY <1>5, <1>6, <1>10 DEF ToldOK
  <2> QED BY <1>10, <2>2, <2>3, <2>4, <2>5, <2>6 DEF RequestOK
<1> QED BY <1>3, <1>4, <1>7, <1>8, <1>9, <1>11, OneRequest

\* A refusal, an error, or a failure.
LEMMA RollbackStep ==
    ASSUME IInv, NEW r \in Req,
           TooMany(r) \/ ReadRefused(r) \/ TokenGone(r) \/ WrongPassword(r)
               \/ Duplicate(r) \/ Fail(r)
    PROVE  IInv'
<1>1. req[r].pc # "idle"
  BY DEF TooMany, ReadRefused, TokenGone, WrongPassword, Duplicate, Fail
<1>2. PICK answer \in {"limited", "refused", "error"} : Rollback(r, answer)
  BY DEF TooMany, ReadRefused, TokenGone, WrongPassword, Duplicate, Fail
<1>3. answer \in Answers \ {"done", "lost", "none"}
  BY DEF Answers
<1> QED BY <1>1, <1>2, <1>3, EndStep

LEMMA ProceedStep ==
    ASSUME IInv, NEW r \in Req, Proceed(r)
    PROVE  IInv'
BY IncrementStep, SetExpireStep, AdmitStep, ReadFreeStep, GetTokenStep,
   ReadAccountStep, InsertStep, NoUpdateStep, UpdateStep, KeepTokenStep,
   DeleteTokenStep, CommitStep, RollbackStep
DEF Proceed

\* Time and the expiry of tokens disturb no request.
LEMMA OutsideStep ==
    ASSUME IInv,
           \/ Tick /\ UNCHANGED <<db, tokens, req>>
           \/ \E token \in tokens : TokenExpires(token)
           \/ UNCHANGED vars
    PROVE  IInv'
<1>1. LimiterType'
  <2>1. CASE Tick
    <3>1. now + 1 \in 0..MaxNow /\ now' = now + 1
      BY <2>1, LimiterAssumption DEF Tick, LimiterType, IInv, TypeOK
    <3>2. count' \in [Bucket -> Nat] /\ until' \in [Bucket -> Nat \cup {Never}]
      BY <2>1 DEF Tick, LimiterType, IInv, TypeOK
    <3> QED BY <3>1, <3>2 DEF LimiterType
  <2>2. CASE UNCHANGED limiter
    BY <2>2 DEF IInv, TypeOK, LimiterType, limiter
  <2> QED BY <2>1, <2>2 DEF TokenExpires, vars
<1>2. UNCHANGED <<db, req>> /\ tokens' \subseteq tokens
  BY DEF TokenExpires, vars
<1>3. TypeOK'
  BY <1>1, <1>2 DEF IInv, TypeOK, db
<1> QED
  BY <1>2, <1>3 DEF IInv, db, RequestOK, OnPath, SeenOK, HoldsOK, TokenOK,
    ToldOK, Grown, Consistent

-----------------------------------------------------------------------------
(* Theorems *)

\* IInv holds in every reachable state: accounts only grow, whoever holds the
\* key of an email inserts it, and what a request knows stays true.
THEOREM Invariance == Spec => []IInv
<1>1. Init => IInv
  <2> SUFFICES ASSUME Init PROVE IInv
    OBVIOUS
  <2>1. LimiterType
    BY LimiterAssumption DEF Init, LimiterInit, LimiterType
  <2>2. Idle \in Request
    BY DEF Idle, Request, Steps, Answers
  <2>3. TypeOK
    BY <2>1, <2>2 DEF Init, TypeOK
  <2>4. ASSUME NEW r \in Req, NEW a, NEW i
        PROVE  RequestOK(r, Idle, a, i)
    BY DEF RequestOK, OnPath, SeenOK, HoldsOK, TokenOK, ToldOK, Idle,
      Committed
  <2> QED BY <2>3, <2>4 DEF IInv, Init, Consistent
<1>2. IInv /\ [Next]_vars => IInv'
  BY StartStep, ShowStep, ProceedStep, RollbackStep, OutsideStep DEF Next
<1> QED BY <1>1, <1>2, PTL DEF Spec

\* The limiter, the accounts and the requests keep their types, and a lock is
\* that of a request that is in its transaction: RateLimiter, AuthService.
THEOREM TypeCorrect == Spec => []TypeOK
<1>1. IInv => TypeOK
  BY DEF IInv
<1> QED BY <1>1, Invariance, PTL

\* A registration that is told of success has made the account there is: of
\* two that overlap in register, the unique index lets one commit.
THEOREM CreatedIsTheirs == Spec => []CreatedIsMine
<1>1. IInv => CreatedIsMine
  BY DEF IInv, CreatedIsMine, RequestOK, ToldOK
<1> QED BY <1>1, Invariance, PTL

\* A verification that is told of success holds for good, whatever login,
\* resend or verify_email had read the account before.
THEOREM VerificationStays == Spec => []VerifiedForGood
<1>1. ASSUME IInv PROVE VerifiedForGood
  <2> SUFFICES ASSUME NEW r \in Req, req[r].op = "verify",
                      req[r].answer = "done"
               PROVE  /\ account[req[r].email].verified
                      /\ account[req[r].email].status = "active"
                      /\ account[req[r].email].by = req[r].token.user
    BY DEF VerifiedForGood
  <2> DEFINE a == account[req[r].email]
  <2>1. RequestOK(r, req[r], a, inserted[req[r].email])
    BY Known, <1>1
  <2>2. req[r].pc # "idle"
    BY <2>1 DEF RequestOK, OnPath, Committed
  <2>3. a # None /\ a.verified /\ Consistent(a)
    BY <1>1, <2>1, <2>2, Known DEF RequestOK, ToldOK
  <2>4. req[r].token \in Token /\ req[r].token # None
    BY <2>1, NoneAssumption DEF RequestOK, TokenOK
  <2> QED BY <2>1, <2>3, <2>4 DEF Consistent, RequestOK, TokenOK
<1> QED BY <1>1, Invariance, PTL

-----------------------------------------------------------------------------
(* What a span admits: the lives of a bucket's counter                     *)

\* The requests a counter of bucket b has counted, and those that found it at
\* zero: each begins a life of the counter.
Counted(b) == {r \in Req : req[r].count > 0 /\ req[r].bucket = b}
Starters(b) == {r \in Counted(b) : req[r].count = 1}

\* The lives of a counter are a window apart.
Apart(b) ==
    \A u, v \in Starters(b) :
        \/ u = v
        \/ req[u].at + Window <= req[v].at
        \/ req[v].at + Window <= req[u].at

\* u begins a life between the counting of r and that of s.
Between(r, u, s) == req[r].at < req[u].at /\ req[u].at <= req[s].at

\* Within one life no number is given twice.
CountsDiffer(b) ==
    \A r, s \in Counted(b) :
        r # s /\ req[r].count = req[s].count =>
            \E u \in Starters(b) : Between(r, u, s) \/ Between(s, u, r)

\* A key that is gone was counted up before now, and begun a window ago.
GoneOK(b) ==
    count[b] = 0 =>
        /\ until[b] = Never
        /\ \A r \in Counted(b) : req[r].at < now
        /\ \A u \in Starters(b) : req[u].at + Window <= now

\* A key that is there has its last starter, and ends no sooner than a window
\* after that.
LivesOK(b) ==
    count[b] > 0 =>
        \E u \in Starters(b) :
            /\ until[b] # Never => req[u].at + Window <= until[b]
            /\ \A v \in Starters(b) : req[v].at <= req[u].at
            /\ \A r \in Counted(b) :
                req[u].at <= req[r].at => req[r].count <= count[b]

\* Who is to set a key's time to live is the only one, and the key is there.
ExpireOK(b) ==
    \A r \in Counted(b) : req[r].pc = "expire" =>
        /\ count[b] > 0 /\ until[b] = Never
        /\ \A s \in Counted(b) : req[s].pc = "expire" => s = r

\* How far a request is with the limiter, at time t.
LimitedOK(q, t) ==
    /\ q.pc \in {"idle", "incr"} => q.count = 0
    /\ q.pc \in {"expire", "check"} => q.count > 0
    /\ q.count > 0 => q.at <= t
    /\ q.admitted => q.count \in 1..Limit

BucketOK(b) ==
    Apart(b) /\ CountsDiffer(b) /\ GoneOK(b) /\ LivesOK(b) /\ ExpireOK(b)

SInv ==
    /\ IInv
    /\ \A r \in Req : LimitedOK(req[r], now)
    /\ \A b \in Bucket : BucketOK(b)

LEMMA Constants ==
    /\ Limit \in Nat /\ Limit >= 1 /\ Window \in Nat /\ Window >= 1
    /\ MaxNow \in Nat /\ Never \notin Int
BY LimiterAssumption

LEMMA CountedType ==
    ASSUME TypeOK
    PROVE  /\ \A r \in Req : req[r].count \in Nat /\ req[r].at \in Nat
           /\ \A b \in Bucket : /\ count[b] \in Nat
                                /\ until[b] \in Nat \cup {Never}
           /\ now \in Nat
BY Constants DEF TypeOK, LimiterType, Request

LEMMA BucketType ==
    ASSUME IInv, NEW r \in Req, req[r].pc \in {"incr", "expire"}
    PROVE  req[r].bucket \in Bucket
BY Known DEF RequestOK, OnPath

\* A step that counts nothing, admits nobody and sets no time to live.
LEMMA Undisturbed ==
    ASSUME SInv, IInv', UNCHANGED limiter,
           \A r \in Req :
               /\ req'[r].count = req[r].count /\ req'[r].at = req[r].at
               /\ req[r].count > 0 => req'[r].bucket = req[r].bucket
               /\ req'[r].pc = "expire" => req[r].pc = "expire"
               /\ LimitedOK(req'[r], now)
    PROVE  SInv'
<1>1. UNCHANGED <<now, count, until>>
  BY DEF limiter
<1>2. ASSUME NEW b \in Bucket PROVE BucketOK(b)'
  <2>1. Counted(b)' = Counted(b) /\ Counted(b) \subseteq Req
    BY DEF Counted
  <2>2. Starters(b)' = Starters(b) /\ Starters(b) \subseteq Req
    BY <2>1 DEF Starters
  <2>3. BucketOK(b)
    BY DEF SInv
  <2>4. Apart(b)'
    BY <2>2, <2>3 DEF BucketOK, Apart
  <2>5. CountsDiffer(b)'
    <3> SUFFICES ASSUME NEW r \in Counted(b), NEW s \in Counted(b), r # s,
                        req[r].count = req[s].count
                 PROVE  (\E u \in Starters(b) :
                            Between(r, u, s) \/ Between(s, u, r))'
      BY <2>1 DEF CountsDiffer
    <3>1. PICK u \in Starters(b) : Between(r, u, s) \/ Between(s, u, r)
      BY <2>3 DEF BucketOK, CountsDiffer
    <3>2. (Between(r, u, s) \/ Between(s, u, r))'
      BY <2>1, <2>2, <3>1 DEF Between
    <3> QED BY <2>2, <3>2
  <2>6. GoneOK(b)' /\ LivesOK(b)'
    BY <1>1, <2>1, <2>2, <2>3 DEF BucketOK, GoneOK, LivesOK
  <2>7. ExpireOK(b)'
    BY <1>1, <2>1, <2>3 DEF BucketOK, ExpireOK
  <2> QED BY <2>4, <2>5, <2>6, <2>7 DEF BucketOK
<1> QED BY <1>1, <1>2 DEF SInv

\* The same for a step of r.
LEMMA OneUndisturbed ==
    ASSUME SInv, IInv', UNCHANGED limiter, NEW r \in Req,
           \A s \in Req : s # r => req'[s] = req[s],
           req'[r].count = req[r].count, req'[r].at = req[r].at,
           req[r].count > 0 => req'[r].bucket = req[r].bucket,
           req'[r].pc # "expire", LimitedOK(req'[r], now)
    PROVE  SInv'
<1>1. \A s \in Req : LimitedOK(req[s], now)
  BY DEF SInv
<1> QED BY <1>1, Undisturbed

\* A request is counted: the first of a life is a window after the others, and
\* the others' numbers are new in it.
LEMMA IncrementSpan ==
    ASSUME SInv, IInv', NEW r \in Req, Increment(r)
    PROVE  SInv'
<1>0. PICK c \in Bucket : c = req[r].bucket
  BY BucketType DEF SInv, Increment
<1>1. /\ req[r].pc = "incr" /\ UNCHANGED <<now, until>>
      /\ count' = [count EXCEPT ![c] = @ + 1]
      /\ req' = [req EXCEPT ![r].count = count[c] + 1, ![r].at = now,
              ![r].pc = IF count[c] = 0 THEN "expire" ELSE "check"]
  BY <1>0 DEF Increment, Incr
<1>2. TypeOK /\ IInv
  BY DEF SInv, IInv
<1>3. /\ req'[r].count = count[c] + 1 /\ req'[r].at = now
      /\ req'[r].pc = (IF count[c] = 0 THEN "expire" ELSE "check")
      /\ req'[r].bucket = c /\ req'[r].admitted = req[r].admitted
      /\ \A s \in Req : s # r => req'[s] = req[s]
  BY <1>0, <1>1, <1>2 DEF TypeOK, Request
<1>4. /\ \A s \in Req : req[s].count \in Nat /\ req[s].at \in Nat
      /\ \A b \in Bucket : count[b] \in Nat /\ until[b] \in Nat \cup {Never}
      /\ now \in Nat
  BY <1>2, CountedType
<1>5. req[r].count = 0 /\ ~req[r].admitted
  BY <1>1 DEF SInv, LimitedOK
<1>6. ASSUME NEW s \in Req PROVE LimitedOK(req[s], now)'
  <2>1. LimitedOK(req[s], now) /\ now' = now
    BY <1>1 DEF SInv
  <2>2. CASE s # r
    BY <1>3, <2>1, <2>2
  <2>3. CASE s = r
    <3>1. LimitedOK(req'[r], now)
      BY <1>3, <1>4, <1>5 DEF LimitedOK
    <3> QED BY <2>1, <2>3, <3>1
  <2> QED BY <2>2, <2>3
<1>7. ASSUME NEW b \in Bucket PROVE BucketOK(b)'
  <2>1. BucketOK(b) /\ Counted(b) \subseteq Req /\ Starters(b) \subseteq Req
        /\ r \notin Counted(b)
    BY <1>5 DEF SInv, Counted, Starters
  <2>2. CASE b # c
    <3>1. Counted(b)' = Counted(b)
      BY <1>3, <1>5, <2>2 DEF Counted
    <3>2. Starters(b)' = Starters(b)
      BY <1>3, <2>1, <3>1 DEF Starters
    <3>3. /\ \A s \in Counted(b) : req'[s] = req[s]
          /\ \A s \in Starters(b) : req'[s] = req[s]
          /\ count'[b] = count[b] /\ until'[b] = until[b] /\ now' = now
      BY <1>1, <1>2, <1>3, <2>1, <2>2 DEF TypeOK, LimiterType, Starters
    <3>4. Apart(b)' /\ CountsDiffer(b)'
      BY <2>1, <3>1, <3>2, <3>3 DEF BucketOK, Apart, CountsDiffer, Between
    <3>5. GoneOK(b)' /\ LivesOK(b)' /\ ExpireOK(b)'
      BY <2>1, <3>1, <3>2, <3>3 DEF BucketOK, GoneOK, LivesOK, ExpireOK
    <3> QED BY <3>4, <3>5 DEF BucketOK
  <2>3. CASE b = c
    <3>1. Counted(c)' = Counted(c) \cup {r}
      BY <1>2, <1>3, <1>4 DEF Counted
    <3>2. /\ \A s \in Counted(c) : req'[s] = req[s]
          /\ \A s \in Starters(c) : req'[s] = req[s]
          /\ count'[c] = count[c] + 1 /\ until'[c] = until[c] /\ now' = now
      BY <1>1, <1>2, <1>3, <2>1, <2>3 DEF TypeOK, LimiterType, Starters
    <3>3. CASE count[c] = 0
      <4>1. Starters(c)' = Starters(c) \cup {r}
        BY <1>3, <3>1, <3>2, <3>3 DEF Starters
      <4>2. GoneOK(c)
        BY <2>1, <2>3 DEF BucketOK
      <4>3. Apart(c)'
        BY <1>3, <2>1, <2>3, <3>2, <3>3, <4>1, <4>2
          DEF BucketOK, Apart, GoneOK
      <4>4. CountsDiffer(c)'
        <5>1. ASSUME NEW s \in Counted(c) PROVE Between(s, r, r)'
          BY <1>3, <1>4, <2>1, <2>3, <3>2, <3>3, <4>2, <5>1
            DEF Between, GoneOK
        <5>2. ASSUME NEW s \in Counted(c), NEW t \in Counted(c), s # t,
                     req[s].count = req[t].count
              PROVE  (\E v \in Starters(c) :
                        Between(s, v, t) \/ Between(t, v, s))'
          <6>1. PICK v \in Starters(c) : Between(s, v, t) \/ Between(t, v, s)
            BY <2>1, <2>3, <5>2 DEF BucketOK, CountsDiffer
          <6>2. (Between(s, v, t) \/ Between(t, v, s))'
            BY <2>3, <3>2, <6>1 DEF Between
          <6> QED BY <4>1, <6>2
        <5> QED BY <3>1, <3>2, <4>1, <5>1, <5>2 DEF CountsDiffer
      <4>5. GoneOK(c)' /\ LivesOK(c)'
        <5>1. \A v \in Starters(c) : req'[v].at <= now
          BY <1>4, <2>1, <2>3, <3>2, <3>3, <4>2, Constants DEF GoneOK
        <5>2. ASSUME NEW s \in Counted(c)', (req[r].at <= req[s].at)'
              PROVE  (req[s].count <= count[c])'
          BY <1>3, <1>4, <2>1, <2>3, <3>1, <3>2, <3>3, <4>2, <5>2 DEF GoneOK
        <5> QED
          BY <1>3, <1>4, <3>2, <3>3, <4>1, <4>2, <5>1, <5>2
            DEF GoneOK, LivesOK
      <4>6. ExpireOK(c)'
        BY <1>3, <2>1, <2>3, <3>1, <3>2, <3>3, <4>2
          DEF BucketOK, ExpireOK, GoneOK
      <4> QED BY <2>3, <4>3, <4>4, <4>5, <4>6 DEF BucketOK
    <3>4. CASE count[c] > 0
      <4>1. Starters(c)' = Starters(c)
        BY <1>3, <1>4, <2>1, <3>1, <3>2, <3>4 DEF Starters
      <4>2. PICK u \in Starters(c) :
                /\ until[c] # Never => req[u].at + Window <= until[c]
                /\ \A v \in Starters(c) : req[v].at <= req[u].at
                /\ \A s \in Counted(c) :
                    req[u].at <= req[s].at => req[s].count <= count[c]
        BY <2>1, <2>3, <3>4 DEF BucketOK, LivesOK
      <4>3. u \in Counted(c) /\ req[u].at <= now
        BY <1>2 DEF Starters, Counted, SInv, LimitedOK
      <4>4. Apart(c)'
        BY <2>1, <2>3, <3>2, <4>1 DEF BucketOK, Apart
      <4>5. CountsDiffer(c)'
        <5>1. ASSUME NEW s \in Counted(c), req[s].count = count[c] + 1
              PROVE  Between(s, u, r)'
          BY <1>3, <1>4, <2>1, <2>3, <3>2, <4>2, <4>3, <5>1 DEF Between
        <5>2. ASSUME NEW s \in Counted(c), NEW t \in Counted(c), s # t,
                     req[s].count = req[t].count
              PROVE  (\E v \in Starters(c) :
                        Between(s, v, t) \/ Between(t, v, s))'
          BY <2>1, <2>3, <3>2, <4>1, <5>2 DEF BucketOK, CountsDiffer, Between
        <5> QED
          BY <1>3, <3>1, <3>2, <4>1, <5>1, <5>2 DEF CountsDiffer
      <4>6. GoneOK(c)' /\ LivesOK(c)'
        <5>1. ASSUME NEW s \in Counted(c)', (req[u].at <= req[s].at)'
              PROVE  (req[s].count <= count[c])'
          BY <1>3, <1>4, <2>1, <2>3, <3>1, <3>2, <4>2, <5>1
        <5> QED BY <1>4, <2>3, <3>2, <3>4, <4>1, <4>2, <5>1 DEF GoneOK, LivesOK
      <4>7. ExpireOK(c)'
        BY <1>3, <1>4, <2>1, <2>3, <3>1, <3>2, <3>4 DEF BucketOK, ExpireOK
      <4> QED BY <2>3, <4>4, <4>5, <4>6, <4>7 DEF BucketOK
    <3> QED BY <1>4, <2>3, <3>3, <3>4
  <2> QED BY <2>2, <2>3
<1> QED BY <1>6, <1>7 DEF SInv

\* A step of r after the limiter, or to its end.
LEMMA MovedOn ==
    ASSUME SInv, IInv', UNCHANGED limiter, NEW r \in Req,
           \A s \in Req : s # r => req'[s] = req[s],
           req'[r].count = req[r].count, req'[r].at = req[r].at,
           req'[r].bucket = req[r].bucket,
           req'[r].admitted = req[r].admitted,
           req'[r].pc \notin {"idle", "incr", "expire", "check"}
    PROVE  SInv'
<1>1. LimitedOK(req[r], now)
  BY DEF SInv
<1>2. LimitedOK(req'[r], now)
  BY <1>1 DEF LimitedOK
<1> QED BY <1>2, OneUndisturbed

LEMMA StartSpan ==
    ASSUME SInv, IInv', NEW r \in Req, Start(r) \/ Show(r)
    PROVE  SInv'
<1>1. req \in [Req -> Request] /\ UNCHANGED limiter /\ req[r].pc = "idle"
  BY DEF SInv, IInv, TypeOK, Start, Show
<1>2. /\ \A s \in Req : s # r => req'[s] = req[s]
      /\ req'[r].count = req[r].count /\ req'[r].at = req[r].at
      /\ req'[r].admitted = req[r].admitted
      /\ req'[r].pc \in {"read", "incr", "token"}
  <2>1. CASE Start(r)
    <3>1. PICK op \in {"register", "login", "resend"}, a \in Address :
             req' = [req EXCEPT ![r].op = op, ![r].email = Lower[a],
                 ![r].bucket = BucketOf(op, a),
                 ![r].pc = IF op = "resend" THEN "read" ELSE "incr"]
      BY <2>1 DEF Start
    <3> QED BY <1>1, <3>1 DEF Request
  <2>2. CASE Show(r)
    <3>1. PICK s \in Req :
             req' = [req EXCEPT ![r].op = "verify", ![r].pc = "token",
                 ![r].email = req[s].email, ![r].token = req[s].token]
      BY <2>2 DEF Show
    <3> QED BY <1>1, <3>1 DEF Request
  <2> QED BY <2>1, <2>2
<1>3. LimitedOK(req[r], now) /\ req[r].count = 0
  BY <1>1 DEF SInv, LimitedOK
<1>4. LimitedOK(req'[r], now)
  BY <1>2, <1>3 DEF LimitedOK
<1> QED BY <1>1, <1>2, <1>3, <1>4, OneUndisturbed

LEMMA AdmitSpan ==
    ASSUME SInv, IInv', NEW r \in Req, Admit(r)
    PROVE  SInv'
<1>1. /\ req \in [Req -> Request] /\ UNCHANGED limiter
      /\ req[r].pc = "check" /\ req[r].count <= Limit
  BY DEF SInv, IInv, TypeOK, Admit
<1>2. /\ \A s \in Req : s # r => req'[s] = req[s]
      /\ req'[r].count = req[r].count /\ req'[r].at = req[r].at
      /\ req'[r].bucket = req[r].bucket
      /\ req'[r].pc = "read"
  BY <1>1 DEF Admit, Request
<1>3. req[r].count \in 1..Limit /\ LimitedOK(req[r], now)
  BY <1>1, Constants DEF SInv, LimitedOK, Request
<1>4. LimitedOK(req'[r], now)
  BY <1>2, <1>3 DEF LimitedOK
<1> QED BY <1>1, <1>2, <1>4, OneUndisturbed

\* The other steps of a request.
LEMMA OtherSpan ==
    ASSUME SInv, IInv', NEW r \in Req,
           \/ TooMany(r) \/ ReadFree(r) \/ ReadRefused(r) \/ ReadAccount(r)
           \/ WrongPassword(r) \/ GetToken(r) \/ TokenGone(r) \/ Insert(r)
           \/ Duplicate(r) \/ NoUpdate(r) \/ Update(r) \/ KeepToken(r)
           \/ DeleteToken(r) \/ Commit(r) \/ Fail(r)
    PROVE  SInv'
<1>1. req \in [Req -> Request]
  BY DEF SInv, IInv, TypeOK
<1>2. CASE \/ TooMany(r) \/ ReadRefused(r) \/ WrongPassword(r)
           \/ TokenGone(r) \/ Duplicate(r) \/ Commit(r) \/ Fail(r)
  <2>1. UNCHANGED limiter /\ \E answer \in Answers : Answer(r, answer)
    BY <1>2 DEF TooMany, ReadRefused, WrongPassword, TokenGone, Duplicate,
                Commit, Fail, Rollback, Answers, Committed
  <2>2. /\ \A s \in Req : s # r => req'[s] = req[s]
        /\ req'[r].count = req[r].count /\ req'[r].at = req[r].at
        /\ req'[r].bucket = req[r].bucket
        /\ req'[r].admitted = req[r].admitted /\ req'[r].pc = "over"
    BY <1>1, <2>1 DEF Answer, Request
  <2> QED BY <2>1, <2>2, MovedOn
<1>3. CASE \/ ReadFree(r) \/ GetToken(r) \/ Insert(r) \/ NoUpdate(r)
           \/ Update(r) \/ DeleteToken(r)
  <2>1. /\ UNCHANGED limiter
        /\ \E to \in {"insert", "read", "keep", "delete", "commit"} :
              Goto(r, to)
    BY <1>3 DEF ReadFree, GetToken, Insert, NoUpdate, Update, DeleteToken
  <2>2. /\ \A s \in Req : s # r => req'[s] = req[s]
        /\ req'[r].count = req[r].count /\ req'[r].at = req[r].at
        /\ req'[r].bucket = req[r].bucket
        /\ req'[r].admitted = req[r].admitted
        /\ req'[r].pc \in {"insert", "read", "keep", "delete", "commit"}
    BY <1>1, <2>1 DEF Goto, Request
  <2> QED BY <2>1, <2>2, MovedOn
<1>4. CASE ReadAccount(r) \/ KeepToken(r)
  <2>1. /\ UNCHANGED limiter
        /\ \A s \in Req : s # r => req'[s] = req[s]
        /\ req'[r].count = req[r].count /\ req'[r].at = req[r].at
        /\ req'[r].bucket = req[r].bucket
        /\ req'[r].admitted = req[r].admitted
        /\ req'[r].pc \in {"keep", "update", "commit"}
    BY <1>1, <1>4 DEF ReadAccount, KeepToken, Request
  <2> QED BY <2>1, MovedOn
<1> QED BY <1>2, <1>3, <1>4

\* The time to live begins after the counting that the key began with.
LEMMA SetExpireSpan ==
    ASSUME SInv, IInv', NEW r \in Req, SetExpire(r)
    PROVE  SInv'
<1>0. PICK c \in Bucket : c = req[r].bucket
  BY BucketType DEF SInv, SetExpire
<1>1. /\ req[r].pc = "expire" /\ UNCHANGED <<now, count>>
      /\ until' = [until EXCEPT ![c] = now + Window]
      /\ req' = [req EXCEPT ![r].pc = "check"]
  BY <1>0 DEF SetExpire, Expire, Goto
<1>2. TypeOK
  BY DEF SInv, IInv
<1>3. /\ req'[r].count = req[r].count /\ req'[r].at = req[r].at
      /\ req'[r].pc = "check" /\ req'[r].bucket = req[r].bucket
      /\ req'[r].admitted = req[r].admitted
      /\ \A s \in Req : s # r => req'[s] = req[s]
  BY <1>1, <1>2 DEF TypeOK, Request
<1>4. /\ \A s \in Req : req[s].count \in Nat /\ req[s].at \in Nat
      /\ \A b \in Bucket : count[b] \in Nat /\ until[b] \in Nat \cup {Never}
      /\ now \in Nat
  BY <1>2, CountedType
<1>5. /\ \A s \in Req : LimitedOK(req[s], now)
      /\ req[r].count > 0
  BY <1>1 DEF SInv, LimitedOK
<1>6. ASSUME NEW s \in Req PROVE LimitedOK(req[s], now)'
  <2>1. LimitedOK(req'[r], now)
    BY <1>3, <1>5 DEF LimitedOK
  <2> QED BY <1>1, <1>3, <1>5, <2>1
<1>7. ASSUME NEW b \in Bucket PROVE BucketOK(b)'
  <2>1. Counted(b)' = Counted(b) /\ Counted(b) \subseteq Req
    BY <1>3 DEF Counted
  <2>2. Starters(b)' = Starters(b) /\ Starters(b) \subseteq Counted(b)
    BY <1>3, <2>1 DEF Starters
  <2>3. /\ \A s \in Req : req'[s].at = req[s].at /\ req'[s].count = req[s].count
        /\ BucketOK(b)
    BY <1>3 DEF SInv
  <2>4. Apart(b)'
    BY <2>1, <2>2, <2>3 DEF BucketOK, Apart
  <2>5. CountsDiffer(b)'
    BY <2>1, <2>2, <2>3 DEF BucketOK, CountsDiffer, Between
  <2>6. count'[b] = count[b] /\ now' = now
        /\ until'[b] = IF b = c THEN now + Window ELSE until[b]
    BY <1>1, <1>2 DEF TypeOK, LimiterType
  <2>7. c = b => count[b] > 0 /\ until[b] = Never
    BY <1>0, <1>1, <1>5, <2>3 DEF BucketOK, ExpireOK, Counted
  <2>8. GoneOK(b)'
    BY <2>1, <2>2, <2>3, <2>6, <2>7 DEF BucketOK, GoneOK
  <2>9. LivesOK(b)'
    <3>1. CASE b # c
      BY <2>1, <2>2, <2>3, <2>6, <3>1 DEF BucketOK, LivesOK
    <3>2. CASE b = c
      <4>1. PICK u \in Starters(b) :
                /\ \A v \in Starters(b) : req[v].at <= req[u].at
                /\ \A s \in Counted(b) :
                    req[u].at <= req[s].at => req[s].count <= count[b]
        BY <2>3, <2>7, <3>2 DEF BucketOK, LivesOK
      <4>2. req[u].at + Window <= now + Window
        BY <1>4, <1>5, <2>1, <2>2, Constants DEF LimitedOK, Counted
      <4> QED BY <2>1, <2>2, <2>3, <2>6, <3>2, <4>1, <4>2 DEF LivesOK
    <3> QED BY <3>1, <3>2
  <2>10. ExpireOK(b)'
    <3> SUFFICES ASSUME NEW s \in Counted(b), req'[s].pc = "expire"
                 PROVE  /\ count[b] > 0 /\ until'[b] = Never
                        /\ \A t \in Counted(b) : req'[t].pc = "expire" => t = s
      BY <2>1, <2>6 DEF ExpireOK
    <3>1. s # r /\ req[s].pc = "expire"
      BY <1>3, <2>1
    <3>2. b # c
      BY <1>0, <1>1, <1>5, <2>1, <2>3, <3>1 DEF BucketOK, ExpireOK, Counted
    <3>3. \A t \in Counted(b) : req'[t].pc = "expire" => req[t].pc = "expire"
      BY <1>1, <1>3, <2>1
    <3> QED BY <2>3, <2>6, <3>1, <3>2, <3>3 DEF BucketOK, ExpireOK
  <2> QED BY <2>4, <2>5, <2>8, <2>9, <2>10 DEF BucketOK
<1> QED BY <1>6, <1>7 DEF SInv

\* A key goes when its time is over, with all that was counted before.
LEMMA TickSpan ==
    ASSUME SInv, IInv', Tick, UNCHANGED req
    PROVE  SInv'
<1> DEFINE over == {b \in Bucket : until[b] # Never /\ until[b] <= now + 1}
<1>1. /\ now' = now + 1
      /\ count' = [b \in Bucket |-> IF b \in over THEN 0 ELSE count[b]]
      /\ until' = [b \in Bucket |-> IF b \in over THEN Never ELSE until[b]]
  BY DEF Tick
<1>2. /\ \A s \in Req : req[s].count \in Nat /\ req[s].at \in Nat
      /\ \A b \in Bucket : count[b] \in Nat /\ until[b] \in Nat \cup {Never}
      /\ now \in Nat
  BY CountedType DEF SInv, IInv
<1>3. \A s \in Req : LimitedOK(req[s], now)
  BY DEF SInv
<1>4. \A s \in Req : LimitedOK(req[s], now)'
  BY <1>1, <1>2, <1>3 DEF LimitedOK
<1>5. ASSUME NEW b \in Bucket PROVE BucketOK(b)'
  <2>1. /\ Counted(b)' = Counted(b) /\ Counted(b) \subseteq Req
        /\ Starters(b)' = Starters(b) /\ Starters(b) \subseteq Counted(b)
    BY DEF Counted, Starters
  <2>2. BucketOK(b) /\ \A s \in Counted(b) : req[s].at <= now
    BY <1>3, <2>1 DEF SInv, LimitedOK, Counted
  <2>3. Apart(b)' /\ CountsDiffer(b)'
    BY <2>1, <2>2 DEF BucketOK, Apart, CountsDiffer, Between
  <2>4. CASE b \in over
    <3>1. /\ count'[b] = 0 /\ until'[b] = Never
          /\ until[b] # Never /\ until[b] <= now + 1
      BY <1>1, <2>4
    <3>2. \A u \in Starters(b) : req[u].at + Window <= now + 1
      BY <1>2, <2>1, <2>2, <3>1, Constants DEF BucketOK, GoneOK, LivesOK
    <3>3. GoneOK(b)' /\ LivesOK(b)'
      BY <1>1, <1>2, <2>1, <2>2, <3>1, <3>2 DEF GoneOK, LivesOK
    <3>4. ExpireOK(b)'
      BY <2>1, <2>2, <3>1 DEF BucketOK, ExpireOK
    <3> QED BY <2>3, <3>3, <3>4 DEF BucketOK
  <2>5. CASE b \notin over
    <3>1. count'[b] = count[b] /\ until'[b] = until[b]
      BY <1>1, <2>5
    <3>2. GoneOK(b)'
      BY <1>1, <1>2, <2>1, <2>2, <3>1, Constants DEF BucketOK, GoneOK
    <3>3. LivesOK(b)' /\ ExpireOK(b)'
      BY <2>1, <2>2, <3>1 DEF BucketOK, LivesOK, ExpireOK
    <3> QED BY <2>3, <3>2, <3>3 DEF BucketOK
  <2> QED BY <2>4, <2>5
<1> QED BY <1>4, <1>5 DEF SInv

LEMMA InitSpan ==
    ASSUME Init, IInv
    PROVE  SInv
<1>1. \A r \in Req : LimitedOK(req[r], now)
  BY DEF Init, LimitedOK, Idle
<1>2. ASSUME NEW b \in Bucket PROVE BucketOK(b)
  <2>1. Counted(b) = {} /\ Starters(b) = {}
    BY DEF Counted, Starters, Init, Idle
  <2>2. count[b] = 0 /\ until[b] = Never
    BY DEF Init, LimiterInit
  <2> QED
    BY <2>1, <2>2
      DEF BucketOK, Apart, CountsDiffer, GoneOK, LivesOK, ExpireOK
<1> QED BY <1>1, <1>2 DEF SInv

LEMMA NextSpan ==
    ASSUME SInv, IInv', [Next]_vars
    PROVE  SInv'
<1>1. CASE UNCHANGED vars \/ \E token \in tokens : TokenExpires(token)
  <2>1. UNCHANGED <<limiter, req>>
    BY <1>1 DEF vars, TokenExpires
  <2> QED BY <2>1, Undisturbed DEF SInv
<1>2. CASE Tick /\ UNCHANGED <<db, tokens, req>>
  BY <1>2, TickSpan
<1>3. ASSUME NEW r \in Req, Start(r) \/ Show(r) \/ Proceed(r) \/ Fail(r)
      PROVE  SInv'
  BY <1>3, StartSpan, IncrementSpan, SetExpireSpan, AdmitSpan, OtherSpan
    DEF Proceed
<1> QED BY <1>1, <1>2, <1>3 DEF Next

\* Of the requests admitted in a span as long as the window, two that have the
\* same number are of two lives, of which the later begins in the span.  So
\* they can be told apart by their numbers and by whether a life that begins
\* in the span had begun; and the first number is not given before that.
LEMMA SpanInjection ==
    ASSUME SInv, NEW b \in Bucket, NEW t \in Nat,
           NEW A, A = {r \in Req : req[r].admitted /\ req[r].bucket = b
                                    /\ req[r].at \in t..t + Window - 1}
    PROVE  \E f : f \in Injection(A, 1..2 * Limit - 1)
<1> DEFINE Begun(r) == \E u \in Starters(b) : t <= req[u].at
                                              /\ req[u].at <= req[r].at
           number(r) == IF Begun(r) THEN req[r].count
                                    ELSE Limit + req[r].count - 1
           f == [r \in A |-> number(r)]
<1>1. /\ \A s \in Req : req[s].count \in Nat /\ req[s].at \in Nat
      /\ Limit \in Nat /\ Limit >= 1 /\ Window \in Nat /\ Window >= 1
  BY CountedType, Constants DEF SInv, IInv
<1>2. ASSUME NEW r \in A
      PROVE  /\ r \in Counted(b) /\ r \in Req /\ req[r].count \in 1..Limit
             /\ t <= req[r].at /\ req[r].at <= t + Window - 1
  BY <1>1 DEF SInv, LimitedOK, Counted
<1>3. BucketOK(b) /\ Starters(b) \subseteq Req
  BY DEF SInv, Starters, Counted
<1>4. ASSUME NEW r \in A PROVE number(r) \in 1..2 * Limit - 1
  <2>1. CASE Begun(r)
    BY <1>1, <1>2, <2>1
  <2>2. CASE ~Begun(r)
    <3>1. req[r].count # 1
      BY <1>1, <1>2, <2>2 DEF Starters
    <3>2. req[r].count \in 2..Limit
      BY <1>1, <1>2, <3>1
    <3> QED BY <1>1, <2>2, <3>2
  <2> QED BY <2>1, <2>2
<1>5. ASSUME NEW r \in A, NEW s \in A, NEW u \in Starters(b), Between(r, u, s)
      PROVE  Begun(s) /\ ~Begun(r)
  <2>1. t <= req[u].at /\ req[u].at <= t + Window - 1
    BY <1>1, <1>2, <1>3, <1>5 DEF Between
  <2>2. Begun(s)
    BY <1>5, <2>1 DEF Between
  <2>3. ASSUME NEW v \in Starters(b), t <= req[v].at, req[v].at <= req[r].at
        PROVE  FALSE
    <3>1. req[v].at < req[u].at
      BY <1>1, <1>2, <1>3, <1>5, <2>3 DEF Between
    <3> QED BY <1>1, <1>3, <2>1, <2>3, <3>1 DEF BucketOK, Apart
  <2> QED BY <2>2, <2>3
<1>6. ASSUME NEW r \in A, NEW s \in A, number(r) = number(s) PROVE r = s
  <2> SUFFICES ASSUME r # s PROVE FALSE
    OBVIOUS
  <2>1. CASE Begun(r) <=> Begun(s)
    <3>1. req[r].count = req[s].count
      BY <1>1, <1>2, <1>6, <2>1
    <3>2. PICK u \in Starters(b) : Between(r, u, s) \/ Between(s, u, r)
      BY <1>2, <1>3, <3>1 DEF BucketOK, CountsDiffer
    <3> QED BY <1>5, <2>1, <3>2
  <2>2. CASE ~(Begun(r) <=> Begun(s))
    <3>1. ASSUME NEW x \in A, NEW y \in A, Begun(x), ~Begun(y),
                 number(x) = number(y)
          PROVE  FALSE
      <4>1. req[y].count # 1
        BY <1>1, <1>2, <3>1 DEF Starters
      <4> QED BY <1>1, <1>2, <3>1, <4>1
    <3> QED BY <1>6, <2>2, <3>1
  <2> QED BY <2>1, <2>2
<1> HIDE DEF number
<1>7. f \in [A -> 1..2 * Limit - 1]
  BY <1>4
<1>8. \A r, s \in A : f[r] = f[s] => r = s
  BY <1>6
<1> HIDE DEF f
<1> QED BY <1>7, <1>8, Fun_IsInj

\* RateLimiter.check admits less than twice the limit in any span as long as
\* the window, however the commands of overlapping requests interleave and
\* whichever worker dies between INCR and EXPIRE.
THEOREM SpansAreBounded == Spec => []SpanBounded
<1>1. SInv => SpanBounded
  <2> SUFFICES ASSUME SInv, NEW b \in Bucket, NEW t \in 0..MaxNow,
                      NEW A, A = {r \in Req : req[r].admitted
                                    /\ req[r].bucket = b
                                    /\ req[r].at \in t..t + Window - 1}
               PROVE  Cardinality(A) < 2 * Limit
    BY DEF SpanBounded
  <2>1. 2 * Limit - 1 \in Nat /\ Limit >= 1 /\ t \in Nat
    BY Constants
  <2>2. PICK f : f \in Injection(A, 1..2 * Limit - 1)
    BY <2>1, SpanInjection
  <2>3. /\ IsFiniteSet(1..2 * Limit - 1)
        /\ Cardinality(1..2 * Limit - 1) = 2 * Limit - 1
    BY <2>1, FS_Interval
  <2>4. /\ IsFiniteSet(A)
        /\ Cardinality(A) <= Cardinality(1..2 * Limit - 1)
    BY <2>2, <2>3, FS_Injection
  <2>5. Cardinality(A) \in Nat /\ Cardinality(A) <= 2 * Limit - 1
    BY <2>3, <2>4, FS_CardinalityType
  <2>6. Limit \in Nat
    BY Constants
  <2> HIDE DEF SInv
  <2> QED BY <2>5, <2>6
<1>2. Init /\ IInv => SInv
  BY InitSpan
<1>3. SInv /\ IInv' /\ [Next]_vars => SInv'
  BY NextSpan
<1> QED BY <1>1, <1>2, <1>3, Invariance, PTL DEF Spec

-----------------------------------------------------------------------------
(* The refinement of AtomicAccounts: a commit is the step that Atomic      *)
(* takes, and every other step a stutter                                   *)

\* Whoever shows a token was given it by a request that was told of success.
Vouched ==
    \A r \in Req : req[r].op = "verify" =>
        \E s \in Req : /\ req[s].op \in {"register", "resend"}
                       /\ req[s].answer = "done"
                       /\ req[s].email = req[r].email
                       /\ req[s].token = req[r].token

\* Where a request was when it took a step that is not a commit: it had no
\* answer, and has no good one after it; what it verifies it does from its
\* beginning.
Unanswered(r) ==
    /\ req[r].pc # "over"
    /\ req'[r].answer \notin Committed
    /\ req'[r].op = "verify" =>
        \/ Show(r)
        \/ /\ req[r].op = "verify"
           /\ req'[r].email = req[r].email /\ req'[r].token = req[r].token
    /\ \A s \in Req : s # r => req'[s] = req[s]
    /\ UNCHANGED account

LEMMA StepUnanswered ==
    ASSUME IInv, NEW r \in Req, ~Commit(r),
           Start(r) \/ Show(r) \/ Proceed(r) \/ Fail(r)
    PROVE  Unanswered(r)
<1>1. /\ req \in [Req -> Request] /\ req[r] \in Request
      /\ req[r].answer \in Committed => req[r].pc = "over"
  BY Known DEF IInv, TypeOK, RequestOK, OnPath
<1>2. CASE Start(r)
  <2>1. req[r].pc = "idle" /\ UNCHANGED account
    BY <1>2 DEF Start, db
  <2>2. PICK op \in {"register", "login", "resend"}, a \in Address :
          req' = [req EXCEPT ![r].op = op, ![r].email = Lower[a],
              ![r].bucket = BucketOf(op, a),
              ![r].pc = IF op = "resend" THEN "read" ELSE "incr"]
    BY <1>2 DEF Start
  <2>3. req'[r].op = op /\ req'[r].answer = req[r].answer
        /\ \A s \in Req : s # r => req'[s] = req[s]
    BY <1>1, <2>2 DEF Request
  <2> QED BY <1>1, <2>1, <2>3 DEF Unanswered
<1>3. CASE Show(r)
  <2>1. req[r].pc = "idle" /\ UNCHANGED account
    BY <1>3 DEF Show, db
  <2>2. PICK s \in Req :
          req' = [req EXCEPT ![r].op = "verify", ![r].pc = "token",
              ![r].email = req[s].email, ![r].token = req[s].token]
    BY <1>3 DEF Show
  <2>3. req'[r].answer = req[r].answer
        /\ \A t \in Req : t # r => req'[t] = req[t]
    BY <1>1, <2>2 DEF Request
  <2> QED BY <1>1, <1>3, <2>1, <2>3 DEF Unanswered
<1>4. CASE \/ TooMany(r) \/ ReadRefused(r) \/ WrongPassword(r)
           \/ TokenGone(r) \/ Duplicate(r) \/ Fail(r)
  <2>1. PICK answer \in {"limited", "refused", "error"} : Rollback(r, answer)
    BY <1>4 DEF TooMany, ReadRefused, TokenGone, WrongPassword, Duplicate, Fail
  <2>2. req[r].pc # "over"
    BY <1>4 DEF TooMany, ReadRefused, TokenGone, WrongPassword, Duplicate, Fail
  <2>3. /\ req'[r].answer = answer /\ req'[r].op = req[r].op
        /\ req'[r].email = req[r].email /\ req'[r].token = req[r].token
        /\ \A s \in Req : s # r => req'[s] = req[s]
        /\ UNCHANGED account
    BY <1>1, <2>1 DEF Rollback, Answer, Request
  <2> QED BY <2>1, <2>2, <2>3 DEF Unanswered, Committed
<1>5. CASE \/ ReadFree(r) \/ GetToken(r) \/ Insert(r) \/ NoUpdate(r)
           \/ Update(r) \/ DeleteToken(r) \/ SetExpire(r)
  <2>1. PICK to \in Steps : Goto(r, to)
    BY <1>5 DEF ReadFree, GetToken, Insert, NoUpdate, Update, DeleteToken,
                SetExpire, Steps
  <2>2. req[r].pc # "over" /\ UNCHANGED account
    BY <1>5 DEF ReadFree, GetToken, Insert, NoUpdate, Update, DeleteToken,
                SetExpire, db
  <2>3. /\ req'[r].answer = req[r].answer /\ req'[r].op = req[r].op
        /\ req'[r].email = req[r].email /\ req'[r].token = req[r].token
        /\ \A s \in Req : s # r => req'[s] = req[s]
    BY <1>1, <2>1 DEF Goto, Request
  <2> QED BY <1>1, <2>2, <2>3 DEF Unanswered
<1>6. CASE ReadAccount(r) \/ Increment(r) \/ Admit(r)
  <2>1. req[r].pc # "over" /\ UNCHANGED account
    BY <1>6 DEF ReadAccount, Increment, Admit, db
  <2>2. /\ req'[r].answer = req[r].answer /\ req'[r].op = req[r].op
        /\ req'[r].email = req[r].email /\ req'[r].token = req[r].token
        /\ \A s \in Req : s # r => req'[s] = req[s]
    BY <1>1, <1>6 DEF ReadAccount, Increment, Admit, Request
  <2> QED BY <1>1, <2>1, <2>2 DEF Unanswered
<1>7. CASE KeepToken(r)
  <2>1. req[r].pc = "keep" /\ UNCHANGED account
    BY <1>7 DEF KeepToken, db
  <2>2. req[r].op \in {"register", "resend"}
    BY <2>1, Known DEF RequestOK, OnPath
  <2>3. /\ req'[r].answer = req[r].answer /\ req'[r].op = req[r].op
        /\ \A s \in Req : s # r => req'[s] = req[s]
    BY <1>1, <1>7 DEF KeepToken, Request
  <2> QED BY <1>1, <2>1, <2>2, <2>3 DEF Unanswered
<1> QED
  BY <1>2, <1>3, <1>4, <1>5, <1>6, <1>7 DEF Proceed

\* What a commit does to the requests.
LEMMA CommitAnswers ==
    ASSUME IInv, NEW r \in Req, Commit(r)
    PROVE  /\ req[r].pc = "commit" /\ req[r].answer \notin Committed
           /\ req'[r].answer \in Committed /\ req'[r].op = req[r].op
           /\ req'[r].email = req[r].email /\ req'[r].token = req[r].token
           /\ req'[r].seen = req[r].seen
           /\ \A s \in Req : s # r => req'[s] = req[s]
<1>1. req \in [Req -> Request] /\ req[r] \in Request
  BY Known DEF IInv, TypeOK
<1>2. req[r].pc = "commit" /\ \E answer \in Committed : Answer(r, answer)
  BY DEF Commit
<1>3. req[r].answer \notin Committed
  BY <1>2, Known DEF RequestOK, OnPath
<1> QED BY <1>1, <1>2, <1>3 DEF Answer, Request

LEMMA NextVouched ==
    ASSUME IInv, Vouched, [Next]_vars
    PROVE  Vouched'
<1>1. ASSUME NEW s \in Req, req[s].answer = "done"
      PROVE  req[s].pc = "over"
  BY <1>1, Known DEF RequestOK, OnPath, Committed
<1>2. CASE UNCHANGED req
  BY <1>2 DEF Vouched
<1>3. ASSUME NEW r \in Req, Start(r) \/ Show(r) \/ Proceed(r) \/ Fail(r)
      PROVE  Vouched'
  <2>1. ASSUME NEW s \in Req, req[s].answer = "done"
        PROVE  req'[s] = req[s]
    <3>1. CASE Commit(r)
      BY <2>1, <3>1, CommitAnswers DEF Committed
    <3>2. CASE ~Commit(r)
      BY <1>1, <1>3, <2>1, <3>2, StepUnanswered DEF Unanswered
    <3> QED BY <3>1, <3>2
  <2>2. ASSUME NEW q \in Req, req'[q].op = "verify"
        PROVE  \/ Show(q)
               \/ /\ req[q].op = "verify" /\ req'[q].email = req[q].email
                  /\ req'[q].token = req[q].token
    <3>1. CASE Commit(r)
      BY <2>2, <3>1, CommitAnswers
    <3>2. CASE ~Commit(r)
      BY <1>3, <2>2, <3>2, StepUnanswered DEF Unanswered
    <3> QED BY <3>1, <3>2
  <2>3. ASSUME NEW q \in Req, req'[q].op = "verify"
        PROVE  \E s \in Req : /\ req'[s].op \in {"register", "resend"}
                              /\ req'[s].answer = "done"
                              /\ req'[s].email = req'[q].email
                              /\ req'[s].token = req'[q].token
    <3>1. CASE Show(q)
      <4>1. PICK s \in Req :
              /\ req[s].op \in {"register", "resend"}
              /\ req[s].answer = "done"
              /\ req' = [req EXCEPT ![q].op = "verify", ![q].pc = "token",
                    ![q].email = req[s].email, ![q].token = req[s].token]
        BY <3>1 DEF Show
      <4>2. req \in [Req -> Request]
        BY DEF IInv, TypeOK
      <4>3. req'[q].email = req[s].email /\ req'[q].token = req[s].token
        BY <4>1, <4>2 DEF Request
      <4> QED BY <2>1, <4>1, <4>3
    <3>2. CASE req[q].op = "verify" /\ req'[q].email = req[q].email
               /\ req'[q].token = req[q].token
      <4>1. PICK s \in Req : /\ req[s].op \in {"register", "resend"}
                             /\ req[s].answer = "done"
                             /\ req[s].email = req[q].email
                             /\ req[s].token = req[q].token
        BY <3>2 DEF Vouched
      <4> QED BY <2>1, <3>2, <4>1
    <3> QED BY <2>2, <2>3, <3>1, <3>2
  <2> QED BY <2>3 DEF Vouched
<1> QED
  BY <1>2, <1>3 DEF Next, TokenExpires, vars

\* What a request that commits does.
Success(q, r) ==
    [req |-> r, op |-> q.op, email |-> q.email,
     user |-> IF q.op = "login" THEN q.seen.by ELSE q.token.user,
     told |-> q.answer = "done"]

\* A commit adds its request to the successes, which had not been there.
LEMMA CommitTells ==
    ASSUME IInv, NEW r \in Req, Commit(r)
    PROVE  /\ Done' = Done \cup {Success(req'[r], r)}
           /\ \A d \in Done : d.req # r
<1>1. Done = {Success(req[s], s)
                : s \in {t \in Req : req[t].answer \in Committed}}
  BY DEF Done, Success
<1>2. Done' = {Success(req'[s], s)
                 : s \in {t \in Req : req'[t].answer \in Committed}}
  BY DEF Done, Success
<1>3. {t \in Req : req'[t].answer \in Committed}
        = {t \in Req : req[t].answer \in Committed} \cup {r}
  BY CommitAnswers
<1>4. \A s \in Req : s # r => Success(req'[s], s) = Success(req[s], s)
  BY CommitAnswers
<1>5. req[r].answer \notin Committed
  BY CommitAnswers
<1>6. \A d \in Done : d.req # r
  BY <1>1, <1>5 DEF Success
<1>7. {Success(req'[s], s)
            : s \in {t \in Req : req'[t].answer \in Committed}}
        = {Success(req[s], s)
              : s \in {t \in Req : req[t].answer \in Committed}}
            \cup {Success(req'[r], r)}
  BY <1>3, <1>4, <1>5
<1> QED BY <1>1, <1>2, <1>6, <1>7

\* A commit is a step of AtomicAccounts.
LEMMA CommitIsAtomic ==
    ASSUME IInv, Vouched, NEW r \in Req, Commit(r)
    PROVE  Atomic!Next
<1> DEFINE q == req[r]
           e == q.email
           a == account[e]
           told == req'[r].answer = "done"
<1>1. /\ q.pc = "commit" /\ RequestOK(r, q, a, inserted[e]) /\ DbType
      /\ q \in Request /\ e \in Email /\ q.op \in Ops /\ Consistent(a)
  BY Known, CommitAnswers DEF RequestOK, OnPath
<1>2. account' = [account EXCEPT ![e] = Changed(r)]
  BY DEF Commit
<1>3. /\ Done' = Done \cup {Success(req'[r], r)}
      /\ \A d \in Done : d.req # r
  BY CommitTells
<1>a. /\ req'[r].op = q.op /\ req'[r].email = e /\ req'[r].seen = q.seen
      /\ req'[r].token = q.token /\ told \in BOOLEAN
  BY CommitAnswers
<1> HIDE DEF told
<1>b. Success(req'[r], r)
        = [req |-> r, op |-> q.op, email |-> e,
           user |-> IF q.op = "login" THEN q.seen.by ELSE q.token.user,
           told |-> told]
  BY <1>a DEF Success, told
<1>4. CASE q.op = "register"
  <2>1. q.token.user = r /\ a = None
    BY <1>1, <1>4, NoneAssumption DEF RequestOK, TokenOK, HoldsOK
  <2>2. Success(req'[r], r) = [req |-> r, op |-> "register", email |-> e,
                               user |-> r, told |-> told]
    BY <1>4, <1>b, <2>1
  <2>3. Changed(r) = [by |-> r, verified |-> FALSE, status |-> "pending_email"]
    BY <1>4 DEF Changed
  <2>4. Atomic!Register(r, e)
    BY <1>2, <1>3, <1>a, <2>1, <2>2, <2>3
      DEF Atomic!Register, Atomic!CarryOut
  <2> QED BY <1>1, <2>4 DEF Atomic!Next
<1>5. ASSUME q.op # "register"
      PROVE  /\ a \in Account /\ a # None
             /\ q.seen \in Account /\ q.seen # None /\ q.seen.by = a.by
             /\ Consistent(q.seen)
             /\ q.seen.verified => a.verified
  BY <1>1, <1>5, NoneAssumption DEF RequestOK, SeenOK, Grown, DbType, Request
<1>6. CASE q.op \in {"login", "resend"}
  <2>1. Success(req'[r], r) = [req |-> r, op |-> q.op, email |-> e,
                               user |-> a.by, told |-> told]
    <3>1. CASE q.op = "login"
      BY <1>5, <1>b, <3>1
    <3>2. CASE q.op = "resend"
      <4>1. q.token \in Token
        BY <1>1, <3>2 DEF RequestOK, TokenOK
      <4>2. q.token.user = a.by
        BY <1>1, <3>2, <4>1, NoneAssumption DEF RequestOK, TokenOK
      <4> QED BY <1>b, <3>2, <4>2
    <3> QED BY <1>6, <3>1, <3>2
  <2>2. Changed(r) = a
    BY <1>6 DEF Changed
  <2>3. UNCHANGED account
    BY <1>1, <1>2, <2>2 DEF DbType
  <2>4. Atomic!Use(r, q.op, e)
    BY <1>3, <1>5, <1>6, <1>a, <2>1, <2>3 DEF Atomic!Use, Atomic!CarryOut
  <2> QED BY <1>1, <1>6, <2>4 DEF Atomic!Next
<1>7. CASE q.op = "verify"
  <2>1. q.token \in Token /\ q.token.user = a.by
    BY <1>1, <1>7, NoneAssumption DEF RequestOK, TokenOK
  <2>2. Success(req'[r], r) = [req |-> r, op |-> "verify", email |-> e,
                               user |-> a.by, told |-> told]
    BY <1>7, <1>b, <2>1
  <2>3. PICK s \in Req : /\ req[s].op \in {"register", "resend"}
                         /\ req[s].answer = "done"
                         /\ req[s].email = e /\ req[s].token = q.token
    BY <1>7 DEF Vouched
  <2>4. \E d \in Done : /\ d.op \in {"register", "resend"}
                        /\ d.email = e /\ d.user = a.by /\ d.told
    <3>1. Success(req[s], s) \in Done
      BY <2>3 DEF Done, Success, Committed
    <3>2. /\ Success(req[s], s).op = req[s].op /\ Success(req[s], s).told
          /\ Success(req[s], s).email = e /\ Success(req[s], s).user = a.by
      BY <2>1, <2>3 DEF Success
    <3> QED BY <2>3, <3>1, <3>2
  <2> DEFINE to == IF q.seen.status = "pending_email"
                   THEN "active" ELSE a.status
  <2>5. Changed(r) = [a EXCEPT !.verified = TRUE, !.status = to]
    BY <1>5, <1>7 DEF Changed, Account
  <2>6. to = "active"
    BY <1>1, <1>5, <1>7 DEF Consistent, Account
  <2> HIDE DEF to
  <2>7. account' = [account EXCEPT ![e].verified = TRUE, ![e].status = "active"]
    BY <1>2, <2>5, <2>6 DEF DbType
  <2>8. Atomic!Verify(r, e)
    BY <1>3, <1>5, <1>7, <1>a, <2>2, <2>4, <2>7
      DEF Atomic!Verify, Atomic!CarryOut
  <2> QED BY <1>1, <2>8 DEF Atomic!Next
<1> QED BY <1>1, <1>4, <1>6, <1>7 DEF Ops

\* The other steps change neither the accounts nor the successes.
LEMMA OthersStutter ==
    ASSUME IInv, [Next]_vars, \A r \in Req : ~Commit(r)
    PROVE  UNCHANGED <<account, Done>>
<1>1. CASE UNCHANGED <<account, req>>
  BY <1>1 DEF Done
<1>2. ASSUME NEW r \in Req, Start(r) \/ Show(r) \/ Proceed(r) \/ Fail(r)
      PROVE  UNCHANGED <<account, Done>>
  <2>1. /\ req[r].answer \notin Committed
        /\ req'[r].answer \notin Committed
        /\ \A s \in Req : s # r => req'[s] = req[s]
        /\ UNCHANGED account
    BY <1>2, StepUnanswered, Known DEF Unanswered, RequestOK, OnPath
  <2>2. {t \in Req : req'[t].answer \in Committed}
          = {t \in Req : req[t].answer \in Committed}
    BY <2>1
  <2>3. \A s \in {t \in Req : req[t].answer \in Committed} :
            Success(req'[s], s) = Success(req[s], s)
    BY <2>1
  <2>4. {Success(req'[s], s)
              : s \in {t \in Req : req'[t].answer \in Committed}}
          = {Success(req[s], s)
                : s \in {t \in Req : req[t].answer \in Committed}}
    BY <2>2, <2>3
  <2>5. Done' = Done
    BY <2>4 DEF Done, Success
  <2> QED BY <2>1, <2>5
<1> QED
  BY <1>1, <1>2 DEF Next, TokenExpires, vars, db

\* The requests that succeed look as if each had been carried out at once:
\* register, login, resend_verification and verify_email implement
\* AtomicAccounts.
THEOREM AtomicImplemented == Spec => ImplementsAtomic
<1>1. Init => Atomic!Init /\ Vouched
  BY DEF Init, Atomic!Init, Done, Vouched, Idle, Committed
<1>2. IInv /\ Vouched /\ [Next]_vars => Vouched'
  BY NextVouched
<1>3. IInv /\ Vouched /\ [Next]_vars => [Atomic!Next]_<<account, Done>>
  BY CommitIsAtomic, OthersStutter
<1> QED
  BY <1>1, <1>2, <1>3, Invariance, PTL
  DEF Spec, ImplementsAtomic, Atomic!Spec
=============================================================================
