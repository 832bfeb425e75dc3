--------------------------- MODULE SessionsProofs ---------------------------
(***************************************************************************)
(* Theorems about Sessions, for any numbers of tokens, rows and requests   *)
(* and any timeouts.                                                       *)
(*                                                                         *)
(* None of the invariants of Sessions is inductive by itself: that two     *)
(* rotations exclude each other depends on the row lock, the lock on the   *)
(* row being committed, that on the cookie having been handed out, and     *)
(* what is handed out on the transaction that was committed before.  IInv  *)
(* says all of it; StepGrows says what a step of one request leaves to the *)
(* others, and there is one lemma for each kind of step.                   *)
(***************************************************************************)
EXTENDS Sessions, TLAPS

-----------------------------------------------------------------------------
(* The inductive invariant *)

\* A row without a lock has one version; a row's next version is one the
\* life cycle allows; a row no token was drawn for does not exist.
DbOK ==
    \A s \in Sid :
        /\ lock[s] = None => draft[s] = row[s]
        /\ Lifecycle!May(row[s], draft[s])
        /\ (\A t \in Token : issued[t] # s) =>
              row[s] = "absent" /\ draft[s] = "absent" /\ lock[s] = None

TokSteps == Steps \ {"idle", "saveKey", "saveIndex", "commit", "reply"}

NewSteps == {"saveKey", "saveIndex", "rotateKey", "rotateIndex", "rotateDrop",
    "rotateDelete", "retouchGet", "retouchSet"}

LockSteps ==
    {"admitted", "rotateKey", "rotateIndex", "rotateDrop", "rotateDelete"}

SidSteps == LockSteps \cup {"expireDrop", "expireDelete", "expireRow",
    "touchGet", "touchSet", "touchRow",
    "logoutDrop", "logoutDelete", "logoutRow"}

\* A request presents a cookie that was handed out.
CookieOK(r) ==
    /\ tok[r] # None => tok[r] \in handed
    /\ pc[r] \in TokSteps => tok[r] # None
    /\ pc[r] = "idle" => tok[r] = None /\ new[r] = None

\* A request that found a record works on its cookie's session; from the touch
\* of the row to the end of a rotation it holds the row's lock.
AuthOK(r) ==
    /\ pc[r] \in SidSteps => sid[r] = issued[tok[r]]
    /\ pc[r] \in LockSteps => lock[sid[r]] = r

\* A fresh token belongs to a session whose row is committed, or is being
\* inserted by this request.
NewOK(r) ==
    /\ pc[r] \in NewSteps => new[r] # None
    /\ new[r] # None => issued[new[r]] # None
    /\ new[r] # None /\ (tok[r] # None \/ pc[r] = "reply") =>
          row[issued[new[r]]] # "absent"
    /\ new[r] # None /\ tok[r] = None /\ pc[r] # "reply" =>
          /\ lock[issued[new[r]]] = r
          /\ draft[issued[new[r]]] = "active"

\* A record about to be written back is faithful to the token it goes to.
BufOK(r) ==
    /\ pc[r] \in {"saveKey", "rotateKey", "retouchSet"} =>
          buf[r] # None /\ Faithful(new[r], buf[r])
    /\ pc[r] = "touchSet" => buf[r] # None /\ Faithful(tok[r], buf[r])

RequestOK(r) == CookieOK(r) /\ AuthOK(r) /\ NewOK(r) /\ BufOK(r)

IInv ==
    /\ TypeOK
    /\ DbOK
    /\ RecordsFaithful
    /\ HandedHasRow
    /\ \A r \in Req : RequestOK(r)

\* What a step of request r leaves to the transactions of the others.
LocksKept(r) ==
    \A s \in Sid : lock[s] \in Req \ {r} =>
        lock'[s] = lock[s] /\ draft'[s] = draft[s]

\* What a step of request r leaves to every other request.
Grows(r) ==
    /\ handed \subseteq handed'
    /\ \A t \in Token : issued[t] # None =>
          issued'[t] = issued[t] /\ born'[issued[t]] = born[issued[t]]
    /\ \A s \in Sid : row[s] # "absent" => row'[s] # "absent"
    /\ LocksKept(r)
    /\ \A q \in Req \ {r} :
          /\ pc'[q] = pc[q] /\ tok'[q] = tok[q] /\ sid'[q] = sid[q]
          /\ new'[q] = new[q] /\ buf'[q] = buf[q]

\* What is proved of every step of request r.
Stepped(r) ==
    /\ TypeOK' /\ DbOK' /\ RecordsFaithful' /\ HandedHasRow'
    /\ RequestOK(r)'
    /\ Grows(r)

-----------------------------------------------------------------------------
(* The parts of the state a step leaves alone, and the row statements *)

\* What a request reads under its cookie and writes under its fresh token.
LEMMA Cookie ==
    ASSUME IInv, NEW r \in Req
    PROVE  /\ pc[r] \in TokSteps =>
                 /\ tok[r] \in Token /\ store[tok[r]] \in Record \cup {None}
                 /\ issued[tok[r]] \in Sid /\ row[issued[tok[r]]] # "absent"
           /\ pc[r] \in NewSteps =>
                 new[r] \in Token /\ store[new[r]] \in Record \cup {None}
           /\ pc[r] \in SidSteps => sid[r] \in Sid
<1>1. pc[r] \in TokSteps =>
          /\ tok[r] \in Token /\ store[tok[r]] \in Record \cup {None}
          /\ issued[tok[r]] \in Sid /\ row[issued[tok[r]]] # "absent"
  BY DEF IInv, TypeOK, RequestOK, CookieOK, HandedHasRow
<1>2. pc[r] \in NewSteps =>
          new[r] \in Token /\ store[new[r]] \in Record \cup {None}
  BY DEF IInv, TypeOK, RequestOK, NewOK
<1> QED
  BY <1>1, <1>2
  DEF IInv, Steps, RequestOK, AuthOK, SidSteps, LockSteps, TokSteps

\* A part of the invariant survives a step that leaves its variables alone.
LEMMA Frame ==
    /\ UNCHANGED <<db, issued>> /\ DbOK => DbOK'
    /\ UNCHANGED <<store, ids>> /\ RecordsFaithful => RecordsFaithful'
    /\ UNCHANGED <<handed, row, issued>> /\ HandedHasRow => HandedHasRow'
<1>1. UNCHANGED <<db, issued>> /\ DbOK => DbOK'
  BY DEF db, DbOK
<1>2. UNCHANGED <<store, ids>> /\ RecordsFaithful => RecordsFaithful'
  BY DEF ids, RecordsFaithful, Faithful
<1>3. UNCHANGED <<handed, row, issued>> /\ HandedHasRow => HandedHasRow'
  BY DEF HandedHasRow
<1> QED BY <1>1, <1>2, <1>3

\* An UPDATE gives a committed row a version the life cycle allows, and takes
\* no lock another transaction holds.
LEMMA WriteKeeps ==
    ASSUME TypeOK, DbOK, NEW r \in Req, NEW s \in Sid, NEW status \in Status,
           row[s] # "absent" => Lifecycle!May(row[s], status),
           Write(r, s, status), UNCHANGED <<row, issued>>
    PROVE  /\ draft' \in [Sid -> Status] /\ lock' \in [Sid -> Req \cup {None}]
           /\ DbOK'
           /\ LocksKept(r)
           /\ row[s] # "absent" => lock'[s] = r
BY NoneAssumption DEF TypeOK, DbOK, Write, Free, LocksKept

\* So does an UPDATE of active rows: it finds "active" only where the
\* committed version is active, or not yet committed and then unseen.
LEMMA WriteIfActiveKeeps ==
    ASSUME TypeOK, DbOK, NEW r \in Req, NEW s \in Sid,
           NEW status \in {"expired", "terminated"},
           WriteIfActive(r, s, status), UNCHANGED <<row, issued>>
    PROVE  /\ draft' \in [Sid -> Status] /\ lock' \in [Sid -> Req \cup {None}]
           /\ DbOK'
           /\ LocksKept(r)
<1>1. CASE row[s] # "absent" /\ draft[s] = "active"
  <2>1. Write(r, s, status) /\ Lifecycle!May(row[s], status)
    BY <1>1 DEF WriteIfActive, DbOK, Lifecycle!May
  <2> QED BY <2>1, WriteKeeps DEF Status
<1>2. CASE ~(row[s] # "absent" /\ draft[s] = "active")
  <2>1. UNCHANGED <<db, issued>>
    BY <1>2 DEF WriteIfActive, db
  <2> QED BY <2>1, Frame DEF db, TypeOK, LocksKept
<1> QED BY <1>1, <1>2

\* The end of a transaction makes its versions the rows' only ones, or drops
\* them, and releases its locks.
LEMMA CommitKeeps ==
    ASSUME TypeOK, DbOK, NEW r \in Req, Commit(r) \/ Rollback(r),
           UNCHANGED issued
    PROVE  /\ row' \in [Sid -> Status] /\ draft' \in [Sid -> Status]
           /\ lock' \in [Sid -> Req \cup {None}]
           /\ DbOK'
           /\ LocksKept(r)
           /\ \A s \in Sid : row[s] # "absent" => row'[s] # "absent"
BY NoneAssumption
DEF TypeOK, DbOK, Commit, Rollback, Release, LocksKept, Lifecycle!May

-----------------------------------------------------------------------------
(* The steps of a login *)

\* A login draws a token and a row, saves the record and indexes it.
LEMMA LoginSteps ==
    ASSUME IInv, NEW r \in Req,
           Login(r) \/ SaveKey(r) \/ SaveIndex(r)
    PROVE  Stepped(r)
<1> USE NoneAssumption
<1>0. TypeOK /\ DbOK /\ RecordsFaithful /\ HandedHasRow /\ RequestOK(r)
  BY DEF IInv
<1>1. CASE Login(r)
  <2>1. TypeOK'
    <3>1. \A s \in Sid : NewRecord(s, now) \in Record
      BY <1>0, TimesAssumption DEF TypeOK, NewRecord, Record
    <3>2. /\ born' \in [Sid -> Nat] /\ issued' \in [Token -> Sid \cup {None}]
          /\ draft' \in [Sid -> Status] /\ lock' \in [Sid -> Req \cup {None}]
      BY <1>0, <1>1 DEF TypeOK, Status, Login, Fresh
    <3>3. /\ new' \in [Req -> Token \cup {None}]
          /\ buf' \in [Req -> Record \cup {None}]
      BY <1>0, <1>1, <3>1 DEF TypeOK, Login, Fresh
    <3>4. pc' \in [Req -> Steps]
      BY <1>0, <1>1 DEF TypeOK, Steps, Login, Goto
    <3> QED
      BY <1>0, <1>1, <3>2, <3>3, <3>4 DEF TypeOK, Login, redis
  <2>2. Grows(r)
    BY <1>0, <1>1 DEF Login, Fresh, Goto, Grows, LocksKept, DbOK
  <2>3. DbOK'
    BY <1>0, <1>1 DEF TypeOK, Login, Fresh, DbOK, Lifecycle!May
  <2>4. RecordsFaithful'
    BY <1>0, <1>1
    DEF TypeOK, Record, Login, Fresh, redis, local, RecordsFaithful, Faithful,
      RequestOK, BufOK
  <2>5. HandedHasRow'
    BY <1>0, <1>1, <2>2 DEF Login, Fresh, HandedHasRow, RequestOK, NewOK, Grows
  <2>6. RequestOK(r)'
    <3>1. CookieOK(r)' /\ AuthOK(r)'
      BY <1>0, <1>1
      DEF TypeOK, Login, Goto, RequestOK, CookieOK, AuthOK, TokSteps, SidSteps,
        LockSteps
    <3>2. NewOK(r)'
      BY <1>0, <1>1 DEF TypeOK, Login, Fresh, Goto, RequestOK, CookieOK, NewOK
    <3>3. BufOK(r)'
      <4>1. PICK s \in Sid, t \in Token :
                /\ new'[r] = t /\ issued'[t] = s /\ born'[s] = now
                /\ buf'[r] = NewRecord(s, now) /\ pc'[r] = "saveKey"
        BY <1>0, <1>1 DEF TypeOK, Login, Fresh, Goto
      <4>2. NewRecord(s, now) \in Record
        BY <1>0, TimesAssumption DEF TypeOK, NewRecord, Record
      <4> QED BY <4>1, <4>2 DEF BufOK, Faithful, NewRecord
    <3> QED BY <3>1, <3>2, <3>3 DEF RequestOK
  <2> QED
    BY <2>1, <2>2, <2>3, <2>4, <2>5, <2>6, Frame DEF Stepped
<1>2. CASE SaveKey(r)
  <2>1. TypeOK'
    BY <1>0, <1>2, Cookie, TimesAssumption
    DEF TypeOK, Steps, SaveKey, Put, Goto, db, ids, local, TokSteps, NewSteps
  <2>2. Grows(r)
    BY <1>0, <1>2 DEF TypeOK, SaveKey, Goto, db, ids, Grows, LocksKept
  <2>3. RecordsFaithful'
    BY <1>0, <1>2
    DEF SaveKey, Put, ids, RecordsFaithful, Faithful, RequestOK, BufOK
  <2>4. RequestOK(r)'
    BY <1>0, <1>2
    DEF TypeOK, SaveKey, Goto, db, ids, local, RequestOK, CookieOK, AuthOK,
      NewOK, BufOK, TokSteps, NewSteps, SidSteps, LockSteps, HandedHasRow,
      RecordsFaithful, Faithful
  <2> QED
    BY <1>0, <1>2, <2>1, <2>2, <2>3, <2>4, Frame DEF SaveKey, db, ids, Stepped
<1>3. CASE SaveIndex(r)
  <2>1. TypeOK'
    BY <1>0, <1>3, Cookie, TimesAssumption
    DEF TypeOK, Steps, SaveIndex, Goto, db, ids, local, TokSteps, NewSteps
  <2>2. Grows(r)
    BY <1>0, <1>3 DEF TypeOK, SaveIndex, Goto, db, ids, local, Grows, LocksKept
  <2>3. RequestOK(r)'
    BY <1>0, <1>3
    DEF TypeOK, SaveIndex, Goto, db, ids, local, RequestOK, CookieOK, AuthOK,
      NewOK, BufOK, TokSteps, NewSteps, SidSteps, LockSteps, HandedHasRow,
      RecordsFaithful, Faithful
  <2> QED
    BY <1>0, <1>3, <2>1, <2>2, <2>3, Frame DEF SaveIndex, db, ids, Stepped
<1> QED BY <1>1, <1>2, <1>3

-----------------------------------------------------------------------------
(* The steps that change neither Redis nor the table nor a cookie *)

\* Steps that read, decide, or enter a handler.
LEMMA ReadSteps ==
    ASSUME IInv, NEW r \in Req,
           Send(r) \/ Validate(r) \/ Refuse(r) \/ TouchGet(r) \/ Admit(r)
           \/ RevokeOthers(r) \/ LogoutAll(r) \/ ScanActive(r)
           \/ RowsEnded(r) \/ LogoutGet(r)
    PROVE  Stepped(r)
<1> USE NoneAssumption
<1>0. TypeOK /\ DbOK /\ RecordsFaithful /\ HandedHasRow /\ RequestOK(r)
  BY DEF IInv
<1>1. CASE Send(r)
  <2>1. TypeOK'
    BY <1>0, <1>1, Cookie, TimesAssumption
    DEF TypeOK, Steps, Record, Send, Goto, redis, db, ids, local, TokSteps,
      NewSteps
  <2>2. Grows(r)
    BY <1>0, <1>1 DEF TypeOK, Send, Goto, db, ids, Grows, LocksKept
  <2>3. RequestOK(r)'
    BY <1>0, <1>1
    DEF TypeOK, Send, Goto, RequestOK, CookieOK, AuthOK, NewOK, BufOK,
      TokSteps, NewSteps, SidSteps, LockSteps, HandedHasRow, RecordsFaithful,
      Faithful
  <2> QED
    BY <1>0, <1>1, <2>1, <2>2, <2>3, Frame DEF Send, redis, db, ids, Stepped
<1>2. CASE Validate(r)
  <2>1. TypeOK'
    BY <1>0, <1>2, Cookie, TimesAssumption
    DEF TypeOK, Steps, Record, Validate, Goto, redis, db, ids, local, TokSteps,
      NewSteps
  <2>2. Grows(r)
    BY <1>0, <1>2 DEF TypeOK, Validate, Goto, db, ids, Grows, LocksKept
  <2>3. RequestOK(r)'
    BY <1>0, <1>2
    DEF TypeOK, Validate, Goto, db, ids, RequestOK, CookieOK, AuthOK, NewOK,
      BufOK, TokSteps, NewSteps, SidSteps, LockSteps, HandedHasRow,
      RecordsFaithful, Faithful
  <2> QED
    BY <1>0, <1>2, <2>1, <2>2, <2>3, Frame
    DEF Validate, redis, db, ids, Stepped
<1>3. CASE Refuse(r)
  <2>1. TypeOK'
    BY <1>0, <1>3, Cookie, TimesAssumption
    DEF TypeOK, Steps, Refuse, Forget, Goto, redis, db, ids, local, TokSteps,
      NewSteps
  <2>2. Grows(r)
    BY <1>0, <1>3 DEF Refuse, Forget, Goto, db, ids, Grows, LocksKept
  <2>3. RequestOK(r)'
    BY <1>0, <1>3
    DEF TypeOK, Refuse, Forget, Goto, local, RequestOK, CookieOK, AuthOK,
      NewOK, BufOK, TokSteps, NewSteps, SidSteps, LockSteps, HandedHasRow,
      RecordsFaithful, Faithful
  <2> QED
    BY <1>0, <1>3, <2>1, <2>2, <2>3, Frame DEF Refuse, redis, db, ids, Stepped
<1>4. CASE TouchGet(r)
  <2>1. TypeOK'
    <3>1. PICK t \in {tok[r], new[r]} :
              /\ t \in Token
              /\ \/ buf' = buf
                 \/ store[t] # None /\
                    buf' = [buf EXCEPT ![r] = [store[t] EXCEPT !.used = now]]
      BY <1>0, <1>4, Cookie DEF TouchGet, TokSteps, NewSteps, TypeOK
    <3>2. buf' \in [Req -> Record \cup {None}]
      BY <1>0, <3>1 DEF TypeOK, Record
    <3> QED
      BY <1>0, <1>4, <3>2 DEF TypeOK, Steps, TouchGet, Goto, redis, db, ids
  <2>2. Grows(r)
    BY <1>0, <1>4 DEF TypeOK, TouchGet, Goto, db, ids, Grows, LocksKept
  <2>3. RequestOK(r)'
    BY <1>0, <1>4
    DEF TypeOK, Record, TouchGet, Goto, db, ids, RequestOK, CookieOK, AuthOK,
      NewOK, BufOK, TokSteps, NewSteps, SidSteps, LockSteps, HandedHasRow,
      RecordsFaithful, Faithful
  <2> QED
    BY <1>0, <1>4, <2>1, <2>2, <2>3, Frame
    DEF TouchGet, redis, db, ids, Stepped
<1>5. CASE Admit(r)
  <2>1. TypeOK'
    BY <1>0, <1>5, Cookie, TimesAssumption
    DEF TypeOK, Steps, Admit, Goto, redis, db, ids, local, TokSteps, NewSteps
  <2>2. Grows(r)
    BY <1>0, <1>5 DEF Admit, Goto, db, ids, Grows, LocksKept
  <2>3. RequestOK(r)'
    BY <1>0, <1>5
    DEF Steps, Admit, Goto, db, ids, RequestOK, CookieOK, AuthOK, NewOK, BufOK,
      TokSteps, NewSteps, SidSteps, LockSteps, HandedHasRow, RecordsFaithful,
      Faithful
  <2> QED
    BY <1>0, <1>5, <2>1, <2>2, <2>3, Frame DEF Admit, redis, db, ids, Stepped
<1>6. CASE RevokeOthers(r)
  <2>1. TypeOK'
    BY <1>0, <1>6, Cookie, TimesAssumption
    DEF TypeOK, Steps, RevokeOthers, Goto, redis, db, ids, local, TokSteps,
      NewSteps
  <2>2. Grows(r)
    BY <1>0, <1>6 DEF RevokeOthers, Goto, db, ids, Grows, LocksKept
  <2>3. RequestOK(r)'
    BY <1>0, <1>6
    DEF Steps, RevokeOthers, Goto, db, ids, RequestOK, CookieOK, AuthOK, NewOK,
      BufOK, TokSteps, NewSteps, SidSteps, LockSteps, HandedHasRow,
      RecordsFaithful, Faithful
  <2> QED
    BY <1>0, <1>6, <2>1, <2>2, <2>3, Frame
    DEF RevokeOthers, redis, db, ids, Stepped
<1>7. CASE LogoutAll(r)
  <2>1. TypeOK'
    BY <1>0, <1>7, Cookie, TimesAssumption
    DEF TypeOK, Steps, LogoutAll, Goto, redis, db, ids, local, TokSteps,
      NewSteps
  <2>2. Grows(r)
    BY <1>0, <1>7 DEF LogoutAll, Goto, db, ids, Grows, LocksKept
  <2>3. RequestOK(r)'
    BY <1>0, <1>7
    DEF Steps, LogoutAll, Goto, db, ids, RequestOK, CookieOK, AuthOK, NewOK,
      BufOK, TokSteps, NewSteps, SidSteps, LockSteps, HandedHasRow,
      RecordsFaithful, Faithful
  <2> QED
    BY <1>0, <1>7, <2>1, <2>2, <2>3, Frame
    DEF LogoutAll, redis, db, ids, Stepped
<1>8. CASE ScanActive(r)
  <2>1. TypeOK'
    BY <1>0, <1>8, Cookie, TimesAssumption
    DEF TypeOK, Steps, ScanActive, Goto, redis, db, ids, local, TokSteps,
      NewSteps
  <2>2. Grows(r)
    BY <1>0, <1>8 DEF ScanActive, Goto, db, ids, Grows, LocksKept
  <2>3. RequestOK(r)'
    BY <1>0, <1>8
    DEF Steps, ScanActive, Goto, db, ids, RequestOK, CookieOK, AuthOK, NewOK,
      BufOK, TokSteps, NewSteps, SidSteps, LockSteps, HandedHasRow,
      RecordsFaithful, Faithful
  <2> QED
    BY <1>0, <1>8, <2>1, <2>2, <2>3, Frame
    DEF ScanActive, redis, db, ids, Stepped
<1>9. CASE RowsEnded(r)
  <2>1. TypeOK'
    BY <1>0, <1>9, Cookie, TimesAssumption
    DEF TypeOK, Steps, RowsEnded, Goto, redis, db, ids, local, TokSteps,
      NewSteps
  <2>2. Grows(r)
    BY <1>0, <1>9 DEF RowsEnded, Goto, db, ids, local, Grows, LocksKept
  <2>3. RequestOK(r)'
    BY <1>0, <1>9
    DEF RowsEnded, Goto, db, ids, local, RequestOK, CookieOK, AuthOK, NewOK,
      BufOK, TokSteps, NewSteps, SidSteps, LockSteps, HandedHasRow,
      RecordsFaithful, Faithful
  <2> QED
    BY <1>0, <1>9, <2>1, <2>2, <2>3, Frame
    DEF RowsEnded, redis, db, ids, Stepped
<1>10. CASE LogoutGet(r)
  <2>1. TypeOK'
    BY <1>0, <1>10, Cookie, TimesAssumption
    DEF TypeOK, Steps, Record, Status, LogoutGet, Goto, redis, db, ids, local,
      TokSteps, NewSteps
  <2>2. Grows(r)
    BY <1>0, <1>10 DEF TypeOK, LogoutGet, Goto, db, ids, Grows, LocksKept
  <2>3. RequestOK(r)'
    BY <1>0, <1>10
    DEF TypeOK, LogoutGet, Goto, db, ids, RequestOK, CookieOK, AuthOK, NewOK,
      BufOK, TokSteps, NewSteps, SidSteps, LockSteps, HandedHasRow,
      RecordsFaithful, Faithful
  <2> QED
    BY <1>0, <1>10, <2>1, <2>2, <2>3, Frame
    DEF LogoutGet, redis, db, ids, Stepped
<1> QED BY <1>1, <1>2, <1>3, <1>4, <1>5, <1>6, <1>7, <1>8, <1>9, <1>10

-----------------------------------------------------------------------------
(* The steps that change Redis *)

\* Writes of SessionStore: only a rotation's also draws a token.
LEMMA RedisSteps ==
    ASSUME IInv, NEW r \in Req,
           DropFromIndex(r) \/ DeleteKey(r) \/ TouchSet(r) \/ Rotate(r)
           \/ WipeKey(r) \/ WipeIndex(r)
    PROVE  Stepped(r)
<1> USE NoneAssumption
<1>0. TypeOK /\ DbOK /\ RecordsFaithful /\ HandedHasRow /\ RequestOK(r)
  BY DEF IInv
<1>1. CASE DropFromIndex(r)
  <2>1. TypeOK'
    BY <1>0, <1>1, Cookie, TimesAssumption
    DEF TypeOK, Steps, DropFromIndex, Goto, db, ids, local, TokSteps, NewSteps
  <2>2. Grows(r)
    BY <1>0, <1>1
    DEF TypeOK, DropFromIndex, Goto, db, ids, local, Grows, LocksKept
  <2>3. RequestOK(r)'
    BY <1>0, <1>1
    DEF TypeOK, DropFromIndex, Goto, db, ids, local, RequestOK, CookieOK,
      AuthOK, NewOK, BufOK, TokSteps, NewSteps, SidSteps, LockSteps,
      HandedHasRow, RecordsFaithful, Faithful
  <2> QED
    BY <1>0, <1>1, <2>1, <2>2, <2>3, Frame DEF DropFromIndex, db, ids, Stepped
<1>2. CASE DeleteKey(r)
  <2>1. TypeOK'
    BY <1>0, <1>2, Cookie, TimesAssumption
    DEF TypeOK, Steps, DeleteKey, Put, Goto, db, ids, local, TokSteps, NewSteps
  <2>2. Grows(r)
    BY <1>0, <1>2 DEF TypeOK, DeleteKey, Goto, db, ids, local, Grows, LocksKept
  <2>3. RecordsFaithful'
    BY <1>0, <1>2
    DEF DeleteKey, Put, ids, RecordsFaithful, Faithful, RequestOK, BufOK
  <2>4. RequestOK(r)'
    BY <1>0, <1>2
    DEF TypeOK, DeleteKey, Goto, db, ids, local, RequestOK, CookieOK, AuthOK,
      NewOK, BufOK, TokSteps, NewSteps, SidSteps, LockSteps, HandedHasRow,
      RecordsFaithful, Faithful
  <2> QED
    BY <1>0, <1>2, <2>1, <2>2, <2>3, <2>4, Frame
    DEF DeleteKey, db, ids, Stepped
<1>3. CASE TouchSet(r)
  <2>1. TypeOK'
    <3>1. buf[r] \in Record \cup {None} /\ tok[r] \in Token \cup {None}
      BY <1>0 DEF TypeOK
    <3>2. store' \in [Token -> Record \cup {None}]
      BY <1>0, <1>3, <3>1 DEF TypeOK, TouchSet, Put
    <3>3. /\ pc' \in [Req -> Steps]
          /\ buf' \in [Req -> Record \cup {None}]
      BY <1>0, <1>3 DEF TypeOK, Steps, TouchSet, Goto
    <3> QED BY <1>0, <1>3, <3>2, <3>3 DEF TypeOK, TouchSet, db, ids
  <2>2. Grows(r)
    BY <1>0, <1>3 DEF TypeOK, TouchSet, Goto, db, ids, Grows, LocksKept
  <2>3. RecordsFaithful'
    BY <1>0, <1>3
    DEF TypeOK, TouchSet, Put, ids, RecordsFaithful, Faithful, RequestOK, BufOK
  <2>4. RequestOK(r)'
    <3>1. CookieOK(r)' /\ NewOK(r)'
      BY <1>0, <1>3
      DEF TypeOK, TouchSet, Goto, db, ids, RequestOK, CookieOK, NewOK, TokSteps,
        NewSteps
    <3>2. AuthOK(r)' /\ BufOK(r)'
      BY <1>0, <1>3
      DEF TypeOK, TouchSet, Goto, db, ids, RequestOK, AuthOK, BufOK, SidSteps,
        LockSteps
    <3> QED BY <3>1, <3>2 DEF RequestOK
  <2> QED
    BY <1>0, <1>3, <2>1, <2>2, <2>3, <2>4, Frame DEF TouchSet, db, ids, Stepped
<1>4. CASE Rotate(r)
  <2>1. TypeOK'
    <3>1. store[tok[r]] \in Record \cup {None}
      BY <1>0, <1>4, Cookie DEF Rotate, TokSteps, TypeOK
    <3>2. /\ buf' \in [Req -> Record \cup {None}]
          /\ issued' \in [Token -> Sid \cup {None}]
          /\ new' \in [Req -> Token \cup {None}]
      <4>1. CASE store[tok[r]] = None
        BY <1>0, <1>4, <4>1 DEF Rotate, TypeOK
      <4>2. CASE store[tok[r]] # None
        <5>1. PICK t \in Token :
                  /\ new' = [new EXCEPT ![r] = t]
                  /\ issued' = [issued EXCEPT ![t] = store[tok[r]].sid]
                  /\ buf' = [buf EXCEPT ![r] = store[tok[r]]]
          BY <1>4, <4>2 DEF Rotate, Fresh
        <5>2. store[tok[r]].sid \in Sid
          BY <3>1, <4>2 DEF Record
        <5> QED BY <1>0, <3>1, <5>1, <5>2 DEF TypeOK
      <4> QED BY <4>1, <4>2
    <3>3. pc' \in [Req -> Steps] /\ used' \in [Req -> Nat]
      BY <1>0, <1>4 DEF TypeOK, Steps, Rotate, Goto
    <3> QED BY <1>0, <1>4, <3>2, <3>3 DEF TypeOK, Rotate, redis, db
  <2>2. Grows(r)
    BY <1>0, <1>4 DEF TypeOK, Rotate, Fresh, Goto, db, Grows, LocksKept
  <2>3. DbOK'
    BY <1>0, <1>4 DEF TypeOK, Rotate, Fresh, db, DbOK, Lifecycle!May
  <2>4. RecordsFaithful'
    BY <1>0, <1>4
    DEF TypeOK, Record, Rotate, Fresh, redis, RecordsFaithful, Faithful,
      RequestOK, BufOK
  <2>5. HandedHasRow'
    BY <1>0, <1>4, <2>2
    DEF TypeOK, Rotate, HandedHasRow, RequestOK, NewOK, Grows
  <2>6. RequestOK(r)'
    BY <1>0, <1>4
    DEF TypeOK, Rotate, Fresh, Goto, db, local, RequestOK, CookieOK, AuthOK,
      NewOK, BufOK, TokSteps, NewSteps, SidSteps, LockSteps, HandedHasRow,
      RecordsFaithful, Faithful
  <2> QED
    BY <2>1, <2>2, <2>3, <2>4, <2>5, <2>6, Frame DEF Stepped
<1>5. CASE WipeKey(r)
  <2>1. TypeOK'
    BY <1>0, <1>5, Cookie, TimesAssumption
    DEF TypeOK, WipeKey, Put, db, ids, local, TokSteps, NewSteps
  <2>2. Grows(r)
    BY <1>0, <1>5 DEF WipeKey, db, ids, Grows, LocksKept
  <2>3. RecordsFaithful'
    BY <1>0, <1>5
    DEF WipeKey, Put, ids, RecordsFaithful, Faithful, RequestOK, BufOK
  <2>4. RequestOK(r)'
    BY <1>0, <1>5
    DEF WipeKey, db, ids, local, RequestOK, CookieOK, AuthOK, NewOK, BufOK,
      TokSteps, NewSteps, SidSteps, LockSteps, HandedHasRow, RecordsFaithful,
      Faithful
  <2> QED
    BY <1>0, <1>5, <2>1, <2>2, <2>3, <2>4, Frame DEF WipeKey, db, ids, Stepped
<1>6. CASE WipeIndex(r)
  <2>1. TypeOK'
    BY <1>0, <1>6, Cookie, TimesAssumption
    DEF TypeOK, Steps, WipeIndex, Goto, db, ids, local, TokSteps, NewSteps
  <2>2. Grows(r)
    BY <1>0, <1>6 DEF WipeIndex, Goto, db, ids, local, Grows, LocksKept
  <2>3. RequestOK(r)'
    BY <1>0, <1>6
    DEF Steps, WipeIndex, Goto, db, ids, local, RequestOK, CookieOK, AuthOK,
      NewOK, BufOK, TokSteps, NewSteps, SidSteps, LockSteps, HandedHasRow,
      RecordsFaithful, Faithful
  <2> QED
    BY <1>0, <1>6, <2>1, <2>2, <2>3, Frame DEF WipeIndex, db, ids, Stepped
<1> QED BY <1>1, <1>2, <1>3, <1>4, <1>5, <1>6

-----------------------------------------------------------------------------
(* The UPDATE statements *)

\* UPDATEs of the sessions table: each takes the row's lock.
LEMMA RowSteps ==
    ASSUME IInv, NEW r \in Req,
           ExpireRow(r) \/ TouchRow(r) \/ RevokeOne(r) \/ EndRow(r)
           \/ LogoutRow(r)
    PROVE  Stepped(r)
<1> USE NoneAssumption
<1>0. TypeOK /\ DbOK /\ RecordsFaithful /\ HandedHasRow /\ RequestOK(r)
  BY DEF IInv
<1>1. CASE ExpireRow(r)
  <2>1. /\ draft' \in [Sid -> Status] /\ lock' \in [Sid -> Req \cup {None}]
        /\ DbOK' /\ LocksKept(r)
    BY <1>0, <1>1, Cookie, WriteIfActiveKeeps DEF ExpireRow, ids, SidSteps
  <2>2. TypeOK'
    BY <1>0, <1>1, <2>1, Cookie, TimesAssumption
    DEF TypeOK, Steps, ExpireRow, Goto, redis, ids, local, TokSteps, NewSteps
  <2>3. Grows(r)
    BY <1>1, <2>1 DEF ExpireRow, Goto, ids, local, Grows
  <2>4. RequestOK(r)'
    BY <1>0, <1>1, <2>1
    DEF Steps, ExpireRow, Goto, ids, local, RequestOK, CookieOK, AuthOK, NewOK,
      BufOK, TokSteps, NewSteps, SidSteps, LockSteps, HandedHasRow,
      RecordsFaithful, Faithful
  <2> QED
    BY <1>0, <1>1, <2>1, <2>2, <2>3, <2>4, Frame
    DEF ExpireRow, redis, ids, Stepped
<1>2. CASE TouchRow(r)
  <2>1. /\ draft' \in [Sid -> Status] /\ lock' \in [Sid -> Req \cup {None}]
        /\ DbOK' /\ LocksKept(r) /\ lock'[sid[r]] = r
    <3>1. /\ sid[r] \in Sid /\ row[sid[r]] # "absent"
          /\ pc'[r] = "admitted"
      BY <1>0, <1>2, Cookie
      DEF TouchRow, Goto, TypeOK, TokSteps, SidSteps, RequestOK, AuthOK
    <3>2. draft[sid[r]] \in Status /\ Lifecycle!May(row[sid[r]], draft[sid[r]])
      BY <1>0, <3>1 DEF TypeOK, DbOK
    <3> QED BY <1>0, <1>2, <3>1, <3>2, WriteKeeps DEF TouchRow, ids
  <2>2. TypeOK'
    BY <1>0, <1>2, <2>1 DEF TypeOK, Steps, TouchRow, Goto, redis, ids, local
  <2>3. Grows(r)
    BY <1>2, <2>1 DEF TouchRow, Goto, ids, local, Grows
  <2>4. RequestOK(r)'
    BY <1>0, <1>2, <2>1
    DEF Steps, TouchRow, Goto, ids, local, RequestOK, CookieOK, AuthOK, NewOK,
      BufOK, TokSteps, NewSteps, SidSteps, LockSteps, HandedHasRow,
      RecordsFaithful, Faithful
  <2> QED
    BY <1>0, <1>2, <2>1, <2>2, <2>3, <2>4, Frame
    DEF TouchRow, redis, ids, Stepped
<1>3. CASE RevokeOne(r)
  <2>1. /\ draft' \in [Sid -> Status] /\ lock' \in [Sid -> Req \cup {None}]
        /\ DbOK' /\ LocksKept(r)
    <3>1. PICK s \in Sid : Write(r, s, "revoked")
      BY <1>3 DEF RevokeOne
    <3>2. UNCHANGED <<row, issued>>
      BY <1>3 DEF RevokeOne, ids
    <3> QED
      BY <1>0, <3>1, <3>2, WriteKeeps DEF Lifecycle!May, Status
  <2>2. TypeOK'
    BY <1>0, <1>3, <2>1, Cookie, TimesAssumption
    DEF TypeOK, Steps, RevokeOne, Goto, redis, ids, local, TokSteps, NewSteps
  <2>3. Grows(r)
    BY <1>3, <2>1 DEF RevokeOne, Goto, ids, local, Grows
  <2>4. RequestOK(r)'
    BY <1>0, <1>3, <2>1
    DEF Steps, RevokeOne, Goto, ids, local, RequestOK, CookieOK, AuthOK, NewOK,
      BufOK, TokSteps, NewSteps, SidSteps, LockSteps, HandedHasRow,
      RecordsFaithful, Faithful
  <2> QED
    BY <1>0, <1>3, <2>1, <2>2, <2>3, <2>4, Frame
    DEF RevokeOne, redis, ids, Stepped
<1>4. CASE EndRow(r)
  <2>1. /\ draft' \in [Sid -> Status] /\ lock' \in [Sid -> Req \cup {None}]
        /\ DbOK' /\ LocksKept(r)
    <3>1. PICK s \in Sid :
              \/ WriteIfActive(r, s, "terminated")
              \/ Write(r, s, "revoked")
      BY <1>0, <1>4 DEF EndRow, TypeOK
    <3>2. UNCHANGED <<row, issued>>
      BY <1>4 DEF EndRow, ids
    <3> QED
      BY <1>0, <3>1, <3>2, WriteKeeps, WriteIfActiveKeeps
      DEF Lifecycle!May, Status
  <2>2. TypeOK'
    BY <1>0, <1>4, <2>1, Cookie, TimesAssumption
    DEF TypeOK, EndRow, redis, ids, local, TokSteps, NewSteps
  <2>3. Grows(r)
    BY <1>4, <2>1 DEF EndRow, ids, Grows
  <2>4. RequestOK(r)'
    BY <1>0, <1>4, <2>1
    DEF Steps, EndRow, ids, RequestOK, CookieOK, AuthOK, NewOK, BufOK,
      TokSteps, NewSteps, SidSteps, LockSteps, HandedHasRow, RecordsFaithful,
      Faithful
  <2> QED
    BY <1>0, <1>4, <2>1, <2>2, <2>3, <2>4, Frame
    DEF EndRow, redis, ids, Stepped
<1>5. CASE LogoutRow(r)
  <2>1. /\ draft' \in [Sid -> Status] /\ lock' \in [Sid -> Req \cup {None}]
        /\ DbOK' /\ LocksKept(r)
    BY <1>0, <1>5, Cookie, WriteKeeps
    DEF LogoutRow, ids, SidSteps, Lifecycle!May, Status
  <2>2. TypeOK'
    BY <1>0, <1>5, <2>1, Cookie, TimesAssumption
    DEF TypeOK, Steps, LogoutRow, Goto, redis, ids, local, TokSteps, NewSteps
  <2>3. Grows(r)
    BY <1>5, <2>1 DEF LogoutRow, Goto, ids, local, Grows
  <2>4. RequestOK(r)'
    BY <1>0, <1>5, <2>1
    DEF Steps, LogoutRow, Goto, ids, local, RequestOK, CookieOK, AuthOK, NewOK,
      BufOK, TokSteps, NewSteps, SidSteps, LockSteps, HandedHasRow,
      RecordsFaithful, Faithful
  <2> QED
    BY <1>0, <1>5, <2>1, <2>2, <2>3, <2>4, Frame
    DEF LogoutRow, redis, ids, Stepped
<1> QED BY <1>1, <1>2, <1>3, <1>4, <1>5

-----------------------------------------------------------------------------
(* The steps that end a transaction or a request *)

\* A commit, a rollback, a response or a failure.
LEMMA EndSteps ==
    ASSUME IInv, NEW r \in Req,
           AdmitPlain(r) \/ Serve(r) \/ CommitStep(r) \/ Reply(r) \/ Fail(r)
    PROVE  Stepped(r)
<1> USE NoneAssumption
<1>0. TypeOK /\ DbOK /\ RecordsFaithful /\ HandedHasRow /\ RequestOK(r)
  BY DEF IInv
<1>1. CASE AdmitPlain(r)
  <2>1. /\ row' \in [Sid -> Status] /\ draft' \in [Sid -> Status]
        /\ lock' \in [Sid -> Req \cup {None}]
        /\ DbOK' /\ LocksKept(r)
        /\ \A s \in Sid : row[s] # "absent" => row'[s] # "absent"
    BY <1>0, <1>1, CommitKeeps, Frame
    DEF AdmitPlain, ids, db, TypeOK, LocksKept
  <2>2. TypeOK'
    BY <1>0, <1>1, <2>1, Cookie, TimesAssumption
    DEF TypeOK, Steps, AdmitPlain, Goto, redis, ids, local, TokSteps, NewSteps
  <2>3. Grows(r)
    BY <1>0, <1>1, <2>1 DEF TypeOK, AdmitPlain, Goto, ids, Grows
  <2>4. RequestOK(r)'
    BY <1>0, <1>1, <2>1
    DEF TypeOK, AdmitPlain, Goto, ids, RequestOK, CookieOK, AuthOK, NewOK,
      BufOK, TokSteps, NewSteps, SidSteps, LockSteps, HandedHasRow,
      RecordsFaithful, Faithful
  <2> QED
    BY <1>0, <1>1, <2>1, <2>2, <2>3, <2>4, Frame
    DEF AdmitPlain, redis, db, ids, Stepped, Rollback
<1>2. CASE Serve(r)
  <2>1. /\ row' \in [Sid -> Status] /\ draft' \in [Sid -> Status]
        /\ lock' \in [Sid -> Req \cup {None}]
        /\ DbOK' /\ LocksKept(r)
        /\ \A s \in Sid : row[s] # "absent" => row'[s] # "absent"
    BY <1>0, <1>2, CommitKeeps, Frame DEF Serve, ids, db, TypeOK, LocksKept
  <2>2. TypeOK'
    BY <1>0, <1>2, <2>1, Cookie, TimesAssumption
    DEF TypeOK, Steps, Serve, Goto, redis, ids, local, TokSteps, NewSteps
  <2>3. Grows(r)
    BY <1>0, <1>2, <2>1 DEF TypeOK, Serve, Goto, ids, local, Grows
  <2>4. RequestOK(r)'
    BY <1>0, <1>2, <2>1
    DEF TypeOK, Serve, Goto, ids, local, RequestOK, CookieOK, AuthOK, NewOK,
      BufOK, TokSteps, NewSteps, SidSteps, LockSteps, HandedHasRow,
      RecordsFaithful, Faithful
  <2> QED
    BY <1>0, <1>2, <2>1, <2>2, <2>3, <2>4, Frame
    DEF Serve, redis, db, ids, Stepped, Rollback
<1>3. CASE CommitStep(r)
  <2>1. /\ row' \in [Sid -> Status] /\ draft' \in [Sid -> Status]
        /\ lock' \in [Sid -> Req \cup {None}]
        /\ DbOK' /\ LocksKept(r)
        /\ \A s \in Sid : row[s] # "absent" => row'[s] # "absent"
    BY <1>0, <1>3, CommitKeeps DEF CommitStep, ids
  <2>2. TypeOK'
    BY <1>0, <1>3, <2>1, Cookie, TimesAssumption
    DEF TypeOK, Steps, CommitStep, Goto, redis, ids, local, TokSteps, NewSteps
  <2>3. Grows(r)
    BY <1>3, <2>1 DEF CommitStep, Goto, ids, local, Grows
  <2>4. HandedHasRow'
    BY <1>0, <1>3, <2>1, <2>3
    DEF TypeOK, CommitStep, HandedHasRow, NewOK, Grows
  <2>5. RequestOK(r)'
    BY <1>0, <1>3, <2>1
    DEF TypeOK, CommitStep, Goto, ids, local, RequestOK, CookieOK, AuthOK,
      NewOK, BufOK, TokSteps, NewSteps, SidSteps, LockSteps, HandedHasRow,
      RecordsFaithful, Faithful, DbOK, Commit, Release
  <2> QED
    BY <1>0, <1>3, <2>1, <2>2, <2>3, <2>4, <2>5, Frame
    DEF CommitStep, redis, Stepped
<1>4. CASE Reply(r)
  <2>1. TypeOK'
    BY <1>0, <1>4, Cookie, TimesAssumption
    DEF TypeOK, Steps, Reply, Forget, Goto, redis, db, ids, local, TokSteps,
      NewSteps
  <2>2. Grows(r)
    BY <1>0, <1>4 DEF Reply, Forget, Goto, db, ids, Grows, LocksKept
  <2>3. HandedHasRow'
    BY <1>0, <1>4, <2>2
    DEF Reply, db, ids, HandedHasRow, RequestOK, NewOK, Grows
  <2>4. RequestOK(r)'
    BY <1>0, <1>4
    DEF TypeOK, Reply, Forget, Goto, local, RequestOK, CookieOK, AuthOK, NewOK,
      BufOK, TokSteps, NewSteps, SidSteps, LockSteps, HandedHasRow,
      RecordsFaithful, Faithful
  <2> QED
    BY <1>0, <1>4, <2>1, <2>2, <2>3, <2>4, Frame DEF Reply, redis, ids, Stepped
<1>5. CASE Fail(r)
  <2>1. /\ row' \in [Sid -> Status] /\ draft' \in [Sid -> Status]
        /\ lock' \in [Sid -> Req \cup {None}]
        /\ DbOK' /\ LocksKept(r)
        /\ \A s \in Sid : row[s] # "absent" => row'[s] # "absent"
    BY <1>0, <1>5, CommitKeeps DEF Fail, ids
  <2>2. TypeOK'
    <3>1. handed' \subseteq Token
      BY <1>0, <1>5 DEF TypeOK, Fail, Rotated
    <3> QED
      BY <1>0, <1>5, <2>1, <3>1 DEF TypeOK, Steps, Fail, Forget, Goto, redis, ids
  <2>3. Grows(r)
    BY <1>0, <1>5, <2>1 DEF Fail, Forget, Goto, ids, Grows
  <2>4. HandedHasRow'
    BY <1>0, <1>5, <2>1, <2>3
    DEF TypeOK, Fail, Rotated, HandedHasRow, RequestOK, NewOK, Grows
  <2>5. RequestOK(r)'
    BY <1>0, <1>5, <2>1
    DEF TypeOK, Fail, Forget, Goto, ids, local, RequestOK, CookieOK, AuthOK,
      NewOK, BufOK, TokSteps, NewSteps, SidSteps, LockSteps, HandedHasRow,
      RecordsFaithful, Faithful
  <2> QED
    BY <1>0, <1>5, <2>1, <2>2, <2>3, <2>4, <2>5, Frame DEF Fail, redis, Stepped
<1> QED BY <1>1, <1>2, <1>3, <1>4, <1>5
-----------------------------------------------------------------------------
(* The invariant *)

\* The step of one request keeps what is known of another.
LEMMA OthersKept ==
    ASSUME IInv, NEW r \in Req, NEW q \in Req \ {r}, Grows(r), TypeOK'
    PROVE  RequestOK(q)'
<1> USE NoneAssumption
<1>0. RequestOK(q)
  BY DEF IInv
<1>1. CookieOK(q)'
  BY <1>0 DEF Grows, RequestOK, CookieOK
<1>2. ASSUME NEW t \in Token, issued[t] # None
      PROVE  /\ issued'[t] = issued[t] /\ issued[t] \in Sid
             /\ row[issued[t]] # "absent" => row'[issued[t]] # "absent"
             /\ born'[issued[t]] = born[issued[t]]
  BY <1>2 DEF Grows, IInv, TypeOK
<1>3. AuthOK(q)'
  <2>1. pc[q] \in SidSteps => tok[q] \in Token /\ issued[tok[q]] # None
    BY Cookie DEF SidSteps, LockSteps, TokSteps, Steps
  <2>2. pc[q] \in LockSteps => sid[q] \in Sid /\ lock'[sid[q]] = q
    BY <1>0, Cookie DEF RequestOK, AuthOK, LockSteps, SidSteps, Grows, LocksKept
  <2> QED BY <1>0, <1>2, <2>1, <2>2 DEF RequestOK, AuthOK, Grows
<1>4. NewOK(q)'
  <2>1. new[q] # None =>
            /\ new[q] \in Token /\ issued[new[q]] \in Sid
            /\ issued'[new[q]] = issued[new[q]]
    BY <1>0, <1>2 DEF RequestOK, NewOK, IInv, TypeOK
  <2> QED BY <1>0, <1>2, <2>1 DEF RequestOK, NewOK, Grows, LocksKept
<1>5. BufOK(q)'
  <2>1. ASSUME NEW t \in Token, issued[t] # None, NEW record,
               Faithful(t, record)
        PROVE  Faithful(t, record)'
    BY <1>2, <2>1 DEF Faithful
  <2>2. pc[q] \in {"saveKey", "rotateKey", "retouchSet"} =>
            new[q] \in Token /\ issued[new[q]] # None
    BY <1>0, Cookie DEF RequestOK, NewOK, NewSteps
  <2>3. pc[q] = "touchSet" => tok[q] \in Token /\ issued[tok[q]] # None
    BY Cookie DEF TokSteps, Steps
  <2> QED BY <1>0, <2>1, <2>2, <2>3 DEF RequestOK, BufOK, Grows, Faithful
<1> QED BY <1>1, <1>3, <1>4, <1>5 DEF RequestOK

\* Nothing has happened yet.
LEMMA InitOK == Init => IInv
<1> SUFFICES ASSUME Init PROVE IInv
  OBVIOUS
<1> USE NoneAssumption, TimesAssumption
<1>1. TypeOK
  BY DEF Init, TypeOK, Steps, Status
<1>2. DbOK
  BY DEF Init, DbOK, Lifecycle!May
<1>3. RecordsFaithful /\ HandedHasRow
  BY DEF Init, RecordsFaithful, HandedHasRow
<1>4. ASSUME NEW r \in Req PROVE RequestOK(r)
  BY DEF Init, RequestOK, CookieOK, AuthOK, NewOK, BufOK, TokSteps, NewSteps,
    SidSteps, LockSteps
<1> QED BY <1>1, <1>2, <1>3, <1>4 DEF IInv

\* Every step of every request keeps the invariant, and so does time.
LEMMA NextKeeps == IInv /\ [Next]_vars => IInv'
<1> SUFFICES ASSUME IInv, [Next]_vars PROVE IInv'
  OBVIOUS
<1>1. ASSUME NEW r \in Req, Step(r) PROVE IInv'
  <2>1. Stepped(r)
    BY <1>1, LoginSteps, ReadSteps, RedisSteps, RowSteps, EndSteps DEF Step
  <2>2. \A q \in Req \ {r} : RequestOK(q)'
    BY <2>1, OthersKept DEF Stepped
  <2> QED BY <2>1, <2>2 DEF Stepped, IInv
<1>2. CASE Tick
  <2>1. TypeOK'
    BY <1>2, TimesAssumption DEF Tick, IInv, TypeOK, redis, db, ids, local
  <2>2. DbOK' /\ RecordsFaithful' /\ HandedHasRow'
    BY <1>2, Frame DEF Tick, IInv, redis, db, ids
  <2>3. \A r \in Req : RequestOK(r)'
    BY <1>2 DEF Tick, IInv, redis, db, ids, local, RequestOK, CookieOK,
      AuthOK, NewOK, BufOK, Faithful
  <2> QED BY <2>1, <2>2, <2>3 DEF IInv
<1>3. CASE UNCHANGED vars
  <2>1. TypeOK'
    BY <1>3 DEF vars, IInv, TypeOK, redis, db, ids, local
  <2>2. DbOK' /\ RecordsFaithful' /\ HandedHasRow'
    BY <1>3, Frame DEF vars, IInv, redis, db, ids
  <2>3. \A r \in Req : RequestOK(r)'
    BY <1>3 DEF vars, IInv, redis, db, ids, local, RequestOK, CookieOK,
      AuthOK, NewOK, BufOK, Faithful
  <2> QED BY <2>1, <2>2, <2>3 DEF IInv
<1> QED BY <1>1, <1>2, <1>3 DEF Next

\* IInv is an invariant of the session service.
THEOREM Invariance == Spec => []IInv
BY InitOK, NextKeeps, PTL DEF Spec

-----------------------------------------------------------------------------
(* The theorems *)

\* Every variable of the session service keeps its type.
THEOREM TypesKept == Spec => []TypeOK
<1>1. IInv => TypeOK
  BY DEF IInv
<1> QED BY <1>1, Invariance, PTL

\* No touch, rotation or late write-back of SessionStore changes the session
\* or the expiry instants of the record under a token.
THEOREM RecordsStayFaithful == Spec => []RecordsFaithful
<1>1. IInv => RecordsFaithful
  BY DEF IInv
<1> QED BY <1>1, Invariance, PTL

\* A Set-Cookie carries only tokens of sessions whose row is committed.
THEOREM NoCookieWithoutRow == Spec => []HandedHasRow
<1>1. IInv => HandedHasRow
  BY DEF IInv
<1> QED BY <1>1, Invariance, PTL

\* The row lock of _touch_db_session keeps rotations of one session apart.
THEOREM RotationsExclude == Spec => []RotationExclusive
<1>1. IInv => RotationExclusive
  <2> SUFFICES ASSUME IInv, NEW r \in Req, NEW q \in Req,
                      r # q, Rotating(r), Rotating(q)
               PROVE  sid[r] # sid[q]
    BY DEF RotationExclusive
  <2>1. lock[sid[r]] = r /\ lock[sid[q]] = q
    BY DEF IInv, RequestOK, AuthOK, Rotating, LockSteps
  <2> QED BY <2>1
<1> QED BY <1>1, Invariance, PTL

\* validate admits no token after the idle timeout or the absolute lifetime
\* of the login it goes back to.
THEOREM LifetimeRespected == Spec => AdmittedInLifetime
<1>1. ASSUME IInv, [Next]_vars, NEW r \in Req,
             pc[r] = "validate", pc'[r] = "touchGet"
      PROVE  /\ now <= born[issued[tok[r]]] + IdleTimeout
             /\ now <= born[issued[tok[r]]] + SessionTTL
  <2>1. Validate(r)
    <3>1. PICK q \in Req : Step(q)
      BY <1>1 DEF Next, Tick, vars, local
    <3>2. q = r
      BY <1>1, <3>1, LoginSteps, ReadSteps, RedisSteps, RowSteps, EndSteps
      DEF Step, Stepped, Grows
    <3> QED
      BY <1>1, <3>1, <3>2
      DEF IInv, TypeOK, Step, Login, SaveKey, SaveIndex, Send, Refuse,
        DropFromIndex, DeleteKey, ExpireRow, TouchGet, TouchSet, TouchRow,
        AdmitPlain, Admit, Rotate, Serve, RevokeOne, RevokeOthers, LogoutAll,
        WipeKey, WipeIndex, ScanActive, EndRow, RowsEnded, LogoutGet,
        LogoutRow, CommitStep, Reply, Fail, Goto, Forget
  <2>2. ~Expired(store[tok[r]])
    BY <1>1, <2>1 DEF Validate, Goto, IInv, TypeOK
  <2>3. tok[r] \in Token /\ store[tok[r]] \in Record
    BY <1>1, <2>1, Cookie DEF Validate, TokSteps, Steps
  <2>4. Faithful(tok[r], store[tok[r]])
    BY <1>1, <2>1, <2>3 DEF IInv, RecordsFaithful, Validate
  <2> QED
    BY <1>1, <2>2, <2>3, <2>4, TimesAssumption
    DEF Expired, Faithful, Record, IInv, TypeOK
<1>2. IInv /\ [Next]_vars =>
     [\A r \in Req :
         pc[r] = "validate" /\ pc'[r] = "touchGet" =>
             LET opened == born[issued[tok[r]]]
             IN  now <= opened + IdleTimeout /\ now <= opened + SessionTTL]_vars
  BY <1>1
<1> QED BY <1>2, Invariance, PTL DEF Spec, AdmittedInLifetime

\* The committed rows of the sessions table follow SessionLifecycle.
THEOREM LifecycleImplemented == Spec => ImplementsLifecycle
<1>1. Init => Lifecycle!Init
  BY DEF Init, Lifecycle!Init
<1>2. IInv /\ [Next]_vars => [Lifecycle!Next]_row
  <2> SUFFICES ASSUME IInv, [Next]_vars, row' # row PROVE Lifecycle!Next
    OBVIOUS
  <2>1. PICK r \in Req : CommitStep(r)
    <3>1. PICK r \in Req : Step(r)
      BY DEF Next, Tick, vars, db
    <3> QED
      BY <3>1
      DEF Step, Login, SaveKey, SaveIndex, Send, Validate, Refuse,
        DropFromIndex, DeleteKey, ExpireRow, TouchGet, TouchSet, TouchRow,
        AdmitPlain, Admit, Rotate, Serve, RevokeOne, RevokeOthers, LogoutAll,
        WipeKey, WipeIndex, ScanActive, EndRow, RowsEnded, LogoutGet,
        LogoutRow, Reply, Fail, Rollback, db
  <2>2. \A s \in Sid : Lifecycle!May(row[s], row'[s])
    BY <2>1 DEF CommitStep, Commit, IInv, DbOK, Lifecycle!May
  <2>3. row' \in [Sid -> Lifecycle!Status]
    BY <2>1 DEF CommitStep, Commit, IInv, TypeOK, Status, Lifecycle!Status
  <2> QED BY <2>2, <2>3 DEF Lifecycle!Next
<1> QED
  BY <1>1, <1>2, Invariance, PTL
  DEF Spec, ImplementsLifecycle, Lifecycle!Spec
=============================================================================
