--------------------------- MODULE OAuthFlowProofs ---------------------------
(***************************************************************************)
(* Theorems about OAuthFlow, for any states, codes, identities, users and  *)
(* requests.                                                               *)
(*                                                                         *)
(* What a callback reads is old by the time it writes.  What is true at    *)
(* its commit is what the rows it holds say: IInv relates the rows that    *)
(* are locked to the request that locked them, an account's row to its     *)
(* credential's, and codes to the identities they were granted to.         *)
(***************************************************************************)
EXTENDS OAuthFlow, TLAPS

-----------------------------------------------------------------------------
(* The inductive invariant, of the rows *)

\* A row that nobody holds has no version but the committed one.
RowsOK == \A k \in Key : lock[k] = None => draft[k] = row[k]

\* Code c was granted to identity i.
GrantedTo(g, c, i) == g[c] # None /\ g[c].id = i

\* A credential has its account, in what is committed and in what one request
\* is about to commit; an account that is there is not inserted again.
AccountOK(i) ==
    LET a == AccountRow(i)
        c == CredentialRow(i)
    IN  /\ row[c] # None => row[a] # None /\ GrantedTo(grant, row[c], i)
        /\ draft[c] # None => GrantedTo(grant, draft[c], i)
        /\ lock[c] # None /\ draft[c] # None =>
              lock[a] = lock[c] /\ draft[a] # None
        /\ lock[a] # None /\ draft[a] = None =>
              lock[c] = lock[a] /\ draft[c] = None
        /\ lock[a] # None /\ draft[a] # None => row[a] \in {None, draft[a]}

\* A state that is held, or has signed somebody in, is consumed.
Consumed == {"received", "completed"}

StatesOK ==
    /\ \A s \in State :
        lock[StateRow(s)] # None => draft[StateRow(s)] \in Consumed
    /\ \A x \in sessions :
        info[x.state] # None /\ row[StateRow(x.state)] \in Consumed

CodesOK ==
    /\ \A c \in Code : grant[c] # None => info[grant[c].state] # None
    /\ \A l \in Link :
        parked[l] # None => GrantedTo(grant, parked[l].code, parked[l].id)

-----------------------------------------------------------------------------
(* and of a request r whose variables are q, where g, n, l and d are grant,
   info, lock and draft *)

\* The steps from which on the account is known.
Holding == {"scan", "deactivate", "insertCredential", "dropPending",
    "deleteAccount", "commit"}

\* Where the kinds of requests go, and what they know there.
OnPath(q) ==
    /\ q.pc = "idle" <=> q.kind = "none"
    /\ q.pc \in {"load", "consume", "exchange", "identity", "candidate",
                 "insertUser"} => q.kind = "callback"
    /\ q.pc \in {"pending", "existing", "dropPending"} => q.kind = "link"
    /\ q.pc \in {"insertAccount", "insertCredential"} => q.kind # "unlink"
    /\ q.pc = "deleteAccount" => q.kind = "unlink"

Knows(q) ==
    /\ IF q.kind = "callback" THEN q.state \in State /\ q.code \in Code
                              ELSE q.state = None
    /\ q.kind = "link" => q.link \in Link /\ q.user \in User
    /\ q.kind = "link" /\ q.pc # "pending" => q.code \in Code
    /\ q.pc \notin {"idle", "load", "consume", "exchange", "pending"} =>
          q.id \in Identity
    /\ q.pc \in Holding \cup {"insertAccount"} => q.user \in User
    /\ q.pc \in Holding => q.account \in Account /\ q.account.user = q.user

\* Its code was granted to the identity it acts for.
CodeOK(q, g, n) ==
    /\ q.kind = "callback" => g[q.code] # None /\ n[q.state] # None
    /\ q.kind \in {"callback", "link"}
       /\ q.pc \notin {"load", "consume", "exchange", "pending"}
          => GrantedTo(g, q.code, q.id)

\* The rows it holds.
LocksOK(r, q, l, d) ==
    /\ \A s \in State :
        l[StateRow(s)] = r => s = q.state /\ q.pc \notin {"load", "consume"}
    /\ \A i \in Identity :
        l[AccountRow(i)] = r => i = q.id /\ q.pc \in Holding
    /\ q.kind = "callback" /\ q.pc \notin {"load", "consume"} =>
        l[StateRow(q.state)] = r
    /\ q.kind # "unlink" /\ q.pc \in {"dropPending", "commit"} =>
        /\ l[AccountRow(q.id)] = r /\ d[AccountRow(q.id)] = q.account
        /\ l[CredentialRow(q.id)] = r /\ d[CredentialRow(q.id)] = q.code

RequestOK(r, q, g, n, l, d) ==
    OnPath(q) /\ Knows(q) /\ CodeOK(q, g, n) /\ LocksOK(r, q, l, d)

IInv ==
    /\ TypeOK
    /\ RowsOK /\ StatesOK /\ CodesOK
    /\ \A i \in Identity : AccountOK(i)
    /\ \A r \in Req : RequestOK(r, req[r], grant, info, lock, draft)

-----------------------------------------------------------------------------
(* The keys of the tables *)

LEMMA Keys ==
    /\ \A s \in State :
        StateRow(s) \in Key /\ Value(StateRow(s)) = Stage
    /\ \A u \in User :
        UserRow(u) \in Key /\ Value(UserRow(u)) = Person
    /\ \A i \in Identity :
        /\ AccountRow(i) \in Key /\ Value(AccountRow(i)) = Account
        /\ CredentialRow(i) \in Key /\ Value(CredentialRow(i)) = Code
    /\ StateRow(None) \notin Key
<1>1. None \notin State
  BY NoneAssumption
<1> QED
  BY <1>1 DEF Key, Value, StateRow, UserRow, AccountRow, CredentialRow

LEMMA KeyKinds ==
    \A k \in Key :
        \/ \E s \in State : k = StateRow(s)
        \/ \E u \in User : k = UserRow(u)
        \/ \E i \in Identity : k = AccountRow(i) \/ k = CredentialRow(i)
BY DEF Key, StateRow, UserRow, AccountRow, CredentialRow

LEMMA KeysDiffer ==
    ASSUME NEW x, NEW y
    PROVE  /\ StateRow(x) = StateRow(y) => x = y
           /\ UserRow(x) = UserRow(y) => x = y
           /\ AccountRow(x) = AccountRow(y) => x = y
           /\ CredentialRow(x) = CredentialRow(y) => x = y
           /\ StateRow(x) # UserRow(y) /\ StateRow(x) # AccountRow(y)
           /\ StateRow(x) # CredentialRow(y) /\ UserRow(x) # AccountRow(y)
           /\ UserRow(x) # CredentialRow(y)
           /\ AccountRow(x) # CredentialRow(y)
BY DEF StateRow, UserRow, AccountRow, CredentialRow

-----------------------------------------------------------------------------
(* Lemmas *)

OutsideType ==
    /\ now \in Nat
    /\ info \in [State -> Info \cup {None}]
    /\ grant \in [Code -> Grant \cup {None}]
    /\ parked \in [Link -> Parked \cup {None}]

DbType ==
    /\ DOMAIN row = Key /\ DOMAIN draft = Key
    /\ \A k \in Key : {row[k], draft[k]} \subseteq Value(k) \cup {None}
    /\ lock \in [Key -> Req \cup {None}]
    /\ sessions \subseteq SignIn

\* What was granted and what begin stored are kept.
Grows ==
    /\ \A c \in Code :
        grant[c] # None => grant'[c] # None /\ grant'[c].id = grant[c].id
    /\ \A s \in State : info[s] # None => info'[s] # None

\* The rows that s holds are left to it, and no others are given to it.
KeptFor(s) ==
    \A k \in Key :
        /\ lock'[k] = s <=> lock[k] = s
        /\ lock[k] = s => draft'[k] = draft[k]

\* What the invariant says of one request.
LEMMA Known ==
    ASSUME IInv, NEW r \in Req
    PROVE  /\ req[r] \in Request
           /\ RequestOK(r, req[r], grant, info, lock, draft)
           /\ OutsideType /\ DbType
BY DEF IInv, TypeOK, OutsideType, DbType

\* What is known of a request is not disturbed by steps of others.
LEMMA Undisturbed ==
    ASSUME IInv, NEW s \in Req, Grows, KeptFor(s)
    PROVE  RequestOK(s, req[s], grant', info', lock', draft')
<1> DEFINE q == req[s]
<1>1. RequestOK(s, q, grant, info, lock, draft)
  BY DEF IInv
<1>2. OnPath(q) /\ Knows(q)
  BY <1>1 DEF RequestOK
<1>3. CodeOK(q, grant', info')
  BY <1>1 DEF RequestOK, OnPath, Knows, CodeOK, GrantedTo, Grows
<1>4. LocksOK(s, q, lock', draft')
  <2>1. LocksOK(s, q, lock, draft)
    BY <1>1 DEF RequestOK
  <2>2. q.kind = "callback" => StateRow(q.state) \in Key
    BY <1>2, Keys DEF Knows
  <2>3. q.pc \in {"dropPending", "commit"} =>
            AccountRow(q.id) \in Key /\ CredentialRow(q.id) \in Key
    BY <1>2, Keys DEF Knows
  <2> QED BY <2>1, <2>2, <2>3, Keys DEF LocksOK, KeptFor
<1> QED BY <1>2, <1>3, <1>4 DEF RequestOK

\* A step of r preserves IInv if what is known of r after it is right.
LEMMA OneRequest ==
    ASSUME IInv, NEW r \in Req, NEW q \in Request,
           req' = [req EXCEPT ![r] = q], OutsideType', DbType', Grows,
           \A s \in Req : s # r => KeptFor(s),
           RowsOK', StatesOK', CodesOK', \A i \in Identity : AccountOK(i)',
           RequestOK(r, q, grant', info', lock', draft')
    PROVE  IInv'
<1>1. req' \in [Req -> Request] /\ req'[r] = q
      /\ \A s \in Req : s # r => req'[s] = req[s]
  BY DEF IInv, TypeOK
<1>2. TypeOK'
  BY <1>1 DEF TypeOK, OutsideType, DbType
<1>3. \A s \in Req : RequestOK(s, req'[s], grant', info', lock', draft')
  BY <1>1, Undisturbed
<1>4. ASSUME NEW s \in Req
      PROVE  RequestOK(s, req[s], grant, info, lock, draft)'
  BY <1>3 DEF RequestOK, OnPath, Knows, CodeOK, LocksOK, GrantedTo
<1> QED BY <1>2, <1>4 DEF IInv

\* The same for a step that Postgres, GitHub and Redis do not see.
LEMMA QuietStep ==
    ASSUME IInv, NEW r \in Req, NEW q \in Request,
           req' = [req EXCEPT ![r] = q],
           UNCHANGED <<now, info, github, parked, db>>,
           RequestOK(r, q, grant, info, lock, draft)
    PROVE  IInv'
<1>1. /\ UNCHANGED <<now, info, grant, parked>>
      /\ UNCHANGED <<row, draft, lock, sessions>>
  BY DEF github, db
<1>2. OutsideType' /\ DbType'
  BY <1>1, Known DEF OutsideType, DbType
<1>3. Grows /\ \A s \in Req : KeptFor(s)
  BY <1>1 DEF Grows, KeptFor
<1>4. RowsOK' /\ StatesOK'
  BY <1>1 DEF IInv, RowsOK, StatesOK
<1>5. CodesOK'
  BY <1>1 DEF IInv, CodesOK, GrantedTo
<1>6. \A i \in Identity : AccountOK(i)'
  BY <1>1 DEF IInv, AccountOK, GrantedTo
<1> QED BY <1>1, <1>2, <1>3, <1>4, <1>5, <1>6, OneRequest

\* The same for one that writes rows: it takes what is free or its own.
LEMMA WriteStep ==
    ASSUME IInv, NEW r \in Req, NEW q \in Request,
           req' = [req EXCEPT ![r] = q],
           UNCHANGED <<now, info, github, parked, row, sessions>>,
           DOMAIN draft' = Key, lock' \in [Key -> Req \cup {None}],
           \A k \in Key :
               \/ lock'[k] = lock[k] /\ draft'[k] = draft[k]
               \/ /\ lock[k] \in {None, r} /\ lock'[k] = r
                  /\ draft'[k] \in Value(k) \cup {None},
           \A s \in State : lock'[StateRow(s)] = r =>
               draft'[StateRow(s)] \in Consumed,
           \A i \in Identity : AccountOK(i)',
           RequestOK(r, q, grant, info, lock', draft')
    PROVE  IInv'
<1>1. UNCHANGED <<now, info, grant, parked, row, sessions>>
  BY DEF github
<1>2. OutsideType' /\ DbType'
  BY <1>1, Known DEF OutsideType, DbType
<1>3. Grows /\ \A s \in Req : s # r => KeptFor(s)
  BY <1>1, NoneAssumption DEF Grows, KeptFor
<1>4. RowsOK'
  BY <1>1, NoneAssumption DEF IInv, RowsOK
<1>5. StatesOK'
  BY <1>1, Keys DEF IInv, StatesOK
<1>6. CodesOK'
  BY <1>1 DEF IInv, CodesOK, GrantedTo
<1> QED BY <1>1, <1>2, <1>3, <1>4, <1>5, <1>6, OneRequest

\* Rollback(r) and Forget(r), whatever is parked in Redis at the same time.
LEMMA RollbackStep ==
    ASSUME IInv, NEW r \in Req, Rollback(r), Forget(r),
           UNCHANGED <<now, info, github>>,
           parked' \in [Link -> Parked \cup {None}],
           \A k \in Link : parked'[k] # None =>
               GrantedTo(grant, parked'[k].code, parked'[k].id)
    PROVE  IInv'
<1> USE Known
<1>1. UNCHANGED <<now, info, grant, row, sessions>>
      /\ req' = [req EXCEPT ![r] = Idle]
  BY DEF github, Rollback, Forget
<1>2. /\ draft' = [k \in Key |-> IF lock[k] = r THEN row[k] ELSE draft[k]]
      /\ lock' = [k \in Key |-> IF lock[k] = r THEN None ELSE lock[k]]
  BY DEF Rollback, Release
<1>3. r # None
  BY NoneAssumption
<1>4. Idle \in Request
  BY DEF Idle, Request, Steps
<1>5. OutsideType'
  BY <1>1 DEF OutsideType
<1>6. DbType'
  BY <1>1, <1>2 DEF DbType
<1>7. Grows /\ \A s \in Req : s # r => KeptFor(s)
  BY <1>1, <1>2, NoneAssumption DEF Grows, KeptFor
<1>8. RowsOK'
  BY <1>1, <1>2 DEF IInv, RowsOK
<1>9. StatesOK'
  BY <1>1, <1>2, Keys, NoneAssumption DEF IInv, StatesOK
<1>10. CodesOK'
  BY <1>1 DEF IInv, CodesOK, GrantedTo
<1>11. ASSUME NEW i \in Identity PROVE AccountOK(i)'
  <2> DEFINE a == AccountRow(i)
             c == CredentialRow(i)
  <2>1. a \in Key /\ c \in Key
    BY Keys
  <2>2. AccountOK(i)
    BY DEF IInv
  <2>3. lock'[a] = (IF lock[a] = r THEN None ELSE lock[a])
        /\ lock'[c] = (IF lock[c] = r THEN None ELSE lock[c])
        /\ draft'[a] = (IF lock[a] = r THEN row[a] ELSE draft[a])
        /\ draft'[c] = (IF lock[c] = r THEN row[c] ELSE draft[c])
    BY <1>2, <2>1
  <2> QED BY <1>1, <2>2, <2>3 DEF AccountOK, GrantedTo
<1>12. RequestOK(r, Idle, grant', info', lock', draft')
  <2>1. \A k \in Key : lock'[k] # r
    BY <1>2, <1>3
  <2> QED
    BY <2>1, Keys DEF RequestOK, OnPath, Knows, CodeOK, LocksOK, Idle, Holding
<1> QED
  BY <1>1, <1>4, <1>5, <1>6, <1>7, <1>8, <1>9, <1>10, <1>11, <1>12, OneRequest

\* What Write(r, k, value) does to the rows.
Written(r, k, value) ==
    /\ DOMAIN draft' = Key /\ lock' \in [Key -> Req \cup {None}]
    /\ lock[k] \in {None, r} /\ lock'[k] = r /\ draft'[k] = value
    /\ \A j \in Key : j # k => lock'[j] = lock[j] /\ draft'[j] = draft[j]
    /\ \A j \in Key :
        \/ lock'[j] = lock[j] /\ draft'[j] = draft[j]
        \/ /\ lock[j] \in {None, r} /\ lock'[j] = r
           /\ draft'[j] \in Value(j) \cup {None}

LEMMA WrittenOK ==
    ASSUME IInv, NEW r \in Req, NEW k \in Key,
           NEW value \in Value(k) \cup {None}, Write(r, k, value)
    PROVE  Written(r, k, value)
BY Known DEF DbType, Write, Free, Written

-----------------------------------------------------------------------------
(* The steps *)

LEMMA InitOK == Init => IInv
<1> SUFFICES ASSUME Init PROVE IInv
  OBVIOUS
<1> USE NoneAssumption
<1>1. req \in [Req -> Request] /\ \A r \in Req : req[r] = Idle
  BY DEF Init, Idle, Request, Steps
<1>2. TypeOK
  BY <1>1 DEF Init, TypeOK
<1>3. RowsOK /\ StatesOK /\ CodesOK
  BY Keys DEF Init, RowsOK, StatesOK, CodesOK
<1>4. \A i \in Identity : AccountOK(i)
  BY Keys DEF Init, AccountOK
<1>5. ASSUME NEW r \in Req
      PROVE  RequestOK(r, req[r], grant, info, lock, draft)
  <2>1. \A k \in Key : lock[k] # r
    BY DEF Init
  <2> QED BY <1>1, <2>1, Keys
      DEF RequestOK, OnPath, Knows, CodeOK, LocksOK, Idle, Holding
<1> QED BY <1>2, <1>3, <1>4, <1>5 DEF IInv

\* A request that forgets what it knew holds no row.
LEMMA ForgetStep ==
    ASSUME IInv, NEW r \in Req, Forget(r),
           UNCHANGED <<now, info, github, parked, db>>,
           req[r].pc \in {"load", "pending", "existing"}
    PROVE  IInv'
<1> USE Known
<1>1. Idle \in Request
  BY DEF Idle, Request, Steps
<1>2. /\ \A s \in State : lock[StateRow(s)] # r
      /\ \A i \in Identity : lock[AccountRow(i)] # r
  <2>1. req[r].pc \notin Holding
    BY DEF Holding
  <2>2. \A s \in State : lock[StateRow(s)] = r =>
            s = req[r].state /\ req[r].kind = "callback"
    BY NoneAssumption DEF RequestOK, LocksOK, Knows
  <2> QED BY <2>1, <2>2 DEF RequestOK, LocksOK, OnPath
<1>3. RequestOK(r, Idle, grant, info, lock, draft)
  BY <1>2 DEF RequestOK, OnPath, Knows, CodeOK, LocksOK, Idle, Holding
<1> QED BY <1>1, <1>3, QuietStep DEF Forget

\* The steps that only move a request on.
LEMMA MoveStep ==
    ASSUME IInv, NEW r \in Req, NEW to \in Steps, Goto(r, to),
           UNCHANGED <<now, info, github, parked, db>>,
           <<req[r].pc, to>> \in
               {<<"load", "consume">>, <<"existing", "insertAccount">>,
                <<"candidate", "insertUser">>}
           \/ /\ req[r].pc = "deactivate"
              /\ to = IF req[r].kind = "unlink"
                      THEN "deleteAccount" ELSE "insertCredential"
    PROVE  IInv'
<1> USE Known
<1> DEFINE q == [req[r] EXCEPT !.pc = to]
<1>1. q \in Request
  BY DEF Request
<1>2. req' = [req EXCEPT ![r] = q]
  BY DEF Goto, IInv, TypeOK
<1>3. /\ q.pc = to /\ q.kind = req[r].kind /\ q.state = req[r].state
      /\ q.code = req[r].code /\ q.id = req[r].id /\ q.user = req[r].user
      /\ q.account = req[r].account /\ q.link = req[r].link
  BY DEF Request
<1> HIDE DEF q
<1>4. OnPath(q) /\ Knows(q)
  BY <1>3 DEF RequestOK, OnPath, Knows, Holding
<1>5. CodeOK(q, grant, info)
  BY <1>3 DEF RequestOK, OnPath, CodeOK
<1>6. LocksOK(r, q, lock, draft)
  BY <1>3 DEF RequestOK, OnPath, LocksOK, Holding
<1> QED BY <1>1, <1>2, <1>4, <1>5, <1>6, QuietStep DEF RequestOK

\* The browser comes back with a code that was granted for a state.
LEMMA CallbackStep ==
    ASSUME IInv, NEW r \in Req, Callback(r)
    PROVE  IInv'
<1> USE Known
<1>1. PICK c \in Code :
        /\ grant[c] # None
        /\ req' = [req EXCEPT ![r] = [Idle EXCEPT !.pc = "load",
                !.kind = "callback", !.code = c, !.state = grant[c].state]]
  BY DEF Callback
<1> DEFINE q == [Idle EXCEPT !.pc = "load", !.kind = "callback",
                     !.code = c, !.state = grant[c].state]
<1>2. grant[c].state \in State /\ info[grant[c].state] # None
  BY <1>1 DEF OutsideType, Grant, IInv, CodesOK
<1>3. q \in Request
  BY <1>2 DEF Request, Idle, Steps
<1>4. /\ q.pc = "load" /\ q.kind = "callback" /\ q.code = c
      /\ q.state = grant[c].state
  BY DEF Idle
<1>5. /\ \A s \in State : lock[StateRow(s)] # r
      /\ \A i \in Identity : lock[AccountRow(i)] # r
  <2>1. req[r].kind = "none" /\ req[r].pc = "idle"
    BY DEF Callback, RequestOK, OnPath
  <2> QED BY <2>1, NoneAssumption DEF RequestOK, LocksOK, Knows, Holding
<1>6. RequestOK(r, q, grant, info, lock, draft)
  BY <1>1, <1>2, <1>4, <1>5
    DEF RequestOK, OnPath, Knows, CodeOK, LocksOK, Holding
<1>7. req' = [req EXCEPT ![r] = q]
      /\ UNCHANGED <<now, info, github, parked, db>>
  BY <1>1 DEF Callback
<1> HIDE DEF q
<1> QED BY <1>3, <1>6, <1>7, QuietStep

LEMMA LoadStep ==
    ASSUME IInv, NEW r \in Req, Load(r)
    PROVE  IInv'
<1>1. req[r].pc = "load" /\ UNCHANGED <<now, info, github, parked, db>>
      /\ (Forget(r) \/ Goto(r, "consume"))
  BY DEF Load
<1> QED BY <1>1, ForgetStep, MoveStep DEF Steps

\* The state's row is now r's, and consumed.
LEMMA ConsumeStep ==
    ASSUME IInv, NEW r \in Req, Consume(r)
    PROVE  IInv'
<1> USE Known
<1> DEFINE q == [req[r] EXCEPT !.pc = "exchange"]
           k == StateRow(req[r].state)
<1>1. /\ req[r].pc = "consume" /\ Write(r, k, "received")
      /\ UNCHANGED <<now, info, github, parked, row, sessions>>
  BY DEF Consume
<1>2. req' = [req EXCEPT ![r] = q]
  BY DEF Consume, Goto, IInv, TypeOK
<1>3. q \in Request
  BY DEF Request, Steps
<1>4. /\ q.pc = "exchange" /\ q.kind = req[r].kind /\ q.state = req[r].state
      /\ q.code = req[r].code /\ q.id = req[r].id
  BY DEF Request
<1> HIDE DEF q
<1>5. req[r].kind = "callback" /\ req[r].state \in State
  BY <1>1 DEF RequestOK, OnPath, Knows
<1>6. k \in Key /\ "received" \in Value(k)
  BY <1>5, Keys DEF Stage
<1>7. Written(r, k, "received")
  BY <1>1, <1>6, WrittenOK
<1>8. \A i \in Identity : AccountRow(i) # k /\ CredentialRow(i) # k
  BY KeysDiffer
<1>9. \A s \in State : StateRow(s) = k <=> s = req[r].state
  BY KeysDiffer
<1>10. \A s \in State : lock'[StateRow(s)] = r =>
           draft'[StateRow(s)] \in Consumed
  BY <1>7, Keys, NoneAssumption DEF IInv, StatesOK, Consumed, Written
<1>11. ASSUME NEW i \in Identity PROVE AccountOK(i)'
  BY <1>1, <1>7, <1>8, Keys DEF IInv, AccountOK, GrantedTo, github, Written
<1>12. RequestOK(r, q, grant, info, lock', draft')
  <2>1. OnPath(q) /\ Knows(q) /\ CodeOK(q, grant, info)
    BY <1>1, <1>4, <1>5 DEF RequestOK, OnPath, Knows, CodeOK, Holding
  <2>2. LocksOK(r, q, lock', draft')
    BY <1>1, <1>4, <1>5, <1>7, <1>8, <1>9, Keys
      DEF RequestOK, LocksOK, Holding, Written
  <2> QED BY <2>1, <2>2 DEF RequestOK
<1> HIDE DEF k
<1> QED
  BY <1>1, <1>2, <1>3, <1>7, <1>10, <1>11, <1>12, WriteStep DEF Written

\* GitHub tells whose code it was.
LEMMA ExchangeStep ==
    ASSUME IInv, NEW r \in Req, Exchange(r)
    PROVE  IInv'
<1> USE Known
<1> DEFINE c == req[r].code
           q == [req[r] EXCEPT !.pc = "identity", !.id = grant[c].id]
<1>1. /\ req[r].pc = "exchange"
      /\ grant' = [grant EXCEPT ![c].used = TRUE]
      /\ UNCHANGED <<now, info, parked>>
      /\ UNCHANGED <<row, draft, lock, sessions>>
  BY DEF Exchange, db
<1>2. /\ req[r].kind = "callback" /\ c \in Code /\ grant[c] \in Grant
      /\ grant[c] # None
  BY <1>1 DEF RequestOK, OnPath, Knows, CodeOK, OutsideType
<1>a. grant[c].id \in Identity /\ "identity" \in Steps
  BY <1>2 DEF Grant, Steps
<1>3. q \in Request
  BY <1>a DEF Request
<1>4. req' = [req EXCEPT ![r] = q]
  BY DEF Exchange, IInv, TypeOK
<1>5. /\ q.pc = "identity" /\ q.kind = req[r].kind /\ q.state = req[r].state
      /\ q.code = c /\ q.id = grant[c].id
  BY DEF Request
<1> HIDE DEF q
<1>6. grant' \in [Code -> Grant \cup {None}]
  BY <1>1, <1>2 DEF OutsideType, Grant
<1>7. \A x \in Code : grant[x] # None =>
          /\ grant'[x] # None /\ grant'[x].id = grant[x].id
          /\ grant'[x].state = grant[x].state
  BY <1>1, <1>2, NoneAssumption DEF OutsideType, Grant
<1>8. \A x \in Code : grant'[x] # None => grant[x] # None
  BY <1>1, <1>2 DEF OutsideType
<1>9. OutsideType' /\ DbType'
  BY <1>1, <1>6 DEF OutsideType, DbType
<1>10. Grows /\ \A s \in Req : KeptFor(s)
  BY <1>1, <1>7 DEF Grows, KeptFor
<1>11. RowsOK' /\ StatesOK'
  BY <1>1 DEF IInv, RowsOK, StatesOK
<1>12. CodesOK'
  BY <1>1, <1>7, <1>8 DEF IInv, CodesOK, GrantedTo, OutsideType, Parked
<1>13. ASSUME NEW i \in Identity PROVE AccountOK(i)'
  <2>1. {row[CredentialRow(i)], draft[CredentialRow(i)]}
            \subseteq Code \cup {None}
    BY Keys DEF DbType
  <2> QED BY <1>1, <1>7, <2>1 DEF IInv, AccountOK, GrantedTo
<1>14. RequestOK(r, q, grant', info', lock', draft')
  <2>1. OnPath(q) /\ Knows(q)
    BY <1>1, <1>2, <1>5 DEF RequestOK, OnPath, Knows, Holding, Grant
  <2>2. CodeOK(q, grant', info')
    BY <1>1, <1>2, <1>5, <1>7 DEF RequestOK, CodeOK, GrantedTo
  <2>3. LocksOK(r, q, lock', draft')
    BY <1>1, <1>5 DEF RequestOK, LocksOK, Holding
  <2> QED BY <2>1, <2>2, <2>3 DEF RequestOK
<1> QED
  BY <1>3, <1>4, <1>9, <1>10, <1>11, <1>12, <1>13, <1>14, OneRequest

\* The account that is looked up may be gone, or another's, by the commit;
\* what r holds is not touched.
LEMMA IdentifyStep ==
    ASSUME IInv, NEW r \in Req, Identify(r)
    PROVE  IInv'
<1> USE Known
<1> DEFINE linkTo == info[req[r].state].linkTo
           account == row[AccountRow(req[r].id)]
<1>0. req[r] \in Request
  OBVIOUS
<1>1. req[r].pc = "identity" /\ UNCHANGED <<now, info, github, parked>>
  BY DEF Identify
<1>2. /\ req[r].kind = "callback" /\ req[r].state \in State
      /\ req[r].id \in Identity /\ req[r].code \in Code
      /\ GrantedTo(grant, req[r].code, req[r].id)
      /\ info[req[r].state] # None
  BY <1>1 DEF RequestOK, OnPath, Knows, CodeOK
<1>3. linkTo \in User \cup {None}
  BY <1>2 DEF OutsideType, Info
<1>4. account \in Account \cup {None}
  BY <1>2, Keys DEF DbType
<1>5. CASE linkTo # None /\ account = None
  <2> DEFINE q == [req[r] EXCEPT !.pc = "insertAccount", !.user = linkTo]
  <2>1. req' = [req EXCEPT ![r] = q] /\ UNCHANGED db
    BY <1>5 DEF Identify, IInv, TypeOK
  <2>2. "insertAccount" \in Steps /\ linkTo \in User
    BY <1>3, <1>5 DEF Steps
  <2>3. q \in Request
    BY <2>2 DEF Request
  <2>4. /\ q.pc = "insertAccount" /\ q.kind = req[r].kind
        /\ q.state = req[r].state /\ q.code = req[r].code
        /\ q.id = req[r].id /\ q.user \in User
    BY <2>2 DEF Request
  <2> HIDE DEF q
  <2>5. RequestOK(r, q, grant, info, lock, draft)
    BY <1>1, <1>2, <2>4
      DEF RequestOK, OnPath, Knows, CodeOK, LocksOK, Holding
  <2> QED BY <1>1, <2>1, <2>3, <2>5, QuietStep
<1>6. CASE linkTo # None /\ account # None
  <2>1. Rollback(r) /\ Forget(r)
    BY <1>6 DEF Identify
  <2>2. \A l \in Link : parked'[l] # None =>
            GrantedTo(grant, parked'[l].code, parked'[l].id)
    BY <1>1 DEF IInv, CodesOK
  <2> QED BY <1>1, <2>1, <2>2, RollbackStep DEF OutsideType
<1>7. CASE linkTo = None /\ account # None
  <2> DEFINE q == [req[r] EXCEPT !.pc = "scan", !.account = account,
                                 !.user = account.user]
  <2>1. req' = [req EXCEPT ![r] = q] /\ UNCHANGED db
    BY <1>7 DEF Identify, IInv, TypeOK
  <2>2. "scan" \in Steps /\ account \in Account /\ account.user \in User
    BY <1>4, <1>7 DEF Steps, Account
  <2> HIDE DEF account
  <2>3. q \in Request
    BY <1>0, <2>2 DEF Request
  <2>4. /\ q.pc = "scan" /\ q.kind = req[r].kind
        /\ q.state = req[r].state /\ q.code = req[r].code
        /\ q.id = req[r].id /\ q.user = account.user /\ q.account = account
    BY <2>2 DEF Request
  <2> HIDE DEF q
  <2>5. RequestOK(r, q, grant, info, lock, draft)
    BY <1>1, <1>2, <2>2, <2>4
      DEF RequestOK, OnPath, Knows, CodeOK, LocksOK, Holding
  <2> QED BY <1>1, <2>1, <2>3, <2>5, QuietStep
<1>8. CASE linkTo = None /\ account = None
  <2>1. PICK mail \in {req[r].id, None} :
            req' = [req EXCEPT ![r].pc = "candidate", ![r].mail = mail]
    BY <1>8 DEF Identify
  <2> DEFINE q == [req[r] EXCEPT !.pc = "candidate", !.mail = mail]
  <2>2. req' = [req EXCEPT ![r] = q] /\ UNCHANGED db
    BY <1>8, <2>1 DEF Identify, IInv, TypeOK
  <2>3. "candidate" \in Steps /\ mail \in Identity \cup {None}
    BY <1>2 DEF Steps
  <2>4. q \in Request
    BY <1>0, <2>3 DEF Request
  <2>5. /\ q.pc = "candidate" /\ q.kind = req[r].kind
        /\ q.state = req[r].state /\ q.code = req[r].code
        /\ q.id = req[r].id
    BY DEF Request
  <2> HIDE DEF q
  <2>6. RequestOK(r, q, grant, info, lock, draft)
    BY <1>1, <1>2, <2>5
      DEF RequestOK, OnPath, Knows, CodeOK, LocksOK, Holding
  <2> QED BY <1>1, <2>2, <2>4, <2>6, QuietStep
<1> QED BY <1>5, <1>6, <1>7, <1>8

\* What is parked names the identity its code was granted to.
LEMMA CandidateStep ==
    ASSUME IInv, NEW r \in Req, Candidate(r)
    PROVE  IInv'
<1> USE Known
<1>1. req[r].pc = "candidate" /\ UNCHANGED <<now, info, github>>
  BY DEF Candidate
<1>2. /\ req[r].id \in Identity /\ req[r].code \in Code
      /\ GrantedTo(grant, req[r].code, req[r].id)
  BY <1>1 DEF RequestOK, OnPath, Knows, CodeOK
<1>3. CASE Goto(r, "insertUser") /\ UNCHANGED <<parked, db>>
  BY <1>1, <1>3, MoveStep DEF Steps
<1>4. CASE /\ Rollback(r) /\ Forget(r)
           /\ \E u \in User, l \in Link :
                parked' = [parked EXCEPT ![l] = [user |-> u,
                    id |-> req[r].id, code |-> req[r].code,
                    until |-> now + StateTTL]]
  <2>1. PICK u \in User, l \in Link :
            parked' = [parked EXCEPT ![l] = [user |-> u,
                id |-> req[r].id, code |-> req[r].code,
                until |-> now + StateTTL]]
    BY <1>4
  <2> DEFINE p == [user |-> u, id |-> req[r].id, code |-> req[r].code,
                   until |-> now + StateTTL]
  <2>2. p \in Parked
    BY <1>2, TimesAssumption DEF Parked, OutsideType
  <2>3. p.id = req[r].id /\ p.code = req[r].code
    OBVIOUS
  <2>4. parked' = [parked EXCEPT ![l] = p]
    BY <2>1
  <2> HIDE DEF p
  <2>5. parked' \in [Link -> Parked \cup {None}]
    BY <2>2, <2>4 DEF OutsideType
  <2>6. \A m \in Link : parked'[m] # None =>
            GrantedTo(grant, parked'[m].code, parked'[m].id)
    BY <1>2, <2>3, <2>4 DEF IInv, CodesOK, OutsideType
  <2> QED BY <1>1, <1>4, <2>5, <2>6, RollbackStep
<1> QED BY <1>3, <1>4 DEF Candidate

LEMMA CompleteLinkStep ==
    ASSUME IInv, NEW r \in Req, CompleteLink(r)
    PROVE  IInv'
<1> USE Known
<1>1. PICK l \in Link, u \in User :
        req' = [req EXCEPT ![r] = [Idle EXCEPT !.pc = "pending",
                !.kind = "link", !.link = l, !.user = u]]
  BY DEF CompleteLink
<1> DEFINE q == [Idle EXCEPT !.pc = "pending", !.kind = "link",
                             !.link = l, !.user = u]
<1>2. q \in Request
  BY DEF Request, Idle, Steps
<1>3. /\ q.pc = "pending" /\ q.kind = "link" /\ q.state = None
      /\ q.link = l /\ q.user = u
  BY DEF Idle
<1>4. /\ \A s \in State : lock[StateRow(s)] # r
      /\ \A i \in Identity : lock[AccountRow(i)] # r
  <2>1. req[r].kind = "none" /\ req[r].pc = "idle"
    BY DEF CompleteLink, RequestOK, OnPath
  <2> QED BY <2>1, NoneAssumption DEF RequestOK, LocksOK, Knows, Holding
<1>5. req' = [req EXCEPT ![r] = q]
      /\ UNCHANGED <<now, info, github, parked, db>>
  BY <1>1 DEF CompleteLink
<1> HIDE DEF q
<1>6. RequestOK(r, q, grant, info, lock, draft)
  BY <1>3, <1>4 DEF RequestOK, OnPath, Knows, CodeOK, LocksOK, Holding
<1> QED BY <1>2, <1>5, <1>6, QuietStep

\* An unlinking is about the account that is looked up.
LEMMA UnlinkStep ==
    ASSUME IInv, NEW r \in Req, Unlink(r)
    PROVE  IInv'
<1> USE Known
<1>1. PICK i \in Identity :
        /\ row[AccountRow(i)] # None
        /\ req' = [req EXCEPT ![r] = [Idle EXCEPT !.pc = "scan",
                !.kind = "unlink", !.id = i, !.account = row[AccountRow(i)],
                !.user = row[AccountRow(i)].user]]
  BY DEF Unlink
<1> DEFINE account == row[AccountRow(i)]
           q == [Idle EXCEPT !.pc = "scan", !.kind = "unlink", !.id = i,
                     !.account = account, !.user = account.user]
<1>2. account \in Account /\ account.user \in User
  <2>1. account \in Account
    BY <1>1, Keys DEF DbType
  <2> QED BY <2>1 DEF Account
<1>3. q \in Request
  BY <1>2 DEF Request, Idle, Steps
<1>4. /\ q.pc = "scan" /\ q.kind = "unlink" /\ q.state = None /\ q.id = i
      /\ q.account = account /\ q.user = account.user
  BY DEF Idle
<1>5. /\ \A s \in State : lock[StateRow(s)] # r
      /\ \A j \in Identity : lock[AccountRow(j)] # r
  <2>1. req[r].kind = "none" /\ req[r].pc = "idle"
    BY DEF Unlink, RequestOK, OnPath
  <2> QED BY <2>1, NoneAssumption DEF RequestOK, LocksOK, Knows, Holding
<1>6. req' = [req EXCEPT ![r] = q]
      /\ UNCHANGED <<now, info, github, parked, db>>
  BY <1>1 DEF Unlink
<1> HIDE DEF q, account
<1>7. RequestOK(r, q, grant, info, lock, draft)
  BY <1>2, <1>4, <1>5 DEF RequestOK, OnPath, Knows, CodeOK, LocksOK, Holding
<1> QED BY <1>3, <1>6, <1>7, QuietStep

\* What was parked is what the code was granted to.
LEMMA GetPendingStep ==
    ASSUME IInv, NEW r \in Req, GetPending(r)
    PROVE  IInv'
<1> USE Known
<1> DEFINE pending == parked[req[r].link]
           q == [req[r] EXCEPT !.pc = "existing", !.id = pending.id,
                               !.code = pending.code]
<1>1. req[r].pc = "pending" /\ UNCHANGED <<now, info, github, parked, db>>
  BY DEF GetPending
<1>2. req[r].kind = "link" /\ req[r].link \in Link /\ req[r].user \in User
      /\ req[r].state = None
  BY <1>1 DEF RequestOK, OnPath, Knows
<1>3. CASE Forget(r)
  BY <1>1, <1>3, ForgetStep
<1>4. CASE pending # None /\ req' = [req EXCEPT ![r].pc = "existing",
                ![r].id = pending.id, ![r].code = pending.code]
  <2>1. pending \in Parked /\ GrantedTo(grant, pending.code, pending.id)
    BY <1>2, <1>4 DEF OutsideType, IInv, CodesOK
  <2>2. /\ pending.id \in Identity /\ pending.code \in Code
        /\ "existing" \in Steps
    BY <2>1 DEF Parked, Steps
  <2>3. q \in Request
    BY <2>2 DEF Request
  <2>4. req' = [req EXCEPT ![r] = q]
    BY <1>4 DEF IInv, TypeOK
  <2>5. /\ q.pc = "existing" /\ q.kind = "link" /\ q.state = None
        /\ q.link = req[r].link /\ q.user = req[r].user
        /\ q.id = pending.id /\ q.code = pending.code
    BY <1>2 DEF Request
  <2> HIDE DEF q, pending
  <2>6. RequestOK(r, q, grant, info, lock, draft)
    BY <1>1, <1>2, <2>1, <2>2, <2>5
      DEF RequestOK, OnPath, Knows, CodeOK, LocksOK, Holding
  <2> QED BY <1>1, <2>3, <2>4, <2>6, QuietStep
<1> QED BY <1>3, <1>4 DEF GetPending

LEMMA CheckExistingStep ==
    ASSUME IInv, NEW r \in Req, CheckExisting(r)
    PROVE  IInv'
<1>1. /\ req[r].pc = "existing" /\ UNCHANGED <<now, info, github, parked, db>>
      /\ Forget(r) \/ Goto(r, "insertAccount")
  BY DEF CheckExisting
<1> QED BY <1>1, ForgetStep, MoveStep DEF Steps

LEMMA InsertUserStep ==
    ASSUME IInv, NEW r \in Req, InsertUser(r)
    PROVE  IInv'
<1> USE Known
<1> DEFINE person == [mail |-> req[r].mail, password |-> FALSE]
<1>1. PICK u \in User :
        /\ Write(r, UserRow(u), person)
        /\ req' = [req EXCEPT ![r].pc = "insertAccount", ![r].user = u]
  BY DEF InsertUser
<1> DEFINE q == [req[r] EXCEPT !.pc = "insertAccount", !.user = u]
           k == UserRow(u)
<1>2. /\ req[r].pc = "insertUser"
      /\ UNCHANGED <<now, info, github, parked, row, sessions>>
  BY DEF InsertUser
<1>3. req' = [req EXCEPT ![r] = q]
  BY <1>1 DEF IInv, TypeOK
<1>a. req[r] \in Request /\ "insertAccount" \in Steps
  BY DEF Steps
<1>4. q \in Request
  BY <1>a DEF Request
<1>5. /\ q.pc = "insertAccount" /\ q.kind = req[r].kind
      /\ q.state = req[r].state /\ q.code = req[r].code
      /\ q.id = req[r].id /\ q.user = u
  BY DEF Request
<1> HIDE DEF q
<1>6. req[r].mail \in Identity \cup {None}
  BY DEF Request
<1>7. k \in Key /\ person \in Value(k)
  BY <1>6, Keys DEF Person
<1>8. Written(r, k, person)
  BY <1>1, <1>7, WrittenOK
<1>9. /\ \A s \in State : StateRow(s) # k
      /\ \A i \in Identity : AccountRow(i) # k /\ CredentialRow(i) # k
  BY KeysDiffer
<1> HIDE DEF k, person
<1>10. \A s \in State :
          lock'[StateRow(s)] = r => draft'[StateRow(s)] \in Consumed
  BY <1>8, <1>9, Keys, NoneAssumption DEF IInv, StatesOK, Written
<1>11. ASSUME NEW i \in Identity PROVE AccountOK(i)'
  BY <1>2, <1>8, <1>9, Keys
    DEF IInv, AccountOK, GrantedTo, github, Written
<1>12. RequestOK(r, q, grant, info, lock', draft')
  <2>1. OnPath(q) /\ Knows(q) /\ CodeOK(q, grant, info)
    BY <1>2, <1>5 DEF RequestOK, OnPath, Knows, CodeOK, Holding
  <2>2. LocksOK(r, q, lock', draft')
    BY <1>2, <1>5, <1>8, <1>9, Keys
      DEF RequestOK, OnPath, Knows, LocksOK, Holding, Written
  <2> QED BY <2>1, <2>2 DEF RequestOK
<1> QED
  BY <1>2, <1>3, <1>4, <1>8, <1>10, <1>11, <1>12, WriteStep DEF Written

\* The account is new, and so has no credential yet.
LEMMA InsertAccountStep ==
    ASSUME IInv, NEW r \in Req, InsertAccount(r)
    PROVE  IInv'
<1> USE Known
<1> DEFINE account == [user |-> req[r].user, by |-> req[r].code]
           q == [req[r] EXCEPT !.pc = "scan", !.account = account]
           k == AccountRow(req[r].id)
<1>1. /\ req[r].pc = "insertAccount" /\ draft[k] = None
      /\ Write(r, k, account)
      /\ UNCHANGED <<now, info, github, parked, row, sessions>>
  BY DEF InsertAccount
<1>2. /\ req[r].kind \in {"callback", "link"} /\ req[r].id \in Identity
      /\ req[r].user \in User /\ req[r].code \in Code
  <2>1. req[r].kind \in {"callback", "link"}
    BY <1>1 DEF RequestOK, OnPath, Request
  <2> QED BY <1>1, <2>1 DEF RequestOK, Knows
<1>3. req' = [req EXCEPT ![r] = q]
  BY DEF InsertAccount, IInv, TypeOK
<1>4. account \in Account /\ account.user = req[r].user
  BY <1>2 DEF Account
<1>5. k \in Key /\ account \in Value(k)
  BY <1>2, <1>4, Keys
<1>6. Written(r, k, account)
  BY <1>1, <1>5, WrittenOK
<1> HIDE DEF account, k
<1>7. req[r] \in Request /\ "scan" \in Steps /\ account \in Account
  BY <1>4 DEF Steps
<1>8. q \in Request
  BY <1>7 DEF Request
<1>9. /\ q.pc = "scan" /\ q.kind = req[r].kind
      /\ q.state = req[r].state /\ q.code = req[r].code
      /\ q.id = req[r].id /\ q.user = req[r].user
      /\ q.link = req[r].link /\ q.account = account
  BY DEF Request
<1> HIDE DEF q
<1> USE DEF k
<1>10. /\ \A s \in State : StateRow(s) # k
       /\ \A i \in Identity : /\ AccountRow(i) = k <=> i = req[r].id
                              /\ CredentialRow(i) # k
  BY KeysDiffer
<1>11. account # None /\ lock[k] = None /\ row[k] = None
  <2>1. account # None
    BY <1>4, NoneAssumption
  <2>2. lock[k] # r
    BY <1>1, <1>2 DEF RequestOK, LocksOK, Holding
  <2>3. lock[k] = None
    BY <1>6, <2>2 DEF Written
  <2> QED BY <1>1, <1>5, <2>1, <2>3 DEF IInv, RowsOK
<1>12. \A s \in State :
          lock'[StateRow(s)] = r => draft'[StateRow(s)] \in Consumed
  BY <1>6, <1>10, Keys, NoneAssumption DEF IInv, StatesOK, Written
<1>13. ASSUME NEW i \in Identity PROVE AccountOK(i)'
  <2>1. CASE i # req[r].id
    BY <1>1, <1>6, <1>10, <2>1, Keys
      DEF IInv, AccountOK, GrantedTo, github, Written
  <2>2. CASE i = req[r].id
    <3> DEFINE c == CredentialRow(i)
    <3>1. AccountOK(i) /\ AccountRow(i) = k /\ c \in Key /\ c # k
      BY <1>10, <2>2, Keys DEF IInv
    <3>2. lock'[c] = lock[c] /\ draft'[c] = draft[c] /\ row' = row
          /\ grant' = grant
      BY <1>1, <1>6, <3>1 DEF Written, github
    <3>3. lock'[k] = r /\ draft'[k] = account /\ r # None
      BY <1>6, NoneAssumption DEF Written
    <3> HIDE DEF k, c
    <3>4. lock[c] = None \/ draft[c] = None
      BY <1>11, <3>1 DEF AccountOK, c
    <3> QED BY <1>11, <3>1, <3>2, <3>3, <3>4 DEF AccountOK, GrantedTo, c
  <2> QED BY <2>1, <2>2
<1>14. RequestOK(r, q, grant, info, lock', draft')
  <2>1. OnPath(q) /\ Knows(q) /\ CodeOK(q, grant, info)
    BY <1>1, <1>2, <1>4, <1>9 DEF RequestOK, OnPath, Knows, CodeOK, Holding
  <2>2. LocksOK(r, q, lock', draft')
    <3>1. q.kind = "callback" =>
            q.state \in State /\ lock[StateRow(q.state)] = r
      BY <1>1, <1>9 DEF RequestOK, Knows, LocksOK
    <3> QED BY <1>1, <1>6, <1>9, <1>10, <3>1, Keys
        DEF RequestOK, LocksOK, Holding, Written
  <2> QED BY <2>1, <2>2 DEF RequestOK
<1> HIDE DEF k
<1> QED
  BY <1>1, <1>3, <1>6, <1>8, <1>12, <1>13, <1>14, WriteStep DEF Written

LEMMA ScanStep ==
    ASSUME IInv, NEW r \in Req, Scan(r)
    PROVE  IInv'
<1> USE Known
<1> DEFINE olds == {x \in Identity \X Code :
              /\ row[CredentialRow(x[1])] = x[2]
              /\ \/ req[r].kind # "unlink" /\ x[1] = req[r].id
                 \/ req[r].kind = "unlink"
                    /\ row[AccountRow(x[1])].user = req[r].user}
           q == [req[r] EXCEPT !.pc = "deactivate", !.olds = olds]
<1>1. req[r].pc = "scan" /\ UNCHANGED <<now, info, github, parked, db>>
  BY DEF Scan
<1>2. req' = [req EXCEPT ![r] = q]
  BY DEF Scan, IInv, TypeOK
<1>3. olds \in SUBSET (Identity \X Code) /\ "deactivate" \in Steps
  BY DEF Steps
<1> HIDE DEF olds
<1>4. q \in Request
  BY <1>3 DEF Request
<1>5. /\ q.pc = "deactivate" /\ q.kind = req[r].kind
      /\ q.state = req[r].state /\ q.code = req[r].code
      /\ q.id = req[r].id /\ q.user = req[r].user
      /\ q.link = req[r].link /\ q.account = req[r].account
  BY DEF Request
<1> HIDE DEF q
<1>6. OnPath(q) /\ Knows(q) /\ CodeOK(q, grant, info)
  BY <1>1, <1>5 DEF RequestOK, OnPath, Knows, CodeOK, Holding
<1>7. LocksOK(r, q, lock, draft)
  BY <1>1, <1>5 DEF RequestOK, LocksOK, Holding
<1> QED BY <1>1, <1>2, <1>4, <1>6, <1>7, QuietStep DEF RequestOK

\* A credential that is deactivated is of no account that is about to go.
LEMMA DeactivateStep ==
    ASSUME IInv, NEW r \in Req, Deactivate(r)
    PROVE  IInv'
<1> USE Known
<1>1. PICK x \in req[r].olds :
        /\ Free(r, CredentialRow(x[1]))
        /\ IF draft[CredentialRow(x[1])] = x[2]
           THEN Write(r, CredentialRow(x[1]), None)
           ELSE UNCHANGED <<draft, lock>>
        /\ req' = [req EXCEPT ![r].olds = @ \ {x}]
  BY DEF Deactivate
<1> DEFINE olds == req[r].olds \ {x}
           q == [req[r] EXCEPT !.olds = olds]
           k == CredentialRow(x[1])
<1>2. /\ req[r].pc = "deactivate"
      /\ UNCHANGED <<now, info, github, parked, row, sessions>>
  BY DEF Deactivate
<1>3. req' = [req EXCEPT ![r] = q]
  BY <1>1 DEF IInv, TypeOK
<1>4. /\ req[r].olds \in SUBSET (Identity \X Code)
      /\ x[1] \in Identity /\ x[2] \in Code
  BY DEF Request
<1>5. olds \in SUBSET (Identity \X Code)
  BY <1>4
<1> HIDE DEF olds
<1>6. q \in Request
  BY <1>5 DEF Request
<1>7. /\ q.pc = "deactivate" /\ q.kind = req[r].kind
      /\ q.state = req[r].state /\ q.code = req[r].code
      /\ q.id = req[r].id /\ q.user = req[r].user
      /\ q.link = req[r].link /\ q.account = req[r].account
  BY <1>2 DEF Request
<1> HIDE DEF q
<1>8. OnPath(q) /\ Knows(q) /\ CodeOK(q, grant, info)
  BY <1>2, <1>7 DEF RequestOK, OnPath, Knows, CodeOK, Holding
<1>9. CASE draft[k] # x[2]
  <2>1. UNCHANGED <<now, info, github, parked, db>>
    BY <1>1, <1>2, <1>9 DEF db
  <2>2. LocksOK(r, q, lock, draft)
    BY <1>2, <1>7 DEF RequestOK, LocksOK, Holding
  <2> QED BY <1>3, <1>6, <1>8, <2>1, <2>2, QuietStep DEF RequestOK
<1>10. CASE draft[k] = x[2]
  <2>1. k \in Key /\ draft[k] # None
    BY <1>4, <1>10, Keys, NoneAssumption
  <2>2. Written(r, k, None)
    BY <1>1, <1>10, <2>1, WrittenOK
  <2>3. /\ \A s \in State : StateRow(s) # k
        /\ \A i \in Identity : /\ CredentialRow(i) = k <=> i = x[1]
                               /\ AccountRow(i) # k
    BY KeysDiffer
  <2>4. \A s \in State :
            lock'[StateRow(s)] = r => draft'[StateRow(s)] \in Consumed
    BY <2>2, <2>3, Keys, NoneAssumption DEF IInv, StatesOK, Written
  <2>5. ASSUME NEW i \in Identity PROVE AccountOK(i)'
    <3> DEFINE a == AccountRow(i)
    <3>1. AccountOK(i) /\ a \in Key /\ lock'[a] = lock[a]
          /\ draft'[a] = draft[a] /\ row' = row /\ grant' = grant
      BY <1>2, <2>2, <2>3, Keys DEF IInv, Written, github
    <3>2. CASE i # x[1]
      <4>1. lock'[CredentialRow(i)] = lock[CredentialRow(i)]
            /\ draft'[CredentialRow(i)] = draft[CredentialRow(i)]
        BY <2>2, <2>3, <3>2, Keys DEF Written
      <4> QED BY <3>1, <4>1 DEF AccountOK, GrantedTo
    <3>3. CASE i = x[1]
      <4>1. CredentialRow(i) = k /\ lock'[k] = r /\ draft'[k] = None
        BY <2>2, <3>3 DEF Written
      <4>2. lock[a] = None \/ draft[a] # None
        BY <2>1, <3>1, <4>1 DEF AccountOK
      <4> HIDE DEF k
      <4> QED BY <3>1, <4>1, <4>2 DEF AccountOK, GrantedTo
    <3> QED BY <3>2, <3>3
  <2>6. LocksOK(r, q, lock', draft')
    <3>1. q.kind = "callback" =>
            q.state \in State /\ lock[StateRow(q.state)] = r
      BY <1>2, <1>7 DEF RequestOK, Knows, LocksOK
    <3> QED BY <1>2, <1>7, <2>2, <2>3, <3>1, Keys
        DEF RequestOK, LocksOK, Holding, Written
  <2> HIDE DEF k
  <2> QED BY <1>2, <1>3, <1>6, <1>8, <2>2, <2>4, <2>5, <2>6, WriteStep
      DEF Written, RequestOK
<1> QED BY <1>9, <1>10

LEMMA DeactivatedStep ==
    ASSUME IInv, NEW r \in Req, Deactivated(r)
    PROVE  IInv'
<1> DEFINE to == IF req[r].kind = "unlink"
                 THEN "deleteAccount" ELSE "insertCredential"
<1>1. req[r].pc = "deactivate" /\ Goto(r, to)
      /\ UNCHANGED <<now, info, github, parked, db>>
  BY DEF Deactivated
<1>2. to \in Steps
  BY DEF Steps
<1> QED BY <1>1, <1>2, MoveStep

\* The new credential and the account it belongs to are now both r's.
LEMMA InsertCredentialStep ==
    ASSUME IInv, NEW r \in Req, InsertCredential(r)
    PROVE  IInv'
<1> USE Known
<1> DEFINE i == req[r].id
           a == AccountRow(i)
           c == CredentialRow(i)
           k == StateRow(req[r].state)
           to == IF req[r].kind = "link" THEN "dropPending" ELSE "commit"
           q == [req[r] EXCEPT !.pc = to]
<1>1. /\ req[r].pc = "insertCredential"
      /\ Free(r, a) /\ Free(r, c)
      /\ draft[c] = None /\ draft[a] = req[r].account
      /\ draft' = [x \in Key |->
            IF x = c THEN req[r].code
            ELSE IF x = k THEN "completed" ELSE draft[x]]
      /\ lock' = [x \in Key |-> IF x \in {c, a} THEN r ELSE lock[x]]
      /\ UNCHANGED <<now, info, github, parked, row, sessions>>
  BY DEF InsertCredential
<1>2. /\ req[r].kind \in {"callback", "link"} /\ i \in Identity
      /\ req[r].code \in Code /\ req[r].account \in Account
      /\ GrantedTo(grant, req[r].code, i)
      /\ req[r].kind = "callback" => req[r].state \in State /\ lock[k] = r
      /\ req[r].kind = "link" => req[r].state = None
  <2>1. req[r].kind \in {"callback", "link"}
    BY <1>1 DEF RequestOK, OnPath, Request
  <2> QED BY <1>1, <2>1 DEF RequestOK, Knows, CodeOK, LocksOK, Holding
<1>3. req' = [req EXCEPT ![r] = q]
  BY DEF InsertCredential, Goto, IInv, TypeOK
<1>4. to \in {"dropPending", "commit"}
      /\ (to = "dropPending" <=> req[r].kind = "link")
  OBVIOUS
<1> HIDE DEF to
<1>5. req[r] \in Request /\ to \in Steps
  BY <1>4 DEF Steps
<1>6. q \in Request
  BY <1>5 DEF Request
<1>7. /\ q.pc = to /\ q.kind = req[r].kind
      /\ q.state = req[r].state /\ q.code = req[r].code
      /\ q.id = i /\ q.user = req[r].user
      /\ q.link = req[r].link /\ q.account = req[r].account
  BY DEF Request
<1> HIDE DEF q
<1>8. /\ a \in Key /\ c \in Key /\ a # c /\ a # k /\ c # k
      /\ Value(c) = Code
      /\ k \in Key <=> req[r].state \in State
      /\ k \in Key => Value(k) = Stage /\ req[r].kind = "callback"
  BY <1>2, Keys, KeysDiffer, NoneAssumption
<1>9. /\ \A s \in State : StateRow(s) # a /\ StateRow(s) # c
      /\ \A s \in State : StateRow(s) = k <=> s = req[r].state
      /\ \A j \in Identity : /\ AccountRow(j) = a <=> j = i
                             /\ CredentialRow(j) = c <=> j = i
                             /\ AccountRow(j) # c /\ CredentialRow(j) # a
                             /\ AccountRow(j) # k /\ CredentialRow(j) # k
  BY KeysDiffer
<1>10. /\ DOMAIN draft' = Key /\ lock' \in [Key -> Req \cup {None}]
       /\ lock'[a] = r /\ lock'[c] = r
       /\ draft'[a] = req[r].account /\ draft'[c] = req[r].code
       /\ k \in Key => draft'[k] = "completed" /\ lock'[k] = r
       /\ \A x \in Key : x \notin {a, c} => lock'[x] = lock[x]
       /\ \A x \in Key : x \notin {a, c, k} => draft'[x] = draft[x]
  BY <1>1, <1>2, <1>8 DEF DbType
<1>11. lock[a] \in {None, r} /\ lock[c] \in {None, r}
  BY <1>1 DEF Free
<1>12. \A x \in Key :
           \/ lock'[x] = lock[x] /\ draft'[x] = draft[x]
           \/ /\ lock[x] \in {None, r} /\ lock'[x] = r
              /\ draft'[x] \in Value(x) \cup {None}
  <2>1. k \in Key => lock[k] = r /\ "completed" \in Value(k)
    BY <1>2, <1>8 DEF Stage
  <2>2. draft'[a] = draft[a] /\ draft'[a] \in Value(a) \cup {None}
    BY <1>1, <1>8, <1>10 DEF DbType
  <2> HIDE DEF a, c, k, i
  <2> QED BY <1>2, <1>8, <1>10, <1>11, <2>1, <2>2
<1>13. \A s \in State :
          lock'[StateRow(s)] = r => draft'[StateRow(s)] \in Consumed
  BY <1>9, <1>10, Keys, NoneAssumption DEF IInv, StatesOK, Consumed
<1>14. ASSUME NEW j \in Identity PROVE AccountOK(j)'
  <2>1. AccountOK(j) /\ row' = row /\ grant' = grant
    BY <1>1 DEF IInv, github
  <2>2. CASE j # i
    <3>1. /\ lock'[AccountRow(j)] = lock[AccountRow(j)]
          /\ draft'[AccountRow(j)] = draft[AccountRow(j)]
          /\ lock'[CredentialRow(j)] = lock[CredentialRow(j)]
          /\ draft'[CredentialRow(j)] = draft[CredentialRow(j)]
      BY <1>9, <1>10, <2>2, Keys
    <3> QED BY <2>1, <3>1 DEF AccountOK, GrantedTo
  <2>3. CASE j = i
    <3>1. AccountRow(j) = a /\ CredentialRow(j) = c
      BY <2>3
    <3>2. r # None /\ req[r].account # None
      BY <1>2, NoneAssumption
    <3>3. row[a] \in {None, req[r].account}
      BY <1>1, <1>8, <1>11, <2>1, <3>1, <3>2 DEF AccountOK, IInv, RowsOK
    <3>4. GrantedTo(grant, draft'[c], j)
      BY <1>2, <1>10, <2>3
    <3> HIDE DEF a, c, i
    <3> QED BY <1>10, <2>1, <3>1, <3>2, <3>3, <3>4 DEF AccountOK, GrantedTo
  <2> QED BY <2>2, <2>3
<1>15. RequestOK(r, q, grant, info, lock', draft')
  <2>1. OnPath(q) /\ Knows(q) /\ CodeOK(q, grant, info)
    BY <1>1, <1>2, <1>4, <1>7 DEF RequestOK, OnPath, Knows, CodeOK, Holding
  <2>2. LocksOK(r, q, lock', draft')
    BY <1>1, <1>2, <1>4, <1>7, <1>8, <1>9, <1>10, Keys
      DEF RequestOK, LocksOK, Holding
  <2> QED BY <2>1, <2>2 DEF RequestOK
<1> HIDE DEF a, c, k, i
<1> QED
  BY <1>1, <1>3, <1>6, <1>10, <1>12, <1>13, <1>14, <1>15, WriteStep

LEMMA DropPendingStep ==
    ASSUME IInv, NEW r \in Req, DropPending(r)
    PROVE  IInv'
<1> USE Known
<1> DEFINE q == [req[r] EXCEPT !.pc = "commit"]
<1>1. /\ req[r].pc = "dropPending"
      /\ parked' = [parked EXCEPT ![req[r].link] = None]
      /\ UNCHANGED <<now, info, grant>>
      /\ UNCHANGED <<row, draft, lock, sessions>>
  BY DEF DropPending, github, db
<1>2. req' = [req EXCEPT ![r] = q]
  BY DEF DropPending, Goto, IInv, TypeOK
<1>3. q \in Request
  BY DEF Request, Steps
<1>4. /\ q.pc = "commit" /\ q.kind = req[r].kind
      /\ q.state = req[r].state /\ q.code = req[r].code
      /\ q.id = req[r].id /\ q.user = req[r].user
      /\ q.link = req[r].link /\ q.account = req[r].account
  BY DEF Request
<1> HIDE DEF q
<1>5. parked' \in [Link -> Parked \cup {None}]
      /\ \A l \in Link : parked'[l] # None => parked'[l] = parked[l]
  BY <1>1 DEF OutsideType
<1>6. OutsideType' /\ DbType'
  BY <1>1, <1>5 DEF OutsideType, DbType
<1>7. Grows /\ \A s \in Req : KeptFor(s)
  BY <1>1 DEF Grows, KeptFor
<1>8. RowsOK' /\ StatesOK'
  BY <1>1 DEF IInv, RowsOK, StatesOK
<1>9. CodesOK'
  BY <1>1, <1>5 DEF IInv, CodesOK, GrantedTo
<1>10. \A i \in Identity : AccountOK(i)'
  BY <1>1 DEF IInv, AccountOK, GrantedTo
<1>11. RequestOK(r, q, grant', info', lock', draft')
  <2>1. OnPath(q) /\ Knows(q)
    BY <1>1, <1>4 DEF RequestOK, OnPath, Knows, Holding
  <2>2. CodeOK(q, grant', info')
    BY <1>1, <1>4 DEF RequestOK, CodeOK, GrantedTo
  <2>3. LocksOK(r, q, lock', draft')
    BY <1>1, <1>4 DEF RequestOK, OnPath, LocksOK, Holding
  <2> QED BY <2>1, <2>2, <2>3 DEF RequestOK
<1> QED
  BY <1>2, <1>3, <1>6, <1>7, <1>8, <1>9, <1>10, <1>11, OneRequest

\* The account goes with its credential.
LEMMA DeleteAccountStep ==
    ASSUME IInv, NEW r \in Req, DeleteAccount(r)
    PROVE  IInv'
<1> USE Known
<1> DEFINE i == req[r].id
           a == AccountRow(i)
           c == CredentialRow(i)
           q == [req[r] EXCEPT !.pc = "commit"]
<1>1. /\ req[r].pc = "deleteAccount" /\ Free(r, a) /\ Free(r, c)
      /\ draft' = [x \in Key |-> IF x \in {c, a} THEN None ELSE draft[x]]
      /\ lock' = [x \in Key |-> IF x \in {c, a} THEN r ELSE lock[x]]
      /\ UNCHANGED <<now, info, github, parked, row, sessions>>
  BY DEF DeleteAccount
<1>2. req[r].kind = "unlink" /\ i \in Identity
  BY <1>1 DEF RequestOK, OnPath, Knows
<1>3. req' = [req EXCEPT ![r] = q]
  BY DEF DeleteAccount, Goto, IInv, TypeOK
<1>4. q \in Request
  BY DEF Request, Steps
<1>5. /\ q.pc = "commit" /\ q.kind = req[r].kind
      /\ q.state = req[r].state /\ q.code = req[r].code
      /\ q.id = i /\ q.user = req[r].user
      /\ q.link = req[r].link /\ q.account = req[r].account
  BY DEF Request
<1> HIDE DEF q
<1>6. a \in Key /\ c \in Key /\ a # c
  BY <1>2, Keys, KeysDiffer
<1>7. /\ \A s \in State : StateRow(s) # a /\ StateRow(s) # c
      /\ \A j \in Identity : /\ AccountRow(j) = a <=> j = i
                             /\ CredentialRow(j) = c <=> j = i
                             /\ AccountRow(j) # c /\ CredentialRow(j) # a
  BY KeysDiffer
<1>8. /\ DOMAIN draft' = Key /\ lock' \in [Key -> Req \cup {None}]
      /\ lock'[a] = r /\ lock'[c] = r
      /\ draft'[a] = None /\ draft'[c] = None
      /\ \A x \in Key : x \notin {a, c} =>
            lock'[x] = lock[x] /\ draft'[x] = draft[x]
  BY <1>1, <1>6 DEF DbType
<1>9. lock[a] \in {None, r} /\ lock[c] \in {None, r}
  BY <1>1 DEF Free
<1>10. \A x \in Key :
           \/ lock'[x] = lock[x] /\ draft'[x] = draft[x]
           \/ /\ lock[x] \in {None, r} /\ lock'[x] = r
              /\ draft'[x] \in Value(x) \cup {None}
  <2> HIDE DEF a, c
  <2> QED BY <1>6, <1>8, <1>9
<1>11. \A s \in State :
          lock'[StateRow(s)] = r => draft'[StateRow(s)] \in Consumed
  BY <1>7, <1>8, Keys, NoneAssumption DEF IInv, StatesOK, Consumed
<1>12. ASSUME NEW j \in Identity PROVE AccountOK(j)'
  <2>1. AccountOK(j) /\ row' = row /\ grant' = grant
    BY <1>1 DEF IInv, github
  <2>2. CASE j # i
    <3>1. /\ lock'[AccountRow(j)] = lock[AccountRow(j)]
          /\ draft'[AccountRow(j)] = draft[AccountRow(j)]
          /\ lock'[CredentialRow(j)] = lock[CredentialRow(j)]
          /\ draft'[CredentialRow(j)] = draft[CredentialRow(j)]
      BY <1>7, <1>8, <2>2, Keys
    <3> QED BY <2>1, <3>1 DEF AccountOK, GrantedTo
  <2>3. CASE j = i
    <3>1. AccountRow(j) = a /\ CredentialRow(j) = c
      BY <2>3
    <3> HIDE DEF a, c, i
    <3> QED BY <1>8, <2>1, <3>1 DEF AccountOK, GrantedTo
  <2> QED BY <2>2, <2>3
<1>13. RequestOK(r, q, grant, info, lock', draft')
  <2>1. OnPath(q) /\ Knows(q) /\ CodeOK(q, grant, info)
    BY <1>1, <1>2, <1>5 DEF RequestOK, OnPath, Knows, CodeOK, Holding
  <2>2. LocksOK(r, q, lock', draft')
    BY <1>1, <1>2, <1>5, <1>6, <1>7, <1>8, Keys
      DEF RequestOK, LocksOK, Holding
  <2> QED BY <2>1, <2>2 DEF RequestOK
<1> HIDE DEF a, c, i
<1> QED
  BY <1>1, <1>3, <1>4, <1>8, <1>10, <1>11, <1>12, <1>13, WriteStep

\* What r held is what is committed.
LEMMA CommitStep ==
    ASSUME IInv, NEW r \in Req, Commit(r)
    PROVE  IInv'
<1> USE Known
<1> DEFINE signIn == [state |-> req[r].state, code |-> req[r].code,
                      id |-> req[r].id, user |-> req[r].user]
<1>1. /\ req[r].pc = "commit"
      /\ row' = [k \in Key |-> IF lock[k] = r THEN draft[k] ELSE row[k]]
      /\ lock' = [k \in Key |-> IF lock[k] = r THEN None ELSE lock[k]]
      /\ sessions' = sessions \cup
            IF req[r].kind = "callback" THEN {signIn} ELSE {}
      /\ req' = [req EXCEPT ![r] = Idle]
      /\ UNCHANGED <<now, info, grant, parked, draft>>
  BY DEF Commit, Release, Forget, github
<1>2. req[r].kind = "callback" =>
        /\ req[r].state \in State /\ req[r].code \in Code
        /\ req[r].id \in Identity /\ req[r].user \in User
        /\ info[req[r].state] # None /\ lock[StateRow(req[r].state)] = r
  BY <1>1 DEF RequestOK, Knows, CodeOK, LocksOK, Holding
<1>3. /\ req[r].kind = "callback" => signIn \in SignIn
      /\ signIn.state = req[r].state
  BY <1>2 DEF SignIn
<1> HIDE DEF signIn
<1>4. r # None /\ Idle \in Request
  BY NoneAssumption DEF Idle, Request, Steps
<1>5. OutsideType'
  BY <1>1 DEF OutsideType
<1>6. DbType'
  BY <1>1, <1>3 DEF DbType
<1>7. Grows /\ \A s \in Req : s # r => KeptFor(s)
  BY <1>1, NoneAssumption DEF Grows, KeptFor
<1>8. RowsOK'
  BY <1>1 DEF IInv, RowsOK
<1>9. StatesOK'
  <2>1. StatesOK /\ \A s \in State : StateRow(s) \in Key
    BY Keys DEF IInv
  <2>2. ASSUME NEW s \in State
        PROVE  lock'[StateRow(s)] # None => draft'[StateRow(s)] \in Consumed
    BY <1>1, <1>4, <2>1 DEF StatesOK
  <2>3. ASSUME NEW x \in sessions'
        PROVE  info'[x.state] # None /\ row'[StateRow(x.state)] \in Consumed
    <3>1. CASE x \in sessions
      <4>1. x.state \in State
        BY <3>1 DEF DbType, SignIn
      <4> QED BY <1>1, <1>4, <2>1, <3>1, <4>1 DEF StatesOK
    <3>2. CASE req[r].kind = "callback" /\ x = signIn
      BY <1>1, <1>2, <1>3, <1>4, <2>1, <3>2 DEF StatesOK
    <3> QED BY <1>1, <3>1, <3>2
  <2> QED BY <2>2, <2>3 DEF StatesOK
<1>10. CodesOK'
  BY <1>1 DEF IInv, CodesOK, GrantedTo
<1>11. ASSUME NEW i \in Identity PROVE AccountOK(i)'
  <2> DEFINE a == AccountRow(i)
             c == CredentialRow(i)
  <2>1. a \in Key /\ c \in Key
    BY Keys
  <2>2. AccountOK(i)
    BY DEF IInv
  <2>3. /\ lock'[a] = (IF lock[a] = r THEN None ELSE lock[a])
        /\ lock'[c] = (IF lock[c] = r THEN None ELSE lock[c])
        /\ row'[a] = (IF lock[a] = r THEN draft[a] ELSE row[a])
        /\ row'[c] = (IF lock[c] = r THEN draft[c] ELSE row[c])
    BY <1>1, <2>1
  <2> QED BY <1>1, <1>4, <2>2, <2>3 DEF AccountOK, GrantedTo
<1>12. RequestOK(r, Idle, grant', info', lock', draft')
  <2>1. \A k \in Key : lock'[k] # r
    BY <1>1, <1>4
  <2> QED
    BY <2>1, Keys DEF RequestOK, OnPath, Knows, CodeOK, LocksOK, Idle, Holding
<1> QED
  BY <1>1, <1>4, <1>5, <1>6, <1>7, <1>8, <1>9, <1>10, <1>11, <1>12, OneRequest

LEMMA FailStep ==
    ASSUME IInv, NEW r \in Req, Fail(r)
    PROVE  IInv'
<1>1. /\ Rollback(r) /\ Forget(r)
      /\ UNCHANGED <<now, info, github>> /\ parked' = parked
  BY DEF Fail
<1> QED BY <1>1, Known, RollbackStep DEF OutsideType, IInv, CodesOK

LEMMA RequestSteps ==
    ASSUME IInv, NEW r \in Req, Step(r)
    PROVE  IInv'
BY CallbackStep, LoadStep, ConsumeStep, ExchangeStep, IdentifyStep,
   CandidateStep, InsertUserStep, InsertAccountStep, ScanStep, DeactivateStep,
   DeactivatedStep, InsertCredentialStep, CompleteLinkStep, GetPendingStep,
   CheckExistingStep, DropPendingStep, UnlinkStep, DeleteAccountStep,
   CommitStep, FailStep DEF Step

\* A step of no request, whose rows no request holds.
LEMMA OutsideSteps ==
    ASSUME IInv, OutsideType', DbType', UNCHANGED <<lock, req>>,
           Grows, \A s \in Req : KeptFor(s),
           RowsOK', StatesOK', CodesOK',
           \A i \in Identity : AccountOK(i)'
    PROVE  IInv'
<1>1. TypeOK'
  BY DEF TypeOK, OutsideType, DbType, IInv
<1>2. ASSUME NEW s \in Req
      PROVE  RequestOK(s, req[s], grant, info, lock, draft)'
  <2>1. RequestOK(s, req[s], grant', info', lock', draft')
    BY Undisturbed
  <2> QED BY <2>1 DEF RequestOK, OnPath, Knows, CodeOK, LocksOK, GrantedTo
<1> QED BY <1>1, <1>2 DEF IInv

\* Nobody holds the row of a state that nobody was told of.
LEMMA BeginStep ==
    ASSUME IInv, NEW s \in State, Begin(s)
    PROVE  IInv'
<1> DEFINE k == StateRow(s)
<1>1. PICK u \in User \cup {None} :
        info' = [info EXCEPT ![s] = [until |-> now + StateTTL, linkTo |-> u]]
  BY DEF Begin
<1> DEFINE new == [until |-> now + StateTTL, linkTo |-> u]
<1>2. /\ info[s] = None /\ info' = [info EXCEPT ![s] = new]
      /\ row' = [row EXCEPT ![k] = "initiated"]
      /\ draft' = [draft EXCEPT ![k] = "initiated"]
      /\ UNCHANGED <<now, grant, parked, lock, sessions, req>>
  BY <1>1 DEF Begin
<1>3. OutsideType /\ DbType
  BY DEF IInv, TypeOK, OutsideType, DbType
<1>4. new \in Info /\ new # None
  <2>1. new \in Info
    BY <1>3, TimesAssumption DEF OutsideType, Info
  <2> QED BY <2>1, NoneAssumption
<1> HIDE DEF new
<1>5. k \in Key /\ Value(k) = Stage
  BY Keys
<1>6. lock[k] = None
  <2> SUFFICES ASSUME NEW r \in Req, lock[k] = r PROVE FALSE
    BY <1>3, <1>5 DEF DbType
  <2>1. RequestOK(r, req[r], grant, info, lock, draft)
    BY DEF IInv
  <2>2. s = req[r].state
    BY <2>1 DEF RequestOK, LocksOK
  <2>3. req[r].kind = "callback"
    BY <2>1, <2>2, NoneAssumption DEF RequestOK, Knows
  <2> QED BY <1>2, <2>1, <2>2, <2>3 DEF RequestOK, CodeOK
<1>7. /\ \A t \in State : StateRow(t) = k <=> t = s
      /\ \A i \in Identity : AccountRow(i) # k /\ CredentialRow(i) # k
  BY KeysDiffer
<1>8. /\ DOMAIN row' = Key /\ DOMAIN draft' = Key
      /\ row'[k] = "initiated" /\ draft'[k] = "initiated"
      /\ \A j \in Key : j # k => row'[j] = row[j] /\ draft'[j] = draft[j]
  BY <1>2, <1>3, <1>5 DEF DbType
<1>9. OutsideType'
  BY <1>2, <1>3, <1>4 DEF OutsideType
<1>10. DbType'
  BY <1>2, <1>3, <1>5, <1>8 DEF DbType, Stage
<1> HIDE DEF k
<1>11. Grows
  BY <1>2, <1>3, <1>4 DEF Grows, OutsideType
<1>12. \A q \in Req : KeptFor(q)
  BY <1>2, <1>6, <1>8, NoneAssumption DEF KeptFor
<1>13. RowsOK'
  BY <1>2, <1>8 DEF IInv, RowsOK
<1>14. StatesOK'
  <2>1. \A x \in sessions : x.state \in State /\ x.state # s
    BY <1>2, <1>3 DEF IInv, StatesOK, DbType, SignIn
  <2> QED BY <1>2, <1>3, <1>4, <1>6, <1>7, <1>8, <2>1, Keys
      DEF IInv, StatesOK, OutsideType
<1>15. CodesOK'
  <2>1. \A c \in Code : grant[c] # None => grant[c].state \in State
    BY <1>3 DEF OutsideType, Grant
  <2> QED BY <1>2, <1>3, <1>4, <2>1 DEF IInv, CodesOK, GrantedTo, OutsideType
<1>16. \A i \in Identity : AccountOK(i)'
  BY <1>2, <1>7, <1>8, Keys DEF IInv, AccountOK, GrantedTo
<1> QED
  BY <1>2, <1>9, <1>10, <1>11, <1>12, <1>13, <1>14, <1>15, <1>16, OutsideSteps

LEMMA RegisterStep ==
    ASSUME IInv, NEW u \in User, NEW i \in Identity, Register(u, i)
    PROVE  IInv'
<1> DEFINE k == UserRow(u)
           person == [mail |-> i, password |-> TRUE]
<1>1. /\ draft[k] = None
      /\ row' = [row EXCEPT ![k] = person]
      /\ draft' = [draft EXCEPT ![k] = person]
      /\ UNCHANGED <<now, info, grant, parked, lock, sessions, req>>
  BY DEF Register
<1>2. OutsideType /\ DbType
  BY DEF IInv, TypeOK, OutsideType, DbType
<1>3. k \in Key /\ person \in Value(k)
  BY Keys DEF Person
<1> HIDE DEF person
<1>4. /\ \A s \in State : StateRow(s) # k
      /\ \A j \in Identity : AccountRow(j) # k /\ CredentialRow(j) # k
  BY KeysDiffer
<1>5. /\ DOMAIN row' = Key /\ DOMAIN draft' = Key
      /\ row'[k] = person /\ draft'[k] = person
      /\ \A j \in Key : j # k => row'[j] = row[j] /\ draft'[j] = draft[j]
  BY <1>1, <1>2, <1>3 DEF DbType
<1>6. OutsideType' /\ DbType'
  BY <1>1, <1>2, <1>3, <1>5 DEF OutsideType, DbType
<1> HIDE DEF k
<1>7. RowsOK'
  BY <1>1, <1>5 DEF IInv, RowsOK
<1>8. StatesOK'
  <2>1. \A x \in sessions : x.state \in State
    BY <1>2 DEF DbType, SignIn
  <2> QED BY <1>1, <1>4, <1>5, <2>1, Keys DEF IInv, StatesOK
<1>9. CodesOK'
  BY <1>1 DEF IInv, CodesOK, GrantedTo
<1>10. \A j \in Identity : AccountOK(j)'
  BY <1>1, <1>4, <1>5, Keys DEF IInv, AccountOK, GrantedTo
<1>11. ASSUME NEW s \in Req
       PROVE  RequestOK(s, req[s], grant, info, lock, draft)'
  <2>1. RequestOK(s, req[s], grant, info, lock, draft)
    BY DEF IInv
  <2>2. LocksOK(s, req[s], lock, draft')
    <3>1. OnPath(req[s]) /\ Knows(req[s]) /\ LocksOK(s, req[s], lock, draft)
      BY <2>1 DEF RequestOK
    <3>2. req[s].pc \in {"dropPending", "commit"} => req[s].id \in Identity
      BY <3>1 DEF Knows
    <3> QED BY <1>4, <1>5, <3>1, <3>2, Keys DEF LocksOK
  <2> QED BY <1>1, <2>1, <2>2
      DEF RequestOK, OnPath, Knows, CodeOK, LocksOK, GrantedTo
<1>12. TypeOK'
  BY <1>1, <1>6 DEF TypeOK, OutsideType, DbType, IInv
<1> QED BY <1>7, <1>8, <1>9, <1>10, <1>11, <1>12 DEF IInv

LEMMA AuthorizeStep ==
    ASSUME IInv, NEW c \in Code, NEW s \in State, NEW i \in Identity,
           Authorize(c, s, i)
    PROVE  IInv'
<1> DEFINE new == [state |-> s, id |-> i, used |-> FALSE]
<1>1. /\ grant[c] = None /\ info[s] # None
      /\ grant' = [grant EXCEPT ![c] = new]
      /\ UNCHANGED <<now, info, parked, req>>
      /\ UNCHANGED <<row, draft, lock, sessions>>
  BY DEF Authorize, db
<1>2. OutsideType /\ DbType
  BY DEF IInv, TypeOK, OutsideType, DbType
<1>3. new \in Grant /\ new.state = s
  BY DEF Grant
<1> HIDE DEF new
<1>4. new # None
  BY <1>3, NoneAssumption
<1>5. /\ \A x \in Code : x # c => grant'[x] = grant[x]
      /\ grant'[c] = new /\ grant' \in [Code -> Grant \cup {None}]
  BY <1>1, <1>2, <1>3 DEF OutsideType
<1>6. OutsideType' /\ DbType'
  BY <1>1, <1>2, <1>5 DEF OutsideType, DbType
<1>7. \A x \in Code, j \in Identity :
          GrantedTo(grant, x, j) => GrantedTo(grant', x, j)
  BY <1>1, <1>5 DEF GrantedTo
<1>8. Grows /\ \A r \in Req : KeptFor(r)
  BY <1>1, <1>5 DEF Grows, KeptFor
<1>9. RowsOK' /\ StatesOK'
  BY <1>1 DEF IInv, RowsOK, StatesOK
<1>10. CodesOK'
  <2>1. ASSUME NEW x \in Code, grant'[x] # None
        PROVE  info'[grant'[x].state] # None
    BY <1>1, <1>3, <1>5, <2>1 DEF IInv, CodesOK
  <2>2. ASSUME NEW l \in Link, parked'[l] # None
        PROVE  GrantedTo(grant', parked'[l].code, parked'[l].id)
    <3>1. parked[l] \in Parked
      BY <1>1, <1>2, <2>2 DEF OutsideType
    <3> QED BY <1>1, <1>7, <2>2, <3>1 DEF IInv, CodesOK, Parked
  <2> QED BY <2>1, <2>2 DEF CodesOK, GrantedTo
<1>11. ASSUME NEW j \in Identity PROVE AccountOK(j)'
  <2>1. {row[CredentialRow(j)], draft[CredentialRow(j)]}
            \subseteq Code \cup {None}
    BY <1>2, Keys DEF DbType
  <2> QED BY <1>1, <1>7, <2>1 DEF IInv, AccountOK, GrantedTo
<1> QED BY <1>1, <1>6, <1>8, <1>9, <1>10, <1>11, OutsideSteps

LEMMA TickStep ==
    ASSUME IInv, Tick
    PROVE  IInv'
<1>1. /\ UNCHANGED <<info, grant, parked, req>>
      /\ UNCHANGED <<row, draft, lock, sessions>> /\ now' = now + 1
  BY DEF Tick, github, db
<1>2. OutsideType' /\ DbType'
  BY <1>1 DEF IInv, TypeOK, OutsideType, DbType
<1>3. Grows /\ \A r \in Req : KeptFor(r)
  BY <1>1 DEF Grows, KeptFor
<1>4. RowsOK' /\ StatesOK' /\ CodesOK'
  BY <1>1 DEF IInv, RowsOK, StatesOK, CodesOK, GrantedTo
<1>5. \A i \in Identity : AccountOK(i)'
  BY <1>1 DEF IInv, AccountOK, GrantedTo
<1> QED BY <1>1, <1>2, <1>3, <1>4, <1>5, OutsideSteps

LEMMA NextKeeps == IInv /\ [Next]_vars => IInv'
<1>1. ASSUME IInv, UNCHANGED vars PROVE IInv'
  <2>1. /\ UNCHANGED <<now, info, grant, parked, req>>
        /\ UNCHANGED <<row, draft, lock, sessions>>
    BY <1>1 DEF vars
  <2>2. OutsideType' /\ DbType'
    BY <1>1, <2>1 DEF IInv, TypeOK, OutsideType, DbType
  <2>3. Grows /\ \A r \in Req : KeptFor(r)
    BY <2>1 DEF Grows, KeptFor
  <2>4. RowsOK' /\ StatesOK' /\ CodesOK'
    BY <1>1, <2>1 DEF IInv, RowsOK, StatesOK, CodesOK, GrantedTo
  <2>5. \A i \in Identity : AccountOK(i)'
    BY <1>1, <2>1 DEF IInv, AccountOK, GrantedTo
  <2> QED BY <1>1, <2>1, <2>2, <2>3, <2>4, <2>5, OutsideSteps
<1>2. ASSUME IInv, Next PROVE IInv'
  BY <1>2, TickStep, BeginStep, RegisterStep, AuthorizeStep, RequestSteps
    DEF Next
<1> QED BY <1>1, <1>2

\* IInv is an invariant of sign-in with GitHub.
THEOREM Invariance == Spec => []IInv
BY InitOK, NextKeeps, PTL DEF Spec

-----------------------------------------------------------------------------
(* The theorems *)

\* Every variable keeps its type: OAuthService and the /oauth endpoints.
THEOREM TypeCorrect == Spec => []TypeOK
<1>1. IInv => TypeOK
  BY DEF IInv
<1> QED BY <1>1, Invariance, PTL

\* A committed credential has its account, and was granted by the account's
\* identity: store_credential's foreign key and unlink_github's cascade.
THEOREM CredentialsAreTheirs == Spec => []CredentialOfIdentity
<1>1. IInv => CredentialOfIdentity
  BY DEF IInv, CredentialOfIdentity, AccountOK, GrantedTo
<1> QED BY <1>1, Invariance, PTL


\* Only a commit signs somebody in, or changes the committed accounts.
LEMMA CommitsOnly ==
    ASSUME IInv, [Next]_vars
    PROVE  \/ \E r \in Req : Commit(r)
           \/ /\ sessions' = sessions
              /\ \A i \in Identity : row'[AccountRow(i)] = row[AccountRow(i)]
<1>1. ASSUME NEW r \in Req, Step(r)
      PROVE  Commit(r) \/ UNCHANGED <<row, sessions>>
  BY <1>1
    DEF Step, Callback, Load, Consume, Exchange, Identify, Candidate,
      InsertUser, InsertAccount, Scan, Deactivate, Deactivated,
      InsertCredential, CompleteLink, GetPending, CheckExisting, DropPending,
      Unlink, DeleteAccount, Fail, Rollback, db
<1>2. ASSUME NEW s \in State, Begin(s)
      PROVE  sessions' = sessions
             /\ \A i \in Identity : row'[AccountRow(i)] = row[AccountRow(i)]
  BY <1>2, Keys, KeysDiffer DEF Begin, IInv, TypeOK
<1>3. ASSUME NEW u \in User, NEW i \in Identity, Register(u, i)
      PROVE  sessions' = sessions
             /\ \A j \in Identity : row'[AccountRow(j)] = row[AccountRow(j)]
  BY <1>3, Keys, KeysDiffer DEF Register, IInv, TypeOK
<1>4. ASSUME Tick \/ UNCHANGED vars
             \/ \E c \in Code, s \in State, i \in Identity :
                    Authorize(c, s, i)
      PROVE  UNCHANGED <<row, sessions>>
  BY <1>4 DEF Tick, vars, Authorize, db
<1> QED BY <1>1, <1>2, <1>3, <1>4 DEF Next

\* Whoever is signed in owns the identity at that instant: the foreign key
\* makes the callback's transaction hold the account it was told of.
THEOREM SignInsAreOwned == Spec => SignedInOwnsIdentity
<1>1. ASSUME IInv, [Next]_vars, NEW x \in sessions' \ sessions
      PROVE  /\ row'[AccountRow(x.id)] # None
             /\ row'[AccountRow(x.id)].user = x.user
             /\ row'[CredentialRow(x.id)] = x.code
  <2>1. PICK r \in Req : Commit(r)
    BY <1>1, CommitsOnly
  <2> DEFINE q == req[r]
  <2>2. /\ q.pc = "commit" /\ q.kind = "callback"
        /\ x.code = q.code /\ x.id = q.id /\ x.user = q.user
        /\ row' = [k \in Key |-> IF lock[k] = r THEN draft[k] ELSE row[k]]
    BY <1>1, <2>1 DEF Commit
  <2>3. RequestOK(r, q, grant, info, lock, draft)
    BY <1>1, Known
  <2>4. /\ q.id \in Identity /\ q.account \in Account
        /\ q.account.user = q.user
        /\ lock[AccountRow(q.id)] = r /\ draft[AccountRow(q.id)] = q.account
        /\ lock[CredentialRow(q.id)] = r
        /\ draft[CredentialRow(q.id)] = q.code
    BY <2>2, <2>3 DEF RequestOK, Knows, LocksOK, Holding
  <2>5. q.account # None
    BY <2>4, NoneAssumption
  <2> QED BY <2>2, <2>4, <2>5, Keys
<1>2. IInv /\ [Next]_vars =>
        [\A x \in sessions' \ sessions :
            /\ row'[AccountRow(x.id)] # None
            /\ row'[AccountRow(x.id)].user = x.user
            /\ row'[CredentialRow(x.id)] = x.code]_vars
  BY <1>1
<1> QED BY <1>2, Invariance, PTL DEF Spec, SignedInOwnsIdentity

\* The state of a sign-in is refused from then on: _load_state finds it
\* consumed, though begin's row is never deleted.
THEOREM ReplaysAreRefused == Spec => ReplayRefused
<1>1. ASSUME IInv, [Next]_vars, NEW r \in Req,
             req[r].pc = "load", req'[r].pc = "consume", NEW x \in sessions
      PROVE  x.state # req[r].state
  <2>1. PICK s \in Req : Step(s)
    BY <1>1 DEF Next, Tick, Begin, Register, Authorize, vars
  <2>2. s = r
    BY <1>1, <2>1
      DEF Step, Callback, Load, Consume, Exchange, Identify, Candidate,
        InsertUser, InsertAccount, Scan, Deactivate, Deactivated,
        InsertCredential, CompleteLink, GetPending, CheckExisting,
        DropPending, Unlink, DeleteAccount, Commit, Fail, Forget, Goto, IInv,
        TypeOK
  <2>3. Load(r) \/ Fail(r)
    BY <1>1, <2>1, <2>2
      DEF Step, Callback, Consume, Exchange, Identify, Candidate,
        InsertUser, InsertAccount, Scan, Deactivate, Deactivated,
        InsertCredential, CompleteLink, GetPending, CheckExisting,
        DropPending, Unlink, DeleteAccount, Commit
  <2>4. ~Forget(r)
    BY <1>1 DEF Forget, Idle, IInv, TypeOK
  <2>5. row[StateRow(req[r].state)] = "initiated"
    BY <2>3, <2>4 DEF Load, Fail
  <2>6. row[StateRow(x.state)] \in Consumed
    BY <1>1 DEF IInv, StatesOK
  <2> QED BY <2>5, <2>6 DEF Consumed
<1>2. IInv /\ [Next]_vars =>
        [\A r \in Req :
            req[r].pc = "load" /\ req'[r].pc = "consume" =>
                \A x \in sessions : x.state # req[r].state]_vars
  BY <1>1
<1> QED BY <1>2, Invariance, PTL DEF Spec, ReplayRefused

\* The committed accounts follow IdentityOwnership: a commit changes one at
\* most, and replaces none.
THEOREM OwnershipImplemented == Spec => ImplementsOwnership
<1>1. Init => Ownership!Init
  BY Keys DEF Init, Ownership!Init, Owner
<1>2. IInv /\ [Next]_vars => [Ownership!Next]_Owner
  <2> SUFFICES ASSUME IInv, [Next]_vars, Owner' # Owner
               PROVE  Ownership!Next
    OBVIOUS
  <2>1. PICK r \in Req : Commit(r)
    BY CommitsOnly DEF Owner
  <2> DEFINE i == req[r].id
             a == AccountRow(i)
  <2>2. RequestOK(r, req[r], grant, info, lock, draft)
        /\ DbType
    BY Known
  <2>3. i \in Identity
    BY <2>1, <2>2 DEF Commit, RequestOK, Knows
  <2>4. row' = [k \in Key |-> IF lock[k] = r THEN draft[k] ELSE row[k]]
    BY <2>1 DEF Commit
  <2>5. \A j \in Identity :
            j # i => row'[AccountRow(j)] = row[AccountRow(j)]
    BY <2>2, <2>4, Keys DEF RequestOK, LocksOK
  <2>6. Owner' = [Owner EXCEPT ![i] =
            IF row'[a] = None THEN None ELSE row'[a].user]
    BY <2>3, <2>5 DEF Owner
  <2>7. lock[a] = r /\ row'[a] = draft[a] /\ row'[a] # row[a]
    <3>1. row'[a] # row[a]
      BY <2>3, <2>5 DEF Owner
    <3> QED BY <2>3, <2>4, <3>1, Keys
  <2>8. /\ row[a] \in Account \cup {None} /\ row'[a] \in Account \cup {None}
        /\ row'[a] # None => row[a] = None
    <3>1. {row[a], draft[a]} \subseteq Account \cup {None}
      BY <2>2, <2>3, Keys DEF DbType
    <3>2. lock[a] # None /\ draft[a] # None => row[a] \in {None, draft[a]}
      BY <2>3 DEF IInv, AccountOK
    <3>3. r # None
      BY NoneAssumption
    <3> QED BY <2>7, <3>1, <3>2, <3>3
  <2>9. Owner[i] = IF row[a] = None THEN None ELSE row[a].user
    BY <2>3 DEF Owner
  <2> HIDE DEF a
  <2>10. CASE row'[a] # None
    <3>1. row[a] = None /\ row'[a].user \in User
      BY <2>8, <2>10 DEF Account
    <3>2. Ownership!Attach(i, row'[a].user)
      BY <2>6, <2>9, <2>10, <3>1 DEF Ownership!Attach
    <3> QED BY <2>3, <3>1, <3>2 DEF Ownership!Next
  <2>11. CASE row'[a] = None
    <3>1. row[a] # None /\ row[a].user \in User
      BY <2>7, <2>8, <2>11 DEF Account
    <3>2. row[a].user # None
      BY <3>1, NoneAssumption
    <3>3. Ownership!Detach(i)
      BY <2>6, <2>9, <2>11, <3>1, <3>2 DEF Ownership!Detach
    <3> QED BY <2>3, <3>3 DEF Ownership!Next
  <2> QED BY <2>10, <2>11
<1> QED
  BY <1>1, <1>2, Invariance, PTL
  DEF Spec, ImplementsOwnership, Ownership!Spec
=============================================================================
