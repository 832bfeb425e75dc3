------------------------- MODULE ContributionsProofs -------------------------
(***************************************************************************)
(* Theorems about Contributions, for any days, windows, workers, labels    *)
(* and requests.                                                           *)
(*                                                                         *)
(* That a refresh loses no day is not inductive: the refresh deletes first *)
(* and the row is missing from its transaction until the flush.  IInv says *)
(* that a day missing there is still to be written, and that a day the     *)
(* refresh relies on another transaction for stays committed while the     *)
(* account is linked.                                                      *)
(***************************************************************************)
EXTENDS Contributions, TLAPS

-----------------------------------------------------------------------------
(* The inductive invariant *)

\* A row without a lock has one version.
DbOK == \A d \in Day : lock[d] = None => draft[d] = row[d]

\* A request locks days of its window only, and none before its DELETE.
LocksOK(r) ==
    \A d \in Day : lock[d] = r =>
        req[r].pc \notin {"idle", "hasYear", "delete"} /\ d \in Days(r)

\* Days of the window are left to visit, and only while a DELETE or a flush
\* runs.
TodoOK(r) ==
    /\ req[r].pc \notin {"deleting", "flush"} => req[r].todo = {}
    /\ req[r].pc \in {"deleting", "flush"} => req[r].todo \subseteq Days(r)

\* Request r saw no row for day d and has still to insert one.
Due(r, d) == d \in req[r].todo /\ req[r].seen[d] = None

\* While the account is linked, a day that is missing for a request that
\* writes, or is about to commit, is one it has still to insert: the row of a
\* day that it updates may be another one by then, but the day has a row.
Whole(r) ==
    linked /\ req[r].pc \in {"flush", "commit"} =>
        \A d \in Days(r) : Due(r, d) \/ View(r, d) # None

RequestOK(r) ==
    /\ req[r].pc # "idle" => req[r].key \in Key
    /\ req[r].pc \in {"put", "select", "flush"} => req[r].ver \in Nat
    /\ LocksOK(r)
    /\ TodoOK(r)
    /\ Whole(r)

IInv ==
    /\ TypeOK
    /\ DbOK
    /\ \A r \in Req : RequestOK(r)

\* What a step of r leaves to another request: its own state, the rows it has
\* locked, and the days that are committed.
Kept(r) ==
    /\ linked' => linked
    /\ \A q \in Req \ {r} : req'[q] = req[q]
    /\ \A d \in Day : \A q \in Req \ {r} :
          /\ lock'[d] = q <=> lock[d] = q
          /\ lock[d] = q => draft'[d] = draft[d]
    /\ \A d \in Day : linked /\ row[d] # None => row'[d] # None

-----------------------------------------------------------------------------
(* Lemmas *)

\* The days of a request are days.
LEMMA DaysAreDays ==
    ASSUME NEW r \in Req, req[r].key \in Key
    PROVE  Days(r) \subseteq Day
BY WindowAssumption DEF Days, Key

\* A step that keeps to itself preserves what the other requests know.
LEMMA OthersKept ==
    ASSUME IInv, NEW r \in Req, Kept(r)
    PROVE  \A q \in Req \ {r} : RequestOK(q)'
<1> SUFFICES ASSUME NEW q \in Req \ {r} PROVE RequestOK(q)'
  OBVIOUS
<1>1. /\ req'[q] = req[q] /\ RequestOK(q)
      /\ Days(q)' = Days(q)
  BY DEF Kept, IInv, Days
<1>2. LocksOK(q)'
  BY <1>1 DEF Kept, RequestOK, LocksOK
<1>3. Whole(q)'
  <2>1. SUFFICES ASSUME linked', req[q].pc \in {"flush", "commit"},
                        NEW d \in Days(q), ~Due(q, d)
                 PROVE  View(q, d)' # None
    BY <1>1 DEF Whole, Due
  <2>2. d \in Day /\ linked /\ View(q, d) # None
    BY <1>1, <2>1, DaysAreDays DEF RequestOK, Whole, Kept
  <2> QED BY <2>2 DEF View, Kept
<1> QED BY <1>1, <1>2, <1>3 DEF RequestOK, TodoOK

\* INSERT, UPDATE or DELETE of one row.
LEMMA WriteKeeps ==
    ASSUME TypeOK, DbOK, NEW r \in Req, NEW d \in Day,
           NEW value \in Row \cup {None}, Write(r, d, value)
    PROVE  /\ draft' \in [Day -> Row \cup {None}]
           /\ lock' \in [Day -> Req \cup {None}]
           /\ draft'[d] = value /\ lock'[d] = r
           /\ \A e \in Day \ {d} : draft'[e] = draft[e] /\ lock'[e] = lock[e]
           /\ lock[d] \in {None, r}
           /\ row' = row => DbOK'
BY NoneAssumption DEF TypeOK, DbOK, Write, Free

\* The transaction ends: its locks are gone and every row has one version.
LEMMA EndKeeps ==
    ASSUME TypeOK, DbOK, NEW r \in Req, Release(r),
           \/ row' = [d \in Day |-> View(r, d)] /\ draft' = draft
           \/ /\ draft' =
                    [d \in Day |-> IF lock[d] = r THEN row[d] ELSE draft[d]]
              /\ row' = row
    PROVE  /\ row' \in [Day -> Row \cup {None}]
           /\ draft' \in [Day -> Row \cup {None}]
           /\ lock' \in [Day -> Req \cup {None}]
           /\ DbOK'
           /\ \A d \in Day : lock'[d] # r
           /\ \A d \in Day : \A q \in Req \ {r} :
                 /\ lock'[d] = q <=> lock[d] = q
                 /\ lock[d] = q => draft'[d] = draft[d]
BY NoneAssumption DEF TypeOK, DbOK, Release, View

\* What is proved of every step of request r.
Stepped(r) ==
    /\ TypeOK' /\ DbOK'
    /\ RequestOK(r)'
    /\ Kept(r)

\* A step that writes no row changes only what the request itself knows.
LEMMA QuietStep ==
    ASSUME IInv, NEW r \in Req, NEW step \in Request,
           req' = [req EXCEPT ![r] = step], UNCHANGED <<hub, linked, db>>,
           started' \in Nat, mutex' \in [Key -> Req \cup {None}],
           calendar' \in [Label -> Nat \cup {None}]
    PROVE  TypeOK' /\ DbOK' /\ Kept(r) /\ req'[r] = step
<1>1. TypeOK'
  BY DEF IInv, TypeOK, db
<1>2. DbOK'
  BY DEF IInv, DbOK, db
<1>3. Kept(r) /\ req'[r] = step
  BY DEF IInv, TypeOK, Kept, db
<1> QED BY <1>1, <1>2, <1>3

-----------------------------------------------------------------------------
(* The steps of a request *)

\* A request comes in.
LEMMA ReceiveStep == ASSUME IInv, NEW r \in Req, Receive(r) PROVE Stepped(r)
<1>1. PICK k \in Key, kind \in {"get", "again", "post"} :
        req' = [req EXCEPT ![r] = [Idle EXCEPT
            !.pc = IF kind = "get" THEN "hasYear" ELSE "delete",
            !.kind = kind, !.id = started, !.key = k]]
  BY DEF Receive
<1> DEFINE step == [Idle EXCEPT
            !.pc = IF kind = "get" THEN "hasYear" ELSE "delete",
            !.kind = kind, !.id = started, !.key = k]
<1>2. /\ step \in Request
      /\ step.pc \in {"hasYear", "delete"} /\ step.key = k /\ step.todo = {}
  BY DEF IInv, TypeOK, Idle, Request, Steps, Nothing
<1>3. /\ UNCHANGED <<hub, linked, db>>
      /\ started' \in Nat /\ mutex' \in [Key -> Req \cup {None}]
      /\ calendar' \in [Label -> Nat \cup {None}]
  BY DEF IInv, TypeOK, Receive
<1>4. TypeOK' /\ DbOK' /\ Kept(r) /\ req'[r] = step
  <2> HIDE DEF step
  <2> QED BY <1>1, <1>2, <1>3, QuietStep DEF step
<1>5. req[r].pc = "idle"
  BY DEF Receive
<1>6. RequestOK(r)'
  <2> HIDE DEF step
  <2>1. LocksOK(r)'
    BY <1>3, <1>5 DEF IInv, RequestOK, LocksOK, db
  <2> QED BY <1>2, <1>4, <2>1 DEF RequestOK, TodoOK, Whole
<1> QED BY <1>4, <1>6 DEF Stepped

\* A request that goes on without writing keeps its days, locks and view.
LEMMA Onward ==
    ASSUME IInv, NEW r \in Req, UNCHANGED db, req[r].pc # "idle",
           req'[r].key = req[r].key,
           req'[r].pc \notin {"idle", "hasYear", "delete"}
    PROVE  /\ LocksOK(r)' /\ req'[r].key \in Key
           /\ Days(r)' = Days(r)
           /\ \A d \in Day : View(r, d)' = View(r, d)
BY DEF IInv, RequestOK, LocksOK, Days, View, db

\* The steps that move on with nothing left to do, and not to a flush or a
\* commit.
LEMMA PlainStep ==
    ASSUME IInv, NEW r \in Req, HasYear(r) \/ Deleted(r) \/ Acquire(r)
    PROVE  Stepped(r)
<1>1. PICK step \in Request :
        /\ req' = [req EXCEPT ![r] = step]
        /\ step.pc \in {"acquire", "fetch", "done"}
        /\ step.key = req[r].key /\ step.todo = req[r].todo
  <2>1. req[r] \in Request /\ req \in [Req -> Request]
    BY DEF IInv, TypeOK
  <2>2. CASE Deleted(r)
    <3>1. req' = [req EXCEPT ![r] =
                    [req[r] EXCEPT !.pc = "acquire", !.seen = Nothing]]
      BY <2>1, <2>2 DEF Deleted, Return
    <3>2. [req[r] EXCEPT !.pc = "acquire", !.seen = Nothing] \in Request
      BY <2>1 DEF Request, Steps, Nothing
    <3> QED BY <2>1, <3>1, <3>2 DEF Request
  <2>3. CASE HasYear(r) \/ Acquire(r)
    <3>1. PICK pc \in {"acquire", "fetch", "done"} : Goto(r, pc)
      BY <2>3 DEF HasYear, Acquire
    <3>2. req' = [req EXCEPT ![r] = [req[r] EXCEPT !.pc = pc]]
      BY <2>1, <3>1 DEF Goto
    <3>3. [req[r] EXCEPT !.pc = pc] \in Request
      BY <2>1 DEF Request, Steps
    <3> QED BY <2>1, <3>2, <3>3 DEF Request
  <2> QED BY <2>2, <2>3
<1>2. /\ UNCHANGED <<hub, linked, db>>
      /\ started' \in Nat /\ mutex' \in [Key -> Req \cup {None}]
      /\ calendar' \in [Label -> Nat \cup {None}]
  BY DEF IInv, TypeOK, HasYear, Deleted, Acquire
<1>3. TypeOK' /\ DbOK' /\ Kept(r) /\ req'[r] = step
  BY <1>1, <1>2, QuietStep
<1>4. req[r].pc # "idle" /\ req[r].todo = {}
  BY DEF IInv, RequestOK, TodoOK, HasYear, Deleted, Acquire
<1>5. RequestOK(r)'
  BY <1>1, <1>2, <1>3, <1>4, Onward DEF RequestOK, TodoOK, Whole
<1> QED BY <1>3, <1>5 DEF Stepped

\* The DELETE finds its rows.
LEMMA DeleteStep == ASSUME IInv, NEW r \in Req, Delete(r) PROVE Stepped(r)
<1> DEFINE todo == {d \in Days(r) : row[d] # None}
           step == [req[r] EXCEPT !.pc = "deleting", !.seen = row,
                       !.todo = todo]
<1>1. /\ req \in [Req -> Request] /\ req[r].pc = "delete"
      /\ req[r].key \in Key /\ todo \subseteq Days(r) /\ todo \subseteq Day
      /\ row \in [Day -> Row \cup {None}]
  BY DaysAreDays DEF IInv, TypeOK, RequestOK, Delete
<1>2. req' = [req EXCEPT ![r] = step]
  BY <1>1 DEF Delete
<1>3. /\ step \in Request /\ step.pc = "deleting" /\ step.key = req[r].key
      /\ step.todo = todo
  <2>1. req[r] \in Request
    BY <1>1
  <2> HIDE DEF todo
  <2> QED BY <2>1, <1>1 DEF Request, Steps
<1>4. /\ UNCHANGED <<hub, linked, db>>
      /\ started' \in Nat /\ mutex' \in [Key -> Req \cup {None}]
      /\ calendar' \in [Label -> Nat \cup {None}]
  BY DEF IInv, TypeOK, Delete
<1> HIDE DEF step, todo
<1>5. TypeOK' /\ DbOK' /\ Kept(r) /\ req'[r] = step
  BY <1>2, <1>3, <1>4, QuietStep
<1>6. LocksOK(r)' /\ req'[r].key \in Key /\ Days(r)' = Days(r)
  BY <1>1, <1>3, <1>4, <1>5, Onward
<1>7. RequestOK(r)'
  BY <1>1, <1>3, <1>5, <1>6 DEF RequestOK, TodoOK, Whole
<1> QED BY <1>5, <1>7 DEF Stepped

\* Without a credential the aggregation ends and nothing is promised.
LEMMA NotConnectedStep ==
    ASSUME IInv, NEW r \in Req, NotConnected(r) PROVE Stepped(r)
<1> DEFINE pc == IF req[r].kind = "post" THEN "commit" ELSE "done"
           step == [req[r] EXCEPT !.pc = pc]
<1>1. /\ req \in [Req -> Request] /\ req[r].pc = "fetch" /\ req[r].todo = {}
      /\ pc \in {"commit", "done"}
  BY DEF IInv, TypeOK, RequestOK, TodoOK, NotConnected
<1>2. req' = [req EXCEPT ![r] = step]
  BY <1>1 DEF NotConnected, Goto
<1>3. /\ step \in Request /\ step.pc = pc /\ step.key = req[r].key
      /\ step.todo = req[r].todo
  <2>1. req[r] \in Request
    BY <1>1
  <2> HIDE DEF pc
  <2> QED BY <2>1, <1>1 DEF Request, Steps
<1>4. /\ UNCHANGED <<hub, linked, db>> /\ ~linked
      /\ started' \in Nat /\ mutex' \in [Key -> Req \cup {None}]
      /\ calendar' \in [Label -> Nat \cup {None}]
  BY DEF IInv, TypeOK, NotConnected, Leave
<1> HIDE DEF step, pc
<1>5. TypeOK' /\ DbOK' /\ Kept(r) /\ req'[r] = step
  BY <1>2, <1>3, <1>4, QuietStep
<1>6. LocksOK(r)' /\ req'[r].key \in Key
  BY <1>1, <1>3, <1>4, <1>5, Onward
<1>7. RequestOK(r)'
  BY <1>1, <1>3, <1>4, <1>5, <1>6 DEF RequestOK, TodoOK, Whole
<1> QED BY <1>5, <1>7 DEF Stepped

\* The counts come from the cache or from GitHub, and are cached.
LEMMA ReadStep ==
    ASSUME IInv, NEW r \in Req, Cached(r) \/ Fetch(r) \/ Put(r)
    PROVE  Stepped(r)
<1>1. /\ req \in [Req -> Request] /\ req[r] \in Request
      /\ req[r].pc \in {"fetch", "put"} /\ req[r].todo = {}
      /\ req[r].key \in Key /\ hub \in Nat
      /\ calendar \in [Label -> Nat \cup {None}]
  BY DEF IInv, TypeOK, RequestOK, TodoOK, Cached, Fetch, Put
<1>2. req[r].key[2] \in Label
  BY <1>1 DEF Key
<1>3. PICK step \in Request :
        /\ req' = [req EXCEPT ![r] = step]
        /\ step.pc \in {"put", "select"} /\ step.ver \in Nat
        /\ step.key = req[r].key /\ step.todo = req[r].todo
  <2>1. CASE Cached(r)
    <3> DEFINE ver == calendar[req[r].key[2]]
               step == [req[r] EXCEPT !.pc = "select", !.live = FALSE,
                                      !.ver = ver]
    <3>1. ver \in Nat
      BY <1>1, <1>2, <2>1 DEF Cached
    <3>2. req' = [req EXCEPT ![r] = step]
      BY <1>1, <2>1 DEF Cached
    <3> HIDE DEF ver
    <3>3. /\ step \in Request /\ step.pc = "select" /\ step.ver = ver
          /\ step.key = req[r].key /\ step.todo = req[r].todo
      BY <1>1, <3>1 DEF Request, Steps
    <3> QED BY <3>1, <3>2, <3>3
  <2>2. CASE Fetch(r)
    <3> DEFINE step == [req[r] EXCEPT !.pc = "put", !.ver = hub, !.live = TRUE]
    <3>1. req' = [req EXCEPT ![r] = step]
      BY <1>1, <2>2 DEF Fetch
    <3>2. /\ step \in Request /\ step.pc = "put" /\ step.ver = hub
          /\ step.key = req[r].key /\ step.todo = req[r].todo
      BY <1>1 DEF Request, Steps
    <3> QED BY <1>1, <3>1, <3>2
  <2>3. CASE Put(r)
    <3> DEFINE step == [req[r] EXCEPT !.pc = "select"]
    <3>1. req' = [req EXCEPT ![r] = step]
      BY <1>1, <2>3 DEF Put, Goto
    <3>2. /\ step \in Request /\ step.pc = "select" /\ step.ver = req[r].ver
          /\ step.key = req[r].key /\ step.todo = req[r].todo
      BY <1>1 DEF Request, Steps
    <3>3. req[r].ver \in Nat
      BY <2>3 DEF IInv, RequestOK, Put
    <3> QED BY <3>1, <3>2, <3>3
  <2> QED BY <2>1, <2>2, <2>3
<1>4. calendar' \in [Label -> Nat \cup {None}]
  <2>1. CASE Put(r)
    <3>1. req[r].ver \in Nat
      BY <2>1 DEF IInv, RequestOK, Put
    <3>2. PICK kept \in {req[r].ver, calendar[req[r].key[2]]} :
            calendar' = [calendar EXCEPT ![req[r].key[2]] = kept]
      BY <2>1 DEF Put
    <3>3. kept \in Nat \cup {None}
      BY <1>1, <1>2, <3>1
    <3> QED BY <1>1, <1>2, <3>2, <3>3
  <2>2. CASE Cached(r) \/ Fetch(r)
    BY <1>1, <2>2 DEF Cached, Fetch
  <2> QED BY <2>1, <2>2
<1>5. /\ UNCHANGED <<hub, linked, db>>
      /\ started' \in Nat /\ mutex' \in [Key -> Req \cup {None}]
  BY DEF IInv, TypeOK, Cached, Fetch, Put
<1>6. TypeOK' /\ DbOK' /\ Kept(r) /\ req'[r] = step
  BY <1>3, <1>4, <1>5, QuietStep
<1>7. LocksOK(r)' /\ req'[r].key \in Key
  BY <1>1, <1>3, <1>5, <1>6, Onward
<1>8. RequestOK(r)'
  BY <1>1, <1>3, <1>6, <1>7 DEF RequestOK, TodoOK, Whole
<1> QED BY <1>6, <1>8 DEF Stepped

\* The days the SELECT does not find are days still to write.
LEMMA SelectStep == ASSUME IInv, NEW r \in Req, Select(r) PROVE Stepped(r)
<1> DEFINE seen == [d \in Day |-> View(r, d)]
           todo == {d \in Days(r) :
                       seen[d] = None \/ seen[d].ver # req[r].ver}
           step == [req[r] EXCEPT !.pc = "flush", !.seen = seen, !.todo = todo]
<1>1. /\ req \in [Req -> Request] /\ req[r].pc = "select"
      /\ req[r].key \in Key /\ req[r].ver \in Nat
      /\ Days(r) \subseteq Day /\ todo \subseteq Days(r)
  BY DaysAreDays DEF IInv, TypeOK, RequestOK, Select
<1>2. seen \in [Day -> Row \cup {None}]
  BY DEF IInv, TypeOK, View
<1>3. \A d \in Days(r) :
          (d \in todo /\ seen[d] = None) \/ View(r, d) # None
  BY <1>1
<1>4. req' = [req EXCEPT ![r] = step]
  BY <1>1 DEF Select
<1>5. /\ step \in Request /\ step.pc = "flush" /\ step.ver = req[r].ver
      /\ step.key = req[r].key /\ step.todo = todo /\ step.seen = seen
  <2>1. req[r] \in Request /\ todo \subseteq Day
    BY <1>1
  <2> HIDE DEF seen, todo
  <2> QED BY <2>1, <1>2 DEF Request, Steps
<1>6. /\ UNCHANGED <<hub, linked, db>>
      /\ started' \in Nat /\ mutex' \in [Key -> Req \cup {None}]
      /\ calendar' \in [Label -> Nat \cup {None}]
  BY DEF IInv, TypeOK, Select
<1> HIDE DEF step, todo
<1>7. TypeOK' /\ DbOK' /\ Kept(r) /\ req'[r] = step
  BY <1>4, <1>5, <1>6, QuietStep
<1>8. /\ LocksOK(r)' /\ req'[r].key \in Key /\ Days(r)' = Days(r)
      /\ \A d \in Day : View(r, d)' = View(r, d)
  BY <1>1, <1>5, <1>6, <1>7, Onward
<1>9. RequestOK(r)'
  BY <1>1, <1>3, <1>5, <1>7, <1>8 DEF RequestOK, TodoOK, Whole, Due
<1> QED BY <1>7, <1>9 DEF Stepped

\* After the flush no day is left to write, so none is missing.
LEMMA FlushedStep == ASSUME IInv, NEW r \in Req, Flushed(r) PROVE Stepped(r)
<1> DEFINE pc == IF req[r].kind = "post" THEN "commit" ELSE "done"
           step == [req[r] EXCEPT !.pc = pc, !.seen = Nothing]
<1>1. /\ req \in [Req -> Request] /\ req[r].pc = "flush" /\ req[r].todo = {}
      /\ req[r].key \in Key /\ Whole(r) /\ pc \in {"commit", "done"}
  BY DEF IInv, TypeOK, RequestOK, Flushed
<1>2. req' = [req EXCEPT ![r] = step]
  BY <1>1 DEF Flushed, Return
<1>3. /\ step \in Request /\ step.pc = pc /\ step.key = req[r].key
      /\ step.todo = req[r].todo
  <2>1. req[r] \in Request
    BY <1>1
  <2> HIDE DEF pc
  <2> QED BY <2>1, <1>1 DEF Request, Steps, Nothing
<1>4. /\ UNCHANGED <<hub, linked, db>>
      /\ started' \in Nat /\ mutex' \in [Key -> Req \cup {None}]
      /\ calendar' \in [Label -> Nat \cup {None}]
  BY DEF IInv, TypeOK, Flushed, Leave
<1> HIDE DEF step, pc
<1>5. TypeOK' /\ DbOK' /\ Kept(r) /\ req'[r] = step
  BY <1>2, <1>3, <1>4, QuietStep
<1>6. /\ LocksOK(r)' /\ req'[r].key \in Key /\ Days(r)' = Days(r)
      /\ \A d \in Day : View(r, d)' = View(r, d)
  BY <1>1, <1>3, <1>4, <1>5, Onward
<1>7. Whole(r)'
  <2> SUFFICES ASSUME linked', NEW d \in Days(r)' PROVE View(r, d)' # None
    BY DEF Whole
  <2>1. d \in Days(r) /\ d \in Day /\ linked
    BY <1>1, <1>4, <1>6, DaysAreDays
  <2>2. View(r, d) # None
    BY <1>1, <2>1 DEF Whole, Due
  <2> QED BY <1>6, <2>1, <2>2
<1>8. RequestOK(r)'
  BY <1>1, <1>3, <1>5, <1>6, <1>7 DEF RequestOK, TodoOK
<1> QED BY <1>5, <1>8 DEF Stepped

\* A statement of r that writes one row of its window, or finds nothing to
\* write there.
LEMMA RowStep ==
    ASSUME IInv, NEW r \in Req, req[r].pc \in {"deleting", "flush"},
           NEW d \in req[r].todo, NEW value \in Row \cup {None},
           Write(r, d, value) \/ UNCHANGED <<draft, lock>>,
           req' = [req EXCEPT ![r].todo = @ \ {d}],
           UNCHANGED <<hub, linked, calendar, mutex, row, started>>
    PROVE  /\ TypeOK' /\ DbOK' /\ Kept(r)
           /\ LocksOK(r)' /\ TodoOK(r)' /\ Days(r)' = Days(r)
           /\ req'[r].key = req[r].key /\ req'[r].ver = req[r].ver
           /\ req'[r].pc = req[r].pc /\ req'[r].todo = req[r].todo \ {d}
           /\ req'[r].seen = req[r].seen
<1> DEFINE step == [req[r] EXCEPT !.todo = @ \ {d}]
<1>1. /\ req \in [Req -> Request] /\ d \in Day /\ d \in Days(r)
      /\ TypeOK /\ DbOK /\ RequestOK(r)
  BY DEF IInv, TypeOK, Request, RequestOK, TodoOK
<1>2. step \in Request /\ req' = [req EXCEPT ![r] = step]
  BY <1>1 DEF Request
<1>3. /\ step.key = req[r].key /\ step.ver = req[r].ver
      /\ step.pc = req[r].pc /\ step.todo = req[r].todo \ {d}
      /\ step.seen = req[r].seen
  BY <1>1 DEF Request
<1> HIDE DEF step
<1>4. req' \in [Req -> Request] /\ req'[r] = step
      /\ \A q \in Req \ {r} : req'[q] = req[q]
  BY <1>1, <1>2
<1>5. /\ draft' \in [Day -> Row \cup {None}]
      /\ lock' \in [Day -> Req \cup {None}]
      /\ \A e \in Day \ {d} : draft'[e] = draft[e] /\ lock'[e] = lock[e]
      /\ \/ lock'[d] = lock[d] /\ draft'[d] = draft[d]
         \/ lock'[d] = r /\ lock[d] \in {None, r}
      /\ DbOK'
  <2>1. CASE Write(r, d, value)
    BY <1>1, <2>1, WriteKeeps
  <2>2. CASE UNCHANGED <<draft, lock>>
    BY <1>1, <2>2 DEF TypeOK, DbOK
  <2> QED BY <2>1, <2>2
<1>6. TypeOK'
  BY <1>1, <1>4, <1>5 DEF TypeOK
<1>7. Kept(r)
  BY <1>4, <1>5, NoneAssumption DEF Kept
<1>8. Days(r)' = Days(r)
  BY <1>3, <1>4 DEF Days
<1>9. LocksOK(r)'
  BY <1>1, <1>3, <1>4, <1>5, <1>8 DEF RequestOK, LocksOK
<1>10. TodoOK(r)'
  BY <1>1, <1>3, <1>4, <1>8 DEF RequestOK, TodoOK
<1> QED BY <1>3, <1>4, <1>5, <1>6, <1>7, <1>8, <1>9, <1>10

\* One row of the DELETE: nothing is promised before the rows are back.
LEMMA DeleteRowStep ==
    ASSUME IInv, NEW r \in Req, DeleteRow(r) PROVE Stepped(r)
<1>1. PICK d \in req[r].todo :
        /\ IF draft[d] # None /\ draft[d].by = req[r].seen[d].by
           THEN Write(r, d, None)
           ELSE UNCHANGED <<draft, lock>>
        /\ req' = [req EXCEPT ![r].todo = @ \ {d}]
  BY DEF DeleteRow
<1>2. /\ req[r].pc = "deleting"
      /\ UNCHANGED <<hub, linked, calendar, mutex, row, started>>
  BY DEF DeleteRow
<1>3. Write(r, d, None) \/ UNCHANGED <<draft, lock>>
  BY <1>1
<1>4. /\ TypeOK' /\ DbOK' /\ Kept(r)
      /\ LocksOK(r)' /\ TodoOK(r)'
      /\ req'[r].key = req[r].key /\ req'[r].pc = req[r].pc
  BY <1>1, <1>2, <1>3, RowStep
<1>5. RequestOK(r)'
  BY <1>2, <1>4 DEF IInv, RequestOK, Whole
<1> QED BY <1>4, <1>5 DEF Stepped

\* One row of the flush: an INSERT makes the day, an UPDATE leaves it there.
LEMMA FlushRowStep ==
    ASSUME IInv, NEW r \in Req, FlushRow(r) PROVE Stepped(r)
<1>1. PICK d \in req[r].todo :
        LET seen == req[r].seen[d]
            by == IF seen = None THEN req[r].id ELSE seen.by
            found == draft[d] # None /\ draft[d].by = by
        IN  /\ IF seen = None \/ found
               THEN Write(r, d, [by |-> by, ver |-> req[r].ver,
                                 key |-> req[r].key, live |-> req[r].live])
               ELSE UNCHANGED <<draft, lock>>
            /\ req' = [req EXCEPT ![r].todo = @ \ {d}]
  BY DEF FlushRow
<1> DEFINE by == IF req[r].seen[d] = None THEN req[r].id
                                          ELSE req[r].seen[d].by
           value == [by |-> by, ver |-> req[r].ver, key |-> req[r].key,
                     live |-> req[r].live]
<1>2. /\ req[r].pc = "flush"
      /\ UNCHANGED <<hub, linked, calendar, mutex, row, started>>
  BY DEF FlushRow
<1>3. /\ req[r] \in Request /\ d \in Day
      /\ req[r].key \in Key /\ req[r].ver \in Nat
      /\ req[r].live \in BOOLEAN
  BY <1>2 DEF IInv, TypeOK, RequestOK, Request
<1>4. by \in Nat
  <2>1. req[r].id \in Nat /\ req[r].seen[d] \in Row \cup {None}
    BY <1>3 DEF Request
  <2> QED BY <2>1 DEF Row
<1>5. value \in Row
  BY <1>3, <1>4 DEF Row
<1>6. /\ \/ Write(r, d, value)
         \/ req[r].seen[d] # None /\ UNCHANGED <<draft, lock>>
      /\ req' = [req EXCEPT ![r].todo = @ \ {d}]
  BY <1>1
<1> HIDE DEF value, by
<1>7. /\ TypeOK' /\ DbOK' /\ Kept(r)
      /\ LocksOK(r)' /\ TodoOK(r)' /\ Days(r)' = Days(r)
      /\ req'[r].key = req[r].key /\ req'[r].ver = req[r].ver
      /\ req'[r].pc = req[r].pc /\ req'[r].todo = req[r].todo \ {d}
      /\ req'[r].seen = req[r].seen
  BY <1>2, <1>5, <1>6, RowStep
<1>8. /\ \A e \in Day \ {d} : draft'[e] = draft[e] /\ lock'[e] = lock[e]
      /\ \/ draft'[d] = value /\ lock'[d] = r
         \/ req[r].seen[d] # None /\ UNCHANGED <<draft, lock>>
  BY <1>3, <1>5, <1>6, WriteKeeps DEF IInv
<1>9. Whole(r)'
  <2> SUFFICES ASSUME linked', NEW e \in Days(r)', ~Due(r, e)'
               PROVE  View(r, e)' # None
    BY DEF Whole
  <2>1. e \in Days(r) /\ e \in Day /\ linked
    BY <1>2, <1>3, <1>7, DaysAreDays
  <2>2. Due(r, e) \/ View(r, e) # None
    BY <1>2, <2>1 DEF IInv, RequestOK, Whole
  <2>3. CASE e = d /\ draft'[d] = value /\ lock'[d] = r
    BY <1>5, <2>3, NoneAssumption DEF View
  <2>4. CASE e = d /\ req[r].seen[d] # None /\ UNCHANGED <<draft, lock>>
    BY <1>2, <2>2, <2>4 DEF Due, View
  <2>5. CASE e # d
    <3>1. View(r, e) # None
      BY <1>7, <2>2, <2>5 DEF Due
    <3> QED BY <1>2, <1>8, <2>1, <2>5, <3>1 DEF View
  <2> QED BY <1>8, <2>3, <2>4, <2>5
<1>10. RequestOK(r)'
  BY <1>3, <1>7, <1>9 DEF RequestOK
<1> QED BY <1>7, <1>10 DEF Stepped

\* The commit of a refresh: while the account is linked every day of its
\* window is committed, and no day is lost.
LEMMA CommitKeeps ==
    ASSUME IInv, NEW r \in Req, CommitStep(r)
    PROVE  /\ Stepped(r)
           /\ linked => \A d \in Days(r) : row'[d] # None
<1> DEFINE step == [req[r] EXCEPT !.pc = "done"]
<1>1. /\ req \in [Req -> Request] /\ req[r].pc = "commit"
      /\ req[r].key \in Key /\ req[r].todo = {}
      /\ TypeOK /\ DbOK /\ Whole(r) /\ LocksOK(r)
  BY DEF IInv, TypeOK, RequestOK, TodoOK, CommitStep
<1>2. /\ row' = [d \in Day |-> View(r, d)] /\ draft' = draft /\ Release(r)
      /\ UNCHANGED <<hub, linked, calendar, mutex, started>>
      /\ req' = [req EXCEPT ![r] = step]
  BY <1>1 DEF CommitStep, Goto
<1>3. step \in Request /\ step.pc = "done" /\ step.key = req[r].key
      /\ step.todo = {}
  BY <1>1 DEF Request, Steps
<1> HIDE DEF step
<1>4. req' \in [Req -> Request] /\ req'[r] = step
      /\ \A q \in Req \ {r} : req'[q] = req[q]
  BY <1>1, <1>2, <1>3
<1>5. /\ row' \in [Day -> Row \cup {None}]
      /\ draft' \in [Day -> Row \cup {None}]
      /\ lock' \in [Day -> Req \cup {None}] /\ DbOK'
      /\ \A d \in Day : lock'[d] # r
      /\ \A d \in Day : \A q \in Req \ {r} :
            /\ lock'[d] = q <=> lock[d] = q
            /\ lock[d] = q => draft'[d] = draft[d]
  BY <1>1, <1>2, EndKeeps
<1>6. TypeOK'
  BY <1>1, <1>2, <1>4, <1>5 DEF TypeOK
<1>7. linked => \A d \in Days(r) : row'[d] # None
  BY <1>1, <1>2, DaysAreDays DEF Whole, Due
<1>8. \A d \in Day : linked /\ row[d] # None => row'[d] # None
  BY <1>1, <1>2, <1>7 DEF View, LocksOK
<1>9. Kept(r)
  BY <1>2, <1>4, <1>5, <1>8 DEF Kept
<1>10. RequestOK(r)'
  BY <1>1, <1>3, <1>4, <1>5 DEF RequestOK, LocksOK, TodoOK, Whole
<1> QED BY <1>5, <1>6, <1>7, <1>9, <1>10 DEF Stepped

\* A request that is over, or fails, takes its rows back and leaves.
LEMMA EndStep ==
    ASSUME IInv, NEW r \in Req, Done(r) \/ Fail(r) PROVE Stepped(r)
<1>1. /\ TypeOK /\ DbOK /\ req \in [Req -> Request]
  BY DEF IInv, TypeOK
<1>2. /\ draft' = [d \in Day |-> IF lock[d] = r THEN row[d] ELSE draft[d]]
      /\ row' = row /\ Release(r)
      /\ UNCHANGED <<hub, linked, calendar, started>>
      /\ req' = [req EXCEPT ![r] = Idle]
  BY DEF Done, Fail, Rollback
<1>3. mutex' \in [Key -> Req \cup {None}]
  BY <1>1 DEF TypeOK, Done, Fail, Leave
<1>4. Idle \in Request /\ Idle.pc = "idle" /\ Idle.todo = {}
  BY DEF Idle, Request, Steps, Nothing
<1>5. req' \in [Req -> Request] /\ req'[r] = Idle
      /\ \A q \in Req \ {r} : req'[q] = req[q]
  BY <1>1, <1>2, <1>4
<1>6. /\ row' \in [Day -> Row \cup {None}]
      /\ draft' \in [Day -> Row \cup {None}]
      /\ lock' \in [Day -> Req \cup {None}] /\ DbOK'
      /\ \A d \in Day : lock'[d] # r
      /\ \A d \in Day : \A q \in Req \ {r} :
            /\ lock'[d] = q <=> lock[d] = q
            /\ lock[d] = q => draft'[d] = draft[d]
  BY <1>1, <1>2, EndKeeps
<1>7. TypeOK'
  BY <1>1, <1>2, <1>3, <1>5, <1>6 DEF TypeOK
<1>8. Kept(r)
  BY <1>2, <1>5, <1>6 DEF Kept
<1>9. RequestOK(r)'
  BY <1>4, <1>5, <1>6 DEF RequestOK, LocksOK, TodoOK, Whole
<1> QED BY <1>6, <1>7, <1>8, <1>9 DEF Stepped

-----------------------------------------------------------------------------
(* The theorems *)

\* Every step of a request keeps its part of the invariant and the others'.
LEMMA StepKeeps ==
    ASSUME IInv, NEW r \in Req, Step(r) PROVE IInv' /\ Kept(r)
<1>1. Stepped(r)
  BY ReceiveStep, PlainStep, DeleteStep, DeleteRowStep, NotConnectedStep,
     ReadStep, SelectStep, FlushRowStep, FlushedStep, CommitKeeps, EndStep
  DEF Step
<1>2. \A q \in Req \ {r} : RequestOK(q)'
  BY <1>1, OthersKept DEF Stepped
<1> QED BY <1>1, <1>2 DEF IInv, Stepped

\* The initial states satisfy the invariant.
LEMMA InitOK == Init => IInv
<1> SUFFICES ASSUME Init PROVE IInv
  OBVIOUS
<1>1. TypeOK
  <2>1. ASSUME NEW k \in Key PROVE Stored(k) \in [Day -> Row \cup {None}]
    BY <2>1 DEF Stored, Row
  <2>2. row \in [Day -> Row \cup {None}] /\ draft = row
    BY <2>1 DEF Init, Nothing
  <2>3. calendar \in [Label -> Nat \cup {None}] /\ started \in Nat
    BY DEF Init
  <2>4. Idle \in Request
    BY DEF Nothing, Idle, Request, Steps
  <2> QED BY <2>2, <2>3, <2>4 DEF Init, TypeOK
<1>2. DbOK
  BY DEF Init, DbOK
<1>3. ASSUME NEW r \in Req PROVE RequestOK(r)
  <2>1. req[r].pc = "idle" /\ req[r].todo = {}
    BY DEF Init, Idle
  <2>2. \A d \in Day : lock[d] # r
    BY NoneAssumption DEF Init
  <2> QED BY <2>1, <2>2 DEF RequestOK, LocksOK, TodoOK, Whole
<1> QED BY <1>1, <1>2, <1>3 DEF IInv

\* Every step keeps the invariant.
LEMMA NextKeeps == IInv /\ [Next]_vars => IInv'
<1> SUFFICES ASSUME IInv, [Next]_vars PROVE IInv'
  OBVIOUS
<1>1. CASE \E r \in Req : Step(r)
  BY <1>1, StepKeeps
<1>2. CASE Contribute \/ Unlink \/ \E l \in Label : Expire(l)
  <2>1. /\ hub' \in Nat /\ linked' \in BOOLEAN /\ (linked' => linked)
        /\ calendar' \in [Label -> Nat \cup {None}]
        /\ UNCHANGED <<mutex, db, started, req>>
    <3>1. CASE Contribute
      BY <3>1 DEF IInv, TypeOK, Contribute
    <3>2. CASE Unlink
      BY <3>2 DEF IInv, TypeOK, Unlink
    <3>3. CASE \E l \in Label : Expire(l)
      BY <3>3 DEF IInv, TypeOK, Expire
    <3> QED BY <1>2, <3>1, <3>2, <3>3
  <2>2. TypeOK' /\ DbOK'
    BY <2>1 DEF IInv, TypeOK, DbOK, db
  <2>3. ASSUME NEW r \in Req PROVE RequestOK(r)'
    BY <2>1 DEF IInv, RequestOK, LocksOK, TodoOK, Whole, Due, Days, View, db
  <2> QED BY <2>1, <2>2, <2>3 DEF IInv
<1>3. CASE UNCHANGED vars
  <2>1. TypeOK' /\ DbOK'
    BY <1>3 DEF IInv, TypeOK, DbOK, vars, db
  <2>2. ASSUME NEW r \in Req PROVE RequestOK(r)'
    BY <1>3
    DEF IInv, RequestOK, LocksOK, TodoOK, Whole, Due, Days, View, vars, db
  <2> QED BY <2>1, <2>2 DEF IInv
<1> QED BY <1>1, <1>2, <1>3 DEF Next

\* The invariant holds in every reachable state of the heatmap.
THEOREM Invariance == Spec => []IInv
BY InitOK, NextKeeps, PTL DEF Spec

\* Every variable of the heatmap keeps its type.
THEOREM TypesKept == Spec => []TypeOK
<1>1. IInv => TypeOK
  BY DEF IInv
<1> QED BY <1>1, Invariance, PTL

\* Requests that fail, overlap or are answered out of order lose no committed
\* day while the account is linked.
THEOREM DaysAreKept == Spec => NoDayLost
<1>1. IInv /\ [Next]_vars =>
        [\A d \in Day : row[d] # None /\ row'[d] = None => ~linked]_vars
  <2> SUFFICES ASSUME IInv, Next,
                      NEW d \in Day, row[d] # None, row'[d] = None
               PROVE  ~linked
    OBVIOUS
  <2>1. CASE \E r \in Req : Step(r)
    BY <2>1, StepKeeps DEF Kept
  <2>2. CASE Contribute \/ Unlink \/ \E l \in Label : Expire(l)
    BY <2>2 DEF Contribute, Unlink, Expire, db
  <2> QED BY <2>1, <2>2 DEF Next
<1> QED BY <1>1, Invariance, PTL DEF Spec, NoDayLost

\* A refresh that commits while the account is linked has made its window
\* whole.
THEOREM RefreshesAreWhole == Spec => RefreshIsWhole
<1>1. IInv /\ [Next]_vars =>
        [\A r \in Req :
            req[r].pc = "commit" /\ req'[r].pc = "done" /\ linked =>
            \A d \in Days(r) : row'[d] # None]_vars
  <2> SUFFICES ASSUME IInv, Next, NEW r \in Req,
                      req[r].pc = "commit", req'[r].pc = "done", linked
               PROVE  \A d \in Days(r) : row'[d] # None
    OBVIOUS
  <2>1. PICK q \in Req : Step(q)
    BY DEF Next, Contribute, Unlink, Expire
  <2>2. q = r
    BY <2>1, StepKeeps DEF Kept
  <2>3. CommitStep(r) \/ Fail(r)
    <3>1. ~ (Receive(r) \/ HasYear(r) \/ Delete(r) \/ DeleteRow(r))
      BY DEF Receive, HasYear, Delete, DeleteRow
    <3>2. ~ (Deleted(r) \/ Acquire(r) \/ NotConnected(r) \/ Cached(r))
      BY DEF Deleted, Acquire, NotConnected, Cached
    <3>3. ~ (Fetch(r) \/ Put(r) \/ Select(r))
      BY DEF Fetch, Put, Select
    <3>4. ~ FlushRow(r)
      BY DEF FlushRow
    <3>5. ~ (Flushed(r) \/ Done(r))
      BY DEF Flushed, Done
    <3> QED BY <2>1, <2>2, <3>1, <3>2, <3>3, <3>4, <3>5 DEF Step
  <2>4. ~ Fail(r)
    <3>1. Fail(r) => req' = [req EXCEPT ![r] = Idle]
      BY DEF Fail
    <3>2. req \in [Req -> Request] /\ Idle.pc = "idle"
      BY DEF IInv, TypeOK, Idle
    <3> QED BY <3>1, <3>2
  <2> QED BY <2>3, <2>4, CommitKeeps
<1> QED BY <1>1, Invariance, PTL DEF Spec, RefreshIsWhole

-----------------------------------------------------------------------------
(***************************************************************************)
(* Newer counts are not overwritten by older ones.                         *)
(*                                                                         *)
(* The asyncio lock is released before the transaction ends, so it does    *)
(* not order the commits by itself.  OrderOK says how the two kinds of     *)
(* lock share the work: whoever holds the asyncio lock and asks GitHub     *)
(* asks after every version, committed or not, that was written under it,  *)
(* and the next version of a row is written by a transaction that keeps it *)
(* locked until its commit.                                                *)
(***************************************************************************)

(* The inductive invariant, on top of IInv *)

\* Version a may be overwritten by version b, which GitHub answered.
Before(a, b) ==
    a # None /\ b # None /\ a.key = b.key /\ b.live => a.ver <= b.ver

\* Version a may be overwritten with the counts ver by a request for key.
Behind(a, key, ver) == a # None /\ a.key = key => a.ver <= ver

\* No version is newer than GitHub, nor is a cached calendar.
KnownOK ==
    /\ \A l \in Label : calendar[l] # None => calendar[l] <= hub
    /\ \A d \in Day :
        /\ row[d] # None => row[d].ver <= hub
        /\ draft[d] # None => draft[d].ver <= hub

\* A commit never takes a row back.
ForwardOK == \A d \in Day : Before(row[d], draft[d])

\* Whoever aggregates holds the asyncio lock.
HoldsOK(r) ==
    req[r].pc \in {"fetch", "put", "select", "flush"} => mutex[req[r].key] = r

\* The counts a request is about to write are known to GitHub, and the newest
\* of its key if they are GitHub's answer.
LatestOK(r) ==
    req[r].pc \in {"put", "select", "flush"} =>
        /\ req[r].ver <= hub
        /\ req[r].live => \A d \in Day :
              /\ Behind(row[d], req[r].key, req[r].ver)
              /\ Behind(draft[d], req[r].key, req[r].ver)

OrderOK ==
    /\ KnownOK
    /\ ForwardOK
    /\ \A r \in Req : HoldsOK(r) /\ LatestOK(r)

\* A step of r leaves the asyncio locks of the other requests alone.
MutexKept(r) ==
    \A k \in Key : \A q \in Req \ {r} : mutex[k] = q => mutex'[k] = q

-----------------------------------------------------------------------------
(* The steps *)

\* A step of r that writes no row.
LEMMA QuietOrder ==
    ASSUME IInv, OrderOK, NEW r \in Req, Kept(r), MutexKept(r),
           UNCHANGED <<hub, db>>, HoldsOK(r)', LatestOK(r)',
           \A l \in Label : calendar'[l] # None => calendar'[l] <= hub
    PROVE  OrderOK'
<1>1. KnownOK' /\ ForwardOK'
  BY DEF OrderOK, KnownOK, ForwardOK, db
<1>2. ASSUME NEW q \in Req \ {r} PROVE HoldsOK(q)' /\ LatestOK(q)'
  <2>1. /\ req'[q] = req[q] /\ HoldsOK(q) /\ LatestOK(q)
        /\ req[q].pc # "idle" => req[q].key \in Key
    BY DEF Kept, OrderOK, IInv, RequestOK
  <2>2. HoldsOK(q)'
    BY <2>1 DEF HoldsOK, MutexKept
  <2>3. LatestOK(q)'
    BY <2>1 DEF LatestOK, db
  <2> QED BY <2>2, <2>3
<1> QED BY <1>1, <1>2 DEF OrderOK

\* A step of r that leaves each row one of the two versions it had.
LEMMA EndOrder ==
    ASSUME IInv, OrderOK, NEW r \in Req, Kept(r), MutexKept(r),
           UNCHANGED <<hub, calendar>>, req'[r].pc \in {"idle", "done"},
           \A d \in Day :
              /\ row'[d] \in {row[d], draft[d]}
              /\ draft'[d] \in {row[d], draft[d]}
              /\ \/ row'[d] = draft'[d]
                 \/ row'[d] = row[d] /\ draft'[d] = draft[d]
    PROVE  OrderOK'
<1>1. KnownOK'
  BY DEF OrderOK, KnownOK
<1>2. ForwardOK'
  <2> SUFFICES ASSUME NEW d \in Day PROVE Before(row'[d], draft'[d])
    BY DEF ForwardOK
  <2>1. row[d] \in Row \cup {None} /\ draft[d] \in Row \cup {None}
    BY DEF IInv, TypeOK
  <2>2. \A v \in Row \cup {None} : Before(v, v)
    BY DEF Before, Row
  <2> QED BY <2>1, <2>2 DEF OrderOK, ForwardOK
<1>3. HoldsOK(r)' /\ LatestOK(r)'
  BY DEF HoldsOK, LatestOK
<1>4. ASSUME NEW q \in Req \ {r} PROVE HoldsOK(q)' /\ LatestOK(q)'
  <2>1. /\ req'[q] = req[q] /\ HoldsOK(q) /\ LatestOK(q)
        /\ req[q].pc # "idle" => req[q].key \in Key
    BY DEF Kept, OrderOK, IInv, RequestOK
  <2>2. HoldsOK(q)'
    BY <2>1 DEF HoldsOK, MutexKept
  <2>3. LatestOK(q)'
    BY <2>1 DEF LatestOK
  <2> QED BY <2>2, <2>3
<1> QED BY <1>1, <1>2, <1>3, <1>4 DEF OrderOK

\* A statement of r writes its counts into one row, deletes it, or finds
\* nothing to write.
LEMMA RowOrder ==
    ASSUME IInv, OrderOK, NEW r \in Req, Kept(r),
           UNCHANGED <<hub, calendar, mutex, row>>,
           req[r].pc \in {"deleting", "flush"},
           req'[r].pc = req[r].pc, req'[r].key = req[r].key,
           req'[r].ver = req[r].ver, req'[r].live = req[r].live,
           NEW d \in Day,
           \A e \in Day \ {d} : draft'[e] = draft[e],
           \/ draft'[d] \in {None, draft[d]}
           \/ /\ req[r].pc = "flush"
              /\ draft'[d] \in Row
              /\ draft'[d].ver = req[r].ver /\ draft'[d].key = req[r].key
              /\ draft'[d].live = req[r].live
    PROVE  OrderOK'
<1>1. /\ KnownOK /\ ForwardOK /\ HoldsOK(r) /\ LatestOK(r)
      /\ req[r].key \in Key
  BY DEF OrderOK, IInv, RequestOK
<1>2. KnownOK'
  BY <1>1 DEF KnownOK, LatestOK
<1>3. ForwardOK'
  BY <1>1 DEF ForwardOK, Before, LatestOK, Behind
<1>4. HoldsOK(r)'
  BY <1>1 DEF HoldsOK
<1>5. LatestOK(r)'
  <2>0. req[r].pc = "flush" => req[r].ver <= hub
    BY <1>1 DEF LatestOK
  <2> SUFFICES ASSUME req[r].pc = "flush", req[r].live, NEW e \in Day
               PROVE  /\ Behind(row[e], req[r].key, req[r].ver)
                      /\ Behind(draft'[e], req[r].key, req[r].ver)
    BY <2>0 DEF LatestOK
  <2>1. /\ Behind(row[e], req[r].key, req[r].ver)
        /\ Behind(draft[e], req[r].key, req[r].ver)
    BY <1>1 DEF LatestOK
  <2>2. req[r].ver \in Nat
    BY DEF IInv, RequestOK
  <2>3. draft'[d] \in {None, draft[d]} \/ draft'[d].ver = req[r].ver
    OBVIOUS
  <2>4. Behind(draft'[e], req[r].key, req[r].ver)
    <3>1. CASE e = d /\ draft'[d].ver = req[r].ver
      BY <2>2, <3>1 DEF Behind
    <3>2. CASE e = d /\ draft'[d] \in {None, draft[d]}
      BY <2>1, <3>2 DEF Behind
    <3>3. CASE e # d
      <4>1. draft'[e] = draft[e]
        BY <3>3
      <4> QED BY <2>1, <4>1
    <3> QED BY <2>3, <3>1, <3>2, <3>3
  <2> QED BY <2>1, <2>4
<1>6. ASSUME NEW q \in Req \ {r} PROVE HoldsOK(q)' /\ LatestOK(q)'
  <2>1. req'[q] = req[q] /\ HoldsOK(q) /\ LatestOK(q)
    BY DEF Kept, OrderOK
  <2>2. HoldsOK(q)'
    BY <2>1 DEF HoldsOK
  <2>3. ASSUME req[q].pc \in {"put", "select", "flush"}, req[r].pc = "flush"
        PROVE  req[q].key # req[r].key
    BY <1>1, <2>1, <2>3 DEF HoldsOK
  <2>4. LatestOK(q)'
    <3>0. req[q].pc \in {"put", "select", "flush"} => req[q].ver <= hub
      BY <2>1 DEF LatestOK
    <3> SUFFICES ASSUME req[q].pc \in {"put", "select", "flush"},
                        req[q].live, NEW e \in Day
                 PROVE  /\ Behind(row[e], req[q].key, req[q].ver)
                        /\ Behind(draft'[e], req[q].key, req[q].ver)
      BY <2>1, <3>0 DEF LatestOK
    <3>1. /\ Behind(row[e], req[q].key, req[q].ver)
          /\ Behind(draft[e], req[q].key, req[q].ver)
      BY <2>1 DEF LatestOK
    <3> QED BY <2>3, <3>1 DEF Behind
  <2> QED BY <2>2, <2>4
<1> QED BY <1>2, <1>3, <1>4, <1>5, <1>6 DEF OrderOK

\* The steps outside the asyncio lock, and the one that takes it.
LEMMA OutsideOrder ==
    ASSUME IInv, OrderOK, NEW r \in Req, Kept(r), TypeOK',
           \/ Receive(r) \/ HasYear(r) \/ Delete(r) \/ Deleted(r)
           \/ Acquire(r)
    PROVE  OrderOK'
<1>1. UNCHANGED <<hub, calendar, db>> /\ req \in [Req -> Request]
  BY DEF IInv, TypeOK, Receive, HasYear, Delete, Deleted, Acquire
<1>2. \A l \in Label : calendar'[l] # None => calendar'[l] <= hub
  BY <1>1 DEF OrderOK, KnownOK
<1>3. CASE Acquire(r)
  <2>1. /\ mutex[req[r].key] = None
        /\ mutex' = [mutex EXCEPT ![req[r].key] = r]
        /\ Goto(r, "fetch")
    BY <1>3 DEF Acquire
  <2>2. req'[r].pc = "fetch" /\ req'[r].key = req[r].key
    BY <1>1, <2>1 DEF Goto, Request
  <2>3. req[r].key \in Key /\ mutex \in [Key -> Req \cup {None}]
    BY <1>3 DEF IInv, TypeOK, RequestOK, Acquire
  <2>4. MutexKept(r)
    BY <2>1, <2>3, NoneAssumption DEF MutexKept
  <2>5. HoldsOK(r)' /\ LatestOK(r)'
    BY <2>1, <2>2, <2>3 DEF HoldsOK, LatestOK
  <2> QED BY <1>1, <1>2, <2>4, <2>5, QuietOrder
<1>4. CASE Receive(r) \/ HasYear(r) \/ Delete(r) \/ Deleted(r)
  <2>1. req'[r].pc \in {"hasYear", "delete", "acquire", "deleting", "done"}
    <3>1. CASE Receive(r)
      <4>1. PICK k, kind :
              req' = [req EXCEPT ![r] = [Idle EXCEPT
                  !.pc = IF kind = "get" THEN "hasYear" ELSE "delete",
                  !.kind = kind, !.id = started, !.key = k]]
        BY <3>1 DEF Receive
      <4> QED BY <1>1, <4>1 DEF Idle
    <3>2. CASE HasYear(r)
      BY <1>1, <3>2 DEF HasYear, Goto, Request
    <3>3. CASE Deleted(r)
      BY <1>1, <3>3 DEF Deleted, Return, Request
    <3>4. CASE Delete(r)
      BY <1>1, <3>4 DEF Delete, Request
    <3> QED BY <1>4, <3>1, <3>2, <3>3, <3>4
  <2>2. MutexKept(r)
    BY <1>4 DEF MutexKept, Receive, HasYear, Delete, Deleted
  <2>3. HoldsOK(r)' /\ LatestOK(r)'
    BY <2>1 DEF HoldsOK, LatestOK
  <2> QED BY <1>1, <1>2, <2>2, <2>3, QuietOrder
<1> QED BY <1>3, <1>4

\* GitHub is read under the asyncio lock: its answer is the newest.
LEMMA FetchOrder ==
    ASSUME IInv, OrderOK, NEW r \in Req, Kept(r), Fetch(r)
    PROVE  OrderOK'
<1>1. /\ UNCHANGED <<hub, calendar, mutex, db>> /\ hub \in Nat
      /\ req \in [Req -> Request] /\ req[r].pc = "fetch"
      /\ req' = [req EXCEPT ![r].pc = "put", ![r].ver = hub, ![r].live = TRUE]
  BY DEF IInv, TypeOK, Fetch
<1>2. req'[r].pc = "put" /\ req'[r].ver = hub /\ req'[r].key = req[r].key
  BY <1>1 DEF Request
<1>3. HoldsOK(r)'
  BY <1>1, <1>2 DEF OrderOK, HoldsOK
<1>4. LatestOK(r)'
  BY <1>1, <1>2 DEF OrderOK, KnownOK, LatestOK, Behind, db
<1>5. \A l \in Label : calendar'[l] # None => calendar'[l] <= hub
  BY <1>1 DEF OrderOK, KnownOK
<1> QED BY <1>1, <1>3, <1>4, <1>5, QuietOrder DEF MutexKept

\* A count out of the cache is not newer than GitHub's.
LEMMA CachedOrder ==
    ASSUME IInv, OrderOK, NEW r \in Req, Kept(r), Cached(r)
    PROVE  OrderOK'
<1>1. /\ UNCHANGED <<hub, calendar, mutex, db>>
      /\ req \in [Req -> Request] /\ req[r].pc = "fetch"
      /\ calendar[req[r].key[2]] # None
      /\ req' = [req EXCEPT ![r].pc = "select", ![r].live = FALSE,
                            ![r].ver = calendar[req[r].key[2]]]
  BY DEF IInv, TypeOK, Cached
<1>2. /\ req'[r].pc = "select" /\ req'[r].ver = calendar[req[r].key[2]]
      /\ req'[r].key = req[r].key /\ req'[r].live = FALSE
  BY <1>1 DEF Request
<1>3. HoldsOK(r)'
  BY <1>1, <1>2 DEF OrderOK, HoldsOK
<1>4. \A l \in Label : calendar'[l] # None => calendar'[l] <= hub
  BY <1>1 DEF OrderOK, KnownOK
<1>5. req[r].key[2] \in Label
  BY <1>1 DEF IInv, RequestOK, Key
<1>6. LatestOK(r)'
  BY <1>1, <1>2, <1>4, <1>5 DEF LatestOK
<1> QED BY <1>1, <1>3, <1>4, <1>6, QuietOrder DEF MutexKept

\* The cache keeps what it has or takes GitHub's answer.
LEMMA PutOrder ==
    ASSUME IInv, OrderOK, NEW r \in Req, Kept(r), Put(r)
    PROVE  OrderOK'
<1>1. /\ UNCHANGED <<hub, mutex, db>> /\ req[r].pc = "put"
      /\ req \in [Req -> Request] /\ Goto(r, "select")
      /\ calendar \in [Label -> Nat \cup {None}]
  BY DEF IInv, TypeOK, Put
<1>2. /\ req'[r].pc = "select" /\ req'[r].ver = req[r].ver
      /\ req'[r].key = req[r].key /\ req'[r].live = req[r].live
  BY <1>1 DEF Goto, Request
<1>3. HoldsOK(r)' /\ LatestOK(r)' /\ req[r].ver <= hub
  BY <1>1, <1>2 DEF OrderOK, HoldsOK, LatestOK, db
<1>4. \A l \in Label : calendar'[l] # None => calendar'[l] <= hub
  <2>1. PICK kept \in {req[r].ver, calendar[req[r].key[2]]} :
          calendar' = [calendar EXCEPT ![req[r].key[2]] = kept]
    BY DEF Put
  <2>2. req[r].key[2] \in Label
    BY <1>1 DEF IInv, RequestOK, Key
  <2>3. \A l \in Label : calendar[l] # None => calendar[l] <= hub
    BY DEF OrderOK, KnownOK
  <2> QED BY <1>1, <1>3, <2>1, <2>2, <2>3
<1> QED BY <1>1, <1>3, <1>4, QuietOrder DEF MutexKept

\* The SELECT of the existing rows changes nothing of it.
LEMMA SelectOrder ==
    ASSUME IInv, OrderOK, NEW r \in Req, Kept(r), Select(r)
    PROVE  OrderOK'
<1>1. UNCHANGED <<hub, calendar, mutex, db>> /\ req[r].pc = "select"
  BY DEF Select
<1>2. req \in [Req -> Request]
  BY DEF IInv, TypeOK
<1>3. PICK seen, todo :
        req' = [req EXCEPT ![r].pc = "flush", ![r].seen = seen,
                    ![r].todo = todo]
  BY DEF Select
<1>4. /\ req'[r].pc = "flush" /\ req'[r].ver = req[r].ver
      /\ req'[r].key = req[r].key /\ req'[r].live = req[r].live
  BY <1>2, <1>3 DEF Request
<1>5. HoldsOK(r)' /\ LatestOK(r)'
  BY <1>1, <1>4 DEF OrderOK, HoldsOK, LatestOK, db
<1>6. \A l \in Label : calendar'[l] # None => calendar'[l] <= hub
  BY <1>1 DEF OrderOK, KnownOK
<1> QED BY <1>1, <1>5, <1>6, QuietOrder DEF MutexKept

\* The asyncio lock is released.
LEMMA LeaveOrder ==
    ASSUME IInv, OrderOK, NEW r \in Req, Kept(r), NotConnected(r) \/ Flushed(r)
    PROVE  OrderOK'
<1>1. UNCHANGED <<hub, calendar, db>> /\ Leave(r) /\ req \in [Req -> Request]
  BY DEF IInv, TypeOK, NotConnected, Flushed
<1>2. req'[r].pc \in {"commit", "done"}
  BY <1>1 DEF NotConnected, Flushed, Goto, Return, Request
<1>3. MutexKept(r)
  BY <1>1 DEF Leave, MutexKept
<1>4. HoldsOK(r)' /\ LatestOK(r)'
  BY <1>2 DEF HoldsOK, LatestOK
<1>5. \A l \in Label : calendar'[l] # None => calendar'[l] <= hub
  BY <1>1 DEF OrderOK, KnownOK
<1> QED BY <1>1, <1>3, <1>4, <1>5, QuietOrder

\* One row of the DELETE.
LEMMA DeleteRowOrder ==
    ASSUME IInv, OrderOK, NEW r \in Req, Kept(r), DeleteRow(r)
    PROVE  OrderOK'
<1>1. PICK d \in req[r].todo :
        /\ IF draft[d] # None /\ draft[d].by = req[r].seen[d].by
           THEN Write(r, d, None)
           ELSE UNCHANGED <<draft, lock>>
        /\ req' = [req EXCEPT ![r].todo = @ \ {d}]
  BY DEF DeleteRow
<1>2. /\ req[r].pc = "deleting" /\ UNCHANGED <<hub, calendar, mutex, row>>
      /\ req \in [Req -> Request] /\ draft \in [Day -> Row \cup {None}]
  BY DEF IInv, TypeOK, DeleteRow
<1>3. d \in Day
  BY <1>2 DEF Request
<1>4. /\ req'[r].pc = req[r].pc /\ req'[r].key = req[r].key
      /\ req'[r].ver = req[r].ver /\ req'[r].live = req[r].live
  BY <1>1, <1>2 DEF Request
<1>5. /\ draft'[d] \in {None, draft[d]}
      /\ \A e \in Day \ {d} : draft'[e] = draft[e]
  BY <1>1, <1>2, <1>3 DEF Write
<1> QED BY <1>2, <1>3, <1>4, <1>5, RowOrder

\* One row of the flush.
LEMMA FlushRowOrder ==
    ASSUME IInv, OrderOK, NEW r \in Req, Kept(r), TypeOK', FlushRow(r)
    PROVE  OrderOK'
<1>1. PICK d \in req[r].todo :
        /\ \/ \E by : Write(r, d,
                 [by |-> by, ver |-> req[r].ver,
                  key |-> req[r].key, live |-> req[r].live])
           \/ UNCHANGED <<draft, lock>>
        /\ req' = [req EXCEPT ![r].todo = @ \ {d}]
  BY DEF FlushRow
<1>2. /\ req[r].pc = "flush" /\ UNCHANGED <<hub, calendar, mutex, row>>
      /\ req \in [Req -> Request] /\ draft \in [Day -> Row \cup {None}]
      /\ draft' \in [Day -> Row \cup {None}]
  BY DEF IInv, TypeOK, FlushRow
<1>3. d \in Day
  BY <1>2 DEF Request
<1>4. /\ req'[r].pc = req[r].pc /\ req'[r].key = req[r].key
      /\ req'[r].ver = req[r].ver /\ req'[r].live = req[r].live
  BY <1>1, <1>2 DEF Request
<1>5. /\ \A e \in Day \ {d} : draft'[e] = draft[e]
      /\ \/ draft'[d] \in {None, draft[d]}
         \/ /\ draft'[d] \in Row
            /\ draft'[d].ver = req[r].ver /\ draft'[d].key = req[r].key
            /\ draft'[d].live = req[r].live
  <2>1. CASE UNCHANGED <<draft, lock>>
    BY <2>1
  <2>2. ASSUME NEW by, Write(r, d, [by |-> by, ver |-> req[r].ver,
                                    key |-> req[r].key, live |-> req[r].live])
        PROVE  /\ \A e \in Day \ {d} : draft'[e] = draft[e]
               /\ draft'[d] \in Row \cup {None}
               /\ draft'[d].ver = req[r].ver /\ draft'[d].key = req[r].key
               /\ draft'[d].live = req[r].live
    <3>1. /\ draft'[d] = [by |-> by, ver |-> req[r].ver,
                           key |-> req[r].key, live |-> req[r].live]
          /\ \A e \in Day \ {d} : draft'[e] = draft[e]
      BY <1>2, <1>3, <2>2 DEF Write
    <3>2. draft'[d] \in Row \cup {None}
      BY <1>2, <1>3
    <3> QED BY <3>1, <3>2
  <2> QED BY <1>1, <2>1, <2>2
<1> QED BY <1>2, <1>3, <1>4, <1>5, RowOrder

\* The commit makes the newest version of a locked row the committed one.
LEMMA CommitOrder ==
    ASSUME IInv, OrderOK, NEW r \in Req, Kept(r), CommitStep(r)
    PROVE  OrderOK'
<1>1. /\ row' = [d \in Day |-> View(r, d)]
      /\ UNCHANGED <<hub, calendar, mutex, draft>>
      /\ Goto(r, "done") /\ req \in [Req -> Request]
  BY DEF IInv, TypeOK, CommitStep
<1>2. req'[r].pc = "done"
  BY <1>1 DEF Goto, Request
<1>3. \A d \in Day :
        /\ row'[d] \in {row[d], draft[d]} /\ draft'[d] = draft[d]
        /\ row'[d] = draft'[d] \/ row'[d] = row[d]
  BY <1>1 DEF View
<1> QED BY <1>1, <1>2, <1>3, EndOrder DEF MutexKept

\* A rollback makes the committed version of a locked row the newest one.
LEMMA RollbackOrder ==
    ASSUME IInv, OrderOK, NEW r \in Req, Kept(r), Done(r) \/ Fail(r)
    PROVE  OrderOK'
<1>1. /\ draft' = [d \in Day |-> IF lock[d] = r THEN row[d] ELSE draft[d]]
      /\ UNCHANGED <<hub, calendar, row>> /\ req' = [req EXCEPT ![r] = Idle]
      /\ req \in [Req -> Request]
  BY DEF IInv, TypeOK, Done, Fail, Rollback
<1>2. req'[r].pc = "idle"
  BY <1>1 DEF Idle
<1>3. MutexKept(r)
  BY DEF MutexKept, Done, Fail, Leave
<1>4. \A d \in Day :
        /\ draft'[d] \in {row[d], draft[d]} /\ row'[d] = row[d]
        /\ row'[d] = draft'[d] \/ draft'[d] = draft[d]
  BY <1>1
<1> QED BY <1>1, <1>2, <1>3, <1>4, EndOrder

-----------------------------------------------------------------------------
(* The theorem *)

\* Every step of a request keeps the order.
LEMMA StepOrder ==
    ASSUME IInv, OrderOK, NEW r \in Req, Step(r) PROVE OrderOK'
<1>1. Kept(r) /\ TypeOK'
  BY StepKeeps DEF IInv
<1> QED
  BY <1>1, OutsideOrder, FetchOrder, CachedOrder, PutOrder,
     SelectOrder, LeaveOrder, DeleteRowOrder, FlushRowOrder,
     CommitOrder, RollbackOrder
  DEF Step

\* The initial states are in order: what is written is what GitHub had then.
LEMMA InitOrder == Init => OrderOK
<1> SUFFICES ASSUME Init PROVE OrderOK
  OBVIOUS
<1>1. ASSUME NEW d \in Day PROVE row[d] # None => row[d].ver = 0
  BY <1>1 DEF Init, Nothing, Stored
<1>2. draft = row /\ hub = 0
  BY DEF Init
<1>3. KnownOK
  BY <1>1, <1>2 DEF Init, KnownOK
<1>4. ForwardOK
  BY <1>1, <1>2 DEF ForwardOK, Before
<1>5. ASSUME NEW r \in Req PROVE HoldsOK(r) /\ LatestOK(r)
  BY DEF Init, Idle, HoldsOK, LatestOK
<1> QED BY <1>3, <1>4, <1>5 DEF OrderOK

\* Every step keeps the order.
LEMMA NextOrder == IInv /\ OrderOK /\ [Next]_vars => OrderOK'
<1> SUFFICES ASSUME IInv, OrderOK, [Next]_vars PROVE OrderOK'
  OBVIOUS
<1>1. CASE \E r \in Req : Step(r)
  BY <1>1, StepOrder
<1>2. CASE Contribute
  <2>1. hub' = hub + 1 /\ UNCHANGED <<calendar, mutex, db, req>>
    BY <1>2 DEF Contribute
  <2>2. /\ hub \in Nat
        /\ \A d \in Day : row[d] \in Row \cup {None}
                          /\ draft[d] \in Row \cup {None}
        /\ calendar \in [Label -> Nat \cup {None}]
        /\ \A r \in Req :
              req[r].pc \in {"put", "select", "flush"} => req[r].ver \in Nat
    BY DEF IInv, TypeOK, RequestOK
  <2>3. KnownOK' /\ ForwardOK'
    BY <2>1, <2>2 DEF OrderOK, KnownOK, ForwardOK, Row, db
  <2>4. ASSUME NEW r \in Req PROVE HoldsOK(r)' /\ LatestOK(r)'
    BY <2>1, <2>2 DEF OrderOK, HoldsOK, LatestOK, db
  <2> QED BY <2>3, <2>4 DEF OrderOK
<1>3. CASE Unlink \/ UNCHANGED vars
  <2>1. UNCHANGED <<hub, calendar, mutex, db, req>>
    BY <1>3 DEF Unlink, vars
  <2> QED
    BY <2>1 DEF OrderOK, KnownOK, ForwardOK, HoldsOK, LatestOK, db
<1>4. CASE \E l \in Label : Expire(l)
  <2>1. PICK l \in Label : calendar' = [calendar EXCEPT ![l] = None]
    BY <1>4 DEF Expire
  <2>2. UNCHANGED <<hub, mutex, db, req>>
    BY <1>4 DEF Expire
  <2>3. calendar \in [Label -> Nat \cup {None}]
    BY DEF IInv, TypeOK
  <2>4. \A k \in Label : calendar'[k] # None => calendar'[k] <= hub
    BY <2>1, <2>3 DEF OrderOK, KnownOK
  <2> QED
    BY <2>2, <2>4 DEF OrderOK, KnownOK, ForwardOK, HoldsOK, LatestOK, db
<1> QED BY <1>1, <1>2, <1>3, <1>4 DEF Next

\* In one worker and for one label GitHub's answer never replaces a newer
\* count: the asyncio lock and the row locks together order the writers.
THEOREM CountsNeverRegress == Spec => NoRegress
<1>1. Spec => []OrderOK
  BY InitOK, InitOrder, NextOrder, Invariance, PTL DEF Spec
<1>2. IInv /\ OrderOK /\ [Next]_vars =>
        [\A d \in Day :
            /\ row[d] # None /\ row'[d] # None
            /\ row[d].key = row'[d].key /\ row'[d].live
            => row[d].ver <= row'[d].ver]_vars
  <2> SUFFICES ASSUME IInv, OrderOK, Next, NEW d \in Day,
                      row[d] # None, row'[d] # None,
                      row[d].key = row'[d].key, row'[d].live
               PROVE  row[d].ver <= row'[d].ver
    OBVIOUS
  <2>1. row'[d] \in {row[d], draft[d]}
    <3>1. ASSUME NEW r \in Req, Step(r) PROVE row'[d] \in {row[d], draft[d]}
      <4>1. CASE CommitStep(r)
        BY <4>1 DEF CommitStep, View
      <4>2. CASE Receive(r) \/ HasYear(r) \/ Delete(r) \/ Deleted(r)
        BY <4>2 DEF Receive, HasYear, Delete, Deleted, db
      <4>3. CASE Acquire(r) \/ NotConnected(r) \/ Cached(r) \/ Fetch(r)
                 \/ Put(r) \/ Select(r)
        BY <4>3 DEF Acquire, NotConnected, Cached, Fetch, Put, Select, db
      <4>4. CASE DeleteRow(r) \/ FlushRow(r)
        BY <4>4 DEF DeleteRow, FlushRow
      <4>5. CASE Flushed(r) \/ Done(r) \/ Fail(r)
        BY <4>5 DEF Flushed, Done, Fail, Rollback, db
      <4> QED BY <3>1, <4>1, <4>2, <4>3, <4>4, <4>5 DEF Step
    <3>2. CASE Contribute \/ Unlink \/ \E l \in Label : Expire(l)
      BY <3>2 DEF Contribute, Unlink, Expire, db
    <3> QED BY <3>1, <3>2 DEF Next
  <2>2. row[d] \in Row
    BY DEF IInv, TypeOK
  <2> QED BY <2>1, <2>2 DEF OrderOK, ForwardOK, Before, Row
<1> QED BY <1>1, <1>2, Invariance, PTL DEF Spec, NoRegress
=============================================================================
