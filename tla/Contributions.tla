---------------------------- MODULE Contributions ----------------------------
(***************************************************************************)
(* The contribution heatmap of one user: ContributionService, its asyncio  *)
(* locks, the contributions table and the /contributions endpoints.        *)
(*                                                                         *)
(* A year is asked for by label ("current", or the year's number) and      *)
(* shown as a window of days; the window of the current year reaches back  *)
(* into the year before, so windows overlap.  The locks belong to one      *)
(* worker process and one label; the table is shared.  Requests of one     *)
(* login session wait for each other at the session's row (Sessions.tla),  *)
(* so requests in flight together are of several devices.                  *)
(*                                                                         *)
(* Every statement is an action and every row of a writing statement one   *)
(* step of it, under READ COMMITTED as in Sessions.tla.                    *)
(***************************************************************************)
EXTENDS Integers, FiniteSets

CONSTANTS
    Day,                \* calendar days
    Label,              \* labels of years
    Window,             \* Window[l]: the days shown for label l
    Worker,             \* backend processes
    Req,                \* requests that may be in flight together
    None,               \* "no such value"
    MaxHub,             \* bound: changes of the activity on GitHub
    MaxRequests         \* bound: requests received in a behaviour

VARIABLES
    hub,                \* GitHub: how often the user's activity has changed
    linked,             \* a linked account with a usable credential exists
    calendar,           \* Redis: the cached calendar of a window, or None
    mutex,              \* _AGGREGATION_LOCKS of every worker: holder or None
    row,                \* row[d]: committed row of day d, or None
    draft,              \* draft[d]: newest version of that row
    lock,               \* lock[d]: the request whose transaction holds it
    started,            \* requests received so far
    req                 \* req[r]: the request's step and local variables

db   == <<row, draft, lock>>
vars == <<hub, linked, calendar, mutex, db, started, req>>

ASSUME WindowAssumption == Window \in [Label -> SUBSET Day]
ASSUME BoundsAssumption == MaxHub \in Nat /\ MaxRequests \in Nat

Key == Worker \X Label

\* A row is told from a later one of the same day by the request that
\* inserted it; ver stands for its count, key for who wrote it, and live says
\* that the count was GitHub's answer, not the cache's.
Row == [by: Nat, ver: Nat, key: Key, live: BOOLEAN]

ASSUME NoneAssumption == None \notin Req \cup Row \cup Nat

Steps == {"idle", "hasYear", "delete", "deleting", "acquire", "fetch",
    "put", "select", "flush", "commit", "done"}

\* kind: GET, GET ?refresh=true, or POST /refresh.  seen[d]: the row of day d
\* as a statement saw it.  What the answer shows is left out.
Request == [pc: Steps, kind: {"none", "get", "again", "post"}, id: Nat,
    key: Key \cup {None}, ver: Nat \cup {None}, live: BOOLEAN,
    seen: [Day -> Row \cup {None}], todo: SUBSET Day]

Nothing == [d \in Day |-> None]

Idle == [pc |-> "idle", kind |-> "none", id |-> 0, key |-> None, ver |-> None,
    live |-> FALSE, seen |-> Nothing, todo |-> {}]

-----------------------------------------------------------------------------
(* Helpers *)

Goto(r, step) == req' = [req EXCEPT ![r].pc = step]

\* What a statement saw is forgotten when it is over.
Return(r, step) == req' = [req EXCEPT ![r].pc = step, ![r].seen = Nothing]

Days(r) == Window[req[r].key[2]]

Free(r, d) == lock[d] \in {None, r}

\* What a SELECT of r finds for day d: its own version or the committed one.
View(r, d) == IF lock[d] = r THEN draft[d] ELSE row[d]

\* INSERT, UPDATE or DELETE of the row of day d by r.
Write(r, d, value) ==
    /\ Free(r, d)
    /\ draft' = [draft EXCEPT ![d] = value]
    /\ lock' = [lock EXCEPT ![d] = r]

Release(r) == lock' = [d \in Day |-> IF lock[d] = r THEN None ELSE lock[d]]

Rollback(r) ==
    /\ draft' = [d \in Day |-> IF lock[d] = r THEN row[d] ELSE draft[d]]
    /\ Release(r)
    /\ UNCHANGED row

\* async with lock: left by a return and by an exception.
Leave(r) ==
    mutex' = [k \in Key |-> IF mutex[k] = r THEN None ELSE mutex[k]]

\* What an earlier request, which was number 0, has left.
Stored(k) ==
    [d \in Day |-> IF d \in Window[k[2]]
                   THEN [by |-> 0, ver |-> 0, key |-> k, live |-> TRUE]
                   ELSE None]

Init ==
    /\ hub = 0 /\ linked = TRUE /\ started = 1
    /\ calendar \in [Label -> {None, 0}]
    /\ mutex = [k \in Key |-> None]
    /\ row \in {Nothing} \cup {Stored(k) : k \in Key} /\ draft = row
    /\ lock = [d \in Day |-> None]
    /\ req = [r \in Req |-> Idle]

-----------------------------------------------------------------------------
(* External: GitHub and the account *)

Contribute ==
    /\ hub < MaxHub
    /\ hub' = hub + 1
    /\ UNCHANGED <<linked, calendar, mutex, db, started, req>>

\* The account is unlinked, or its credential expires or is revoked.
Unlink ==
    /\ linked
    /\ linked' = FALSE
    /\ UNCHANGED <<hub, calendar, mutex, db, started, req>>

\* Redis drops a cached calendar after GH_CACHE_TTL_SECONDS * 60, or restarts.
Expire(l) ==
    /\ calendar[l] # None
    /\ calendar' = [calendar EXCEPT ![l] = None]
    /\ UNCHANGED <<hub, linked, mutex, db, started, req>>

-----------------------------------------------------------------------------
(* The endpoints, ensure_year and refresh *)

Receive(r) ==
    /\ req[r].pc = "idle"
    /\ started < MaxRequests /\ started' = started + 1
    /\ \E k \in Key, kind \in {"get", "again", "post"} :
        req' = [req EXCEPT ![r] = [Idle EXCEPT
            !.pc = IF kind = "get" THEN "hasYear" ELSE "delete",
            !.kind = kind, !.id = started, !.key = k]]
    /\ UNCHANGED <<hub, linked, calendar, mutex, db>>

\* ensure_year: one row of the window is enough for _has_year.
HasYear(r) ==
    /\ req[r].pc = "hasYear"
    /\ Goto(r, IF \E d \in Days(r) : row[d] # None THEN "done" ELSE "acquire")
    /\ UNCHANGED <<hub, linked, calendar, mutex, db, started>>

\* refresh: the DELETE finds the rows its snapshot sees ...
Delete(r) ==
    /\ req[r].pc = "delete"
    /\ req' = [req EXCEPT ![r].pc = "deleting", ![r].seen = row,
          ![r].todo = {d \in Days(r) : row[d] # None}]
    /\ UNCHANGED <<hub, linked, calendar, mutex, db, started>>

\* ... and waits for each; a row that was deleted meanwhile is skipped, even
\* if there is a new one for its day.
DeleteRow(r) ==
    /\ req[r].pc = "deleting"
    /\ \E d \in req[r].todo :
        /\ Free(r, d)
        /\ IF draft[d] # None /\ draft[d].by = req[r].seen[d].by
           THEN Write(r, d, None)
           ELSE UNCHANGED <<draft, lock>>
        /\ req' = [req EXCEPT ![r].todo = @ \ {d}]
    /\ UNCHANGED <<hub, linked, calendar, mutex, row, started>>

\* The deletion is committed before GitHub is asked.
DeletedCommitted(r) ==
    /\ req[r].pc = "deleting" /\ req[r].todo = {}
    /\ row' = [d \in Day |-> View(r, d)]
    /\ Release(r)
    /\ Goto(r, "acquire")
    /\ UNCHANGED <<hub, linked, calendar, mutex, draft, started>>

\* The rows stay locked while the request waits for the asyncio lock.
Deleted(r) ==
    /\ req[r].pc = "deleting" /\ req[r].todo = {}
    /\ Return(r, "acquire")
    /\ UNCHANGED <<hub, linked, calendar, mutex, db, started>>

-----------------------------------------------------------------------------
(* _aggregate and _aggregate_locked *)

\* No lock is waited for.
AcquireAtOnce(r) ==
    /\ req[r].pc = "acquire"
    /\ mutex' = [mutex EXCEPT ![req[r].key] = r]
    /\ Goto(r, "fetch")
    /\ UNCHANGED <<hub, linked, calendar, db, started>>

Acquire(r) ==
    /\ req[r].pc = "acquire"
    /\ mutex[req[r].key] = None
    /\ mutex' = [mutex EXCEPT ![req[r].key] = r]
    /\ Goto(r, "fetch")
    /\ UNCHANGED <<hub, linked, calendar, db, started>>

\* No credential or no login: the aggregation returns False.
NotConnected(r) ==
    /\ req[r].pc = "fetch"
    /\ ~linked
    /\ Leave(r)
    /\ Goto(r, IF req[r].kind = "post" THEN "commit" ELSE "done")
    /\ UNCHANGED <<hub, linked, calendar, db, started>>

\* An error of GitHub is swallowed: there may be no counts to go on with.
FetchSwallowed(r) ==
    /\ req[r].pc = "fetch"
    /\ linked
    /\ \E ver \in {hub, None} :
        req' = [req EXCEPT ![r].pc = IF ver = None THEN "select" ELSE "put",
                           ![r].ver = ver, ![r].live = TRUE]
    /\ UNCHANGED <<hub, linked, calendar, mutex, db, started>>

\* get_contribution_calendar: the cached calendar of the window is taken, by
\* whichever worker it was put there ...
Cached(r) ==
    /\ req[r].pc = "fetch"
    /\ linked
    /\ calendar[req[r].key[2]] # None
    /\ req' = [req EXCEPT ![r].pc = "select", ![r].live = FALSE,
                          ![r].ver = calendar[req[r].key[2]]]
    /\ UNCHANGED <<hub, linked, calendar, mutex, db, started>>

\* ... and if there is none, or Redis does not answer, GitHub is asked.
Fetch(r) ==
    /\ req[r].pc = "fetch"
    /\ linked
    /\ req' = [req EXCEPT ![r].pc = "put", ![r].ver = hub, ![r].live = TRUE]
    /\ UNCHANGED <<hub, linked, calendar, mutex, db, started>>

\* The answer is cached, unless Redis fails, which is only logged.
Put(r) ==
    /\ req[r].pc = "put"
    /\ \E kept \in {req[r].ver, calendar[req[r].key[2]]} :
        calendar' = [calendar EXCEPT ![req[r].key[2]] = kept]
    /\ Goto(r, "select")
    /\ UNCHANGED <<hub, linked, mutex, db, started>>

\* The rows that exist are taken as committed, not as this transaction has
\* them.
SelectCommitted(r) ==
    /\ req[r].pc = "select"
    /\ req' = [req EXCEPT ![r].pc = "flush", ![r].seen = row,
          ![r].todo = {d \in Days(r) :
              row[d] = None \/ (row[d] # None /\ row[d].ver # req[r].ver)}]
    /\ UNCHANGED <<hub, linked, calendar, mutex, db, started>>

\* The existing rows are loaded.  A missing day gets a new row; an existing
\* row is written only if its counts change.
Select(r) ==
    /\ req[r].pc = "select"
    /\ LET seen == [d \in Day |-> View(r, d)]
       IN  req' = [req EXCEPT ![r].pc = "flush", ![r].seen = seen,
              ![r].todo = {d \in Days(r) :
                  seen[d] = None \/ seen[d].ver # req[r].ver}]
    /\ UNCHANGED <<hub, linked, calendar, mutex, db, started>>

\* The flush: UPDATEs by primary key, then INSERTs.  An INSERT that finds a row
\* raises IntegrityError: the step is not enabled and the request fails.  An
\* UPDATE whose row was deleted meanwhile raises StaleDataError or, since the
\* rows that a batch of UPDATEs finds need not be counted, does nothing.
FlushRow(r) ==
    /\ req[r].pc = "flush"
    /\ \E d \in req[r].todo :
        LET seen == req[r].seen[d]
            by == IF seen = None THEN req[r].id ELSE seen.by
            found == draft[d] # None /\ draft[d].by = by
        IN  /\ seen = None => /\ draft[d] = None
                              /\ \A e \in req[r].todo : req[r].seen[e] = None
            /\ Free(r, d)
            /\ IF seen = None \/ found
               THEN Write(r, d, [by |-> by, ver |-> req[r].ver,
                                 key |-> req[r].key, live |-> req[r].live])
               ELSE UNCHANGED <<draft, lock>>
            /\ req' = [req EXCEPT ![r].todo = @ \ {d}]
    /\ UNCHANGED <<hub, linked, calendar, mutex, row, started>>

\* The asyncio lock is released before the transaction ends.
Flushed(r) ==
    /\ req[r].pc = "flush" /\ req[r].todo = {}
    /\ Leave(r)
    /\ Return(r, IF req[r].kind = "post" THEN "commit" ELSE "done")
    /\ UNCHANGED <<hub, linked, calendar, db, started>>

-----------------------------------------------------------------------------
(* The end of a request *)

\* POST /refresh commits, whatever the aggregation returned.
CommitStep(r) ==
    /\ req[r].pc = "commit"
    /\ row' = [d \in Day |-> View(r, d)]
    /\ Release(r)
    /\ Goto(r, "done")
    /\ UNCHANGED <<hub, linked, calendar, mutex, draft, started>>

\* The response is out.  A GET has not committed: its session is closed and
\* rolls back.
Done(r) ==
    /\ req[r].pc = "done"
    /\ Rollback(r)
    /\ req' = [req EXCEPT ![r] = Idle]
    /\ UNCHANGED <<hub, linked, calendar, mutex, started>>

\* GitHub or Postgres fails, a constraint is violated, a deadlock of row
\* locks is broken, or the worker dies.
Fail(r) ==
    /\ req[r].pc \notin {"idle", "done"}
    /\ Rollback(r)
    /\ Leave(r)
    /\ req' = [req EXCEPT ![r] = Idle]
    /\ UNCHANGED <<hub, linked, calendar, started>>

Step(r) ==
    \/ Receive(r) \/ HasYear(r) \/ Delete(r) \/ DeleteRow(r) \/ Deleted(r)
    \/ Acquire(r) \/ NotConnected(r) \/ Cached(r) \/ Fetch(r) \/ Put(r)
    \/ Select(r) \/ FlushRow(r) \/ Flushed(r) \/ CommitStep(r)
    \/ Done(r) \/ Fail(r)

Next ==
    \/ Contribute
    \/ Unlink
    \/ \E l \in Label : Expire(l)
    \/ \E r \in Req : Step(r)

Spec == Init /\ [][Next]_vars

-----------------------------------------------------------------------------
(* Properties *)

\* Every variable keeps its type.
TypeOK ==
    /\ hub \in Nat /\ linked \in BOOLEAN /\ started \in Nat
    /\ calendar \in [Label -> Nat \cup {None}]
    /\ mutex \in [Key -> Req \cup {None}]
    /\ row \in [Day -> Row \cup {None}] /\ draft \in [Day -> Row \cup {None}]
    /\ lock \in [Day -> Req \cup {None}]
    /\ req \in [Req -> Request]

\* A committed day is lost only to a refresh of a user whose account or
\* credential is gone: failures, cancelled requests and refreshes that overlap
\* leave every day they found.
NoDayLost ==
    [][\A d \in Day : row[d] # None /\ row'[d] = None => ~linked]_vars

\* While the account is linked, a refresh that commits leaves a row for every
\* day of its window, its own or another's.
RefreshIsWhole ==
    [][\A r \in Req : req[r].pc = "commit" /\ req'[r].pc = "done" /\ linked =>
        \A d \in Days(r) : row'[d] # None]_vars

\* In one worker and for one label GitHub's own answer never replaces a newer
\* count: the asyncio lock orders the readings of GitHub, and the row locks the
\* transactions that outlive it.  A count out of the cache may.
NoRegress ==
    [][\A d \in Day :
        /\ row[d] # None /\ row'[d] # None
        /\ row[d].key = row'[d].key /\ row'[d].live
        => row[d].ver <= row'[d].ver]_vars
=============================================================================
