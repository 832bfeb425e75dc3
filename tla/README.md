# GitPilot: models, checks and proofs

GitPilot (`src/`) signs users in with GitHub or a password, keeps their
sessions, and is a gateway to the GitHub API with a contribution heatmap. The
backend is FastAPI on asyncio, in four worker processes
(`docker-compose.yml:97`), with PostgreSQL and Redis; the frontend is Next.js.
This directory holds TLA+ models of the parts where order and failure matter,
TLC runs on small instances, and TLAPS proofs for every value of the constants.

    tlc -config Sessions.cfg SessionsMC.tla      # a run
    tlapm SessionsProofs.tla                     # a module of proofs, a minute or two

`PROJECT.json` lists components, runs, the source lines of every definition,
the mutants that show each property can fail, findings, hazards and theorems.

## Inventory

| Component | State it keeps | Operations | What makes it hard |
|---|---|---|---|
| Sessions (`SessionService`, `SessionStore`, the auth dependencies, `/auth`, `/sessions`) | Redis: a record per token, an index per user. Postgres: a row per session. The browser's cookie | create, validate, touch, expire, rotate, revoke, revoke all, log out, log out everywhere | two stores without a common transaction; read, await, write back; a rotation in the middle of other requests |
| GitHub sign-in and linking (`OAuthService`, `/oauth`, `unlink`) | `oauth_states`, `users`, `github_accounts`, `github_credentials`; parked links in Redis; GitHub's codes | begin, callback, park, complete a link, unlink | a callback makes three remote calls between its reads and writes; may be sent twice or in parallel; fails in parts |
| Contributions (`ContributionService`, `/contributions`) | a row per user and day; asyncio locks per worker, user and label; a cache in Redis | ensure a year, refresh, show | deletes before it re-reads; windows overlap; two kinds of lock; GETs that do not commit |
| Credentials (`TokenService`, vault) | `github_credentials` | store, deactivate, decrypt | one active row per account |
| Accounts (`AuthService`, `/auth`) | `users`, verification tokens in Redis | register, log in, change password, ask for and complete a verification | Redis token used before the commit; two inserts of one email; late writes of what was read before |
| GitHub client (`GitHubAPIClient`) | ETag cache in Redis: body and header under two keys; counts under keys of their own | request with retries, conditional GET, pages, cached counts | retried POSTs, half-written cache, 304 without a body, `while True` |
| Repository gateway (`RepositoryService`, `/repositories`, `/issues`) | none of its own: changes at GitHub and audit records | 38 operations, each a call, a record and perhaps a commit | the change and its record are in two systems; answers may be lost |
| GitHub App auth (`GitHubAppAuthService`) | cached installation ids and tokens | resolve an id, issue a token, use it | a token's life runs while its answer travels; the id outlives its installation |
| Rate limiter (`RateLimiter`) | a counter with a TTL for each bucket | check, reset | INCR and EXPIRE are two commands; windows start with a request |
| Audit, API keys, user profile | Postgres rows | one row each | little |
| Browser client (`frontend/lib/api.ts`) | CSRF token, cookie | call, retry after 401 | rotated cookies arrive in any order |
| Configuration, HTTP wiring, migrations, deployment | none | | |

Interactions: every request resolves its session first (`dependencies.py`) and
keeps the row lock that the touch takes until its transaction ends; the OAuth
callback ends by creating a session in its own transaction; contributions read
the credential that sign-in stored and unlink removes; the client is called by
all of them. Redis writes take effect at once and survive a rollback.

What makes each correct: a session admits only what its login allowed, ends for
good, and has one successor per rotation; an identity belongs to one user and
signs in that user only; a year is never lost or half-written by a refresh, and
its streaks and totals say what its rows say; a cached answer is one GitHub
confirmed, and not for longer than its key's time to live; the audit trail tells
of no change that was not made, and success is told of none either, but for what a
redirect was taken for (a finding); a token
outlives the call it is handed out for; a bucket admits no more than it may; an
account belongs to who was told so, and a verification is not taken back.

## Modules

| Module | Models | |
|---|---|---|
| `Sessions` | the sessions of one user, Redis and Postgres apart | properties at the end |
| `SessionLifecycle` | what the sessions table promises | implemented by `Sessions` |
| `OAuthFlow` | sign-in, parked links, unlinking, the unique keys | properties at the end |
| `IdentityOwnership` | what linking promises | implemented by `OAuthFlow` |
| `Contributions` | the year cache of one user over several workers, fed from the cached calendar | properties at the end |
| `ContributionMath` | windows, streaks and statistics, over days that go by | operators beside their reference definitions |
| `GitHubClient` | GETs: retries, ETag cache, pages, cached counts | properties at the end |
| `GatewayRoutes` | tables: what each operation does at GitHub, records and commits | used by the next |
| `RepositoryGateway` | a gateway request from the token to the commit | properties at the end |
| `AppTokens` | installation ids and tokens against the clock | properties at the end |
| `RateLimiter` | one counter per bucket | extended by the next |
| `Accounts` | register, login, resend and verify behind the rate limiter | properties at the end |
| `AtomicAccounts` | what the account endpoints promise | implemented by `Accounts` |
| `...MC` | the constants and symmetry of a module's runs | extends the module |
| `SessionsProofs`, `OAuthFlowProofs`, `ContributionsProofs`, `ContributionMathProofs`, `AppTokensProofs`, `RepositoryGatewayProofs`, `AccountsProofs`, `GitHubClientProofs` | theorems | each extends its module |

### Common conventions

A request is `Req`'s member with a program counter; an action is one Redis
command, one database statement, one row of a statement that writes several, or
one remote call: the code runs alone between two awaits and anything may run at
an await. Postgres is at READ COMMITTED: `row` is what is committed, `draft`
the newest version, `lock` the transaction that holds the row. A statement
that must wait is not enabled; one that violates a constraint is not enabled
either, and the request can then only `Fail`. `Fail` is possible at every step:
an exception, a Redis or GitHub error, a deadlock that Postgres breaks, or the
worker's death; `get_db_session` rolls back, Redis keeps what it has.

### Sessions

`store` is the Redis records, `index` the user's set of tokens, `row`/`draft`/
`lock` the table, `handed` the tokens a browser has received; `born` and
`issued` are history (the login instant of a session, the session a token was
drawn for). `Login`, `SaveKey`, `SaveIndex`, `CommitStep`, `Reply` are a login
(and the end of an OAuth callback). `Send` presents any token ever handed out.
`Validate`, `DropFromIndex`, `DeleteKey`, `ExpireRow`, `TouchGet`, `TouchSet`,
`TouchRow` are `validate`; `Admit`, `AdmitPlain`, `Rotate` and then again
`SaveKey`, `SaveIndex`, `DropFromIndex`, `DeleteKey` and the second touch are the
two dependencies; the rest are the endpoints. Simplifications, each of which
keeps the order of effects:

- GET and SREM of `SessionStore.delete`, SADD and EXPIRE of `save`, are one step.
- Redis's TTL is given an absolute instant (`session_store.py:58`), decades away,
  so records do not expire by themselves; the two expiry tests decide.
- `remember_me` is another `SessionTTL`.
- A 401 always rolls back, so what `_expire_db_session` writes survives only in
  `GET /oauth/github/begin`, which validates the cookie and then commits.
- `get_current_user` serves GETs only, which never commit.
- `rotate`'s UPDATE writes the token hash and finds the row locked already by the
  touch; it changes neither status nor lock.

### OAuthFlow

`Begin` and `Register` are single transactions and single steps. `Authorize` is
GitHub: a state's page may be authorized more than once and gives another code
each time; a code is redeemed once. `Callback` to `InsertCredential` and `Commit`
are `handle_callback` and its endpoint, with the three ways a known identity can
go; `CompleteLink` to `DropPending` are the password page; `Unlink`, `Scan`,
`Deactivate`, `DeleteAccount` are the unlinking. A user's email is named by the
identity with the same address. `Rollback` also covers a parked link, which
un-consumes the state. Left out: the audit records and profile fields, an error
instead of a code, and a redirect URI that changed between begin and callback.

### Contributions

A row is who inserted it, the version of GitHub's activity its counts come from,
and the worker and label that wrote them; an UPDATE happens only if counts
change. `Delete` and `DeleteRow` are `refresh`, `Acquire` to `Flushed` the
aggregation under the asyncio lock, `Answer`, `CommitStep` and `Done` the
endpoints. One reading of GitHub is one version: the calendar and the days of
each type are not told apart. `Receive` and `Put` are the calendar's cache: an
answer is kept for an hour in one Redis key that all workers read, which makes
the version a refresh reads older than GitHub's. The flush writes UPDATEs before
INSERTs, as SQLAlchemy does, in any order of days. An UPDATE whose row another
request has deleted since the SELECT finds nothing to write: in a batch that may go
unnoticed (`FlushRow` goes on), or SQLAlchemy raises an error (`Fail`).

### ContributionMath

`today` and `rows` are all there is. `NextDay` lets a day pass; `Refresh` is a
refresh or an aggregation of this year or the one before, which gives every day of
the window a row with what GitHub says by then, whatever the row said before, or
leaves the window deleted (a user whose credential is gone). So a count changes
as often as GitHub's does, and the rows of a window may be from different days.
`Window`, `LongestStreak`, `CurrentStreak`, `Totals`, `MostActive` and
`Reported` follow `_window_bounds`, `get_streaks` and `get_statistics` loop by
loop (recursive functions where the code loops). The calendar is regular: months
of one length, so that a year fits a run. What the code does with it does not
depend on the lengths: it goes to the first of a month and from day to day.

### GitHubClient

`body`, `header` and `count` are Redis keys with a version and the ticks left to
them; `upstream` is GitHub's version of each page and `outdated` how long a
version has been replaced (history). `Lookup`, `Receive`/`NotModified`, `Store`
(twice: body, then header), `ReadBody`, `ReadHeader` are one GET; `Retry`/
`GiveUp` an attempt that fails; `LookupCount`/`StoreCount` the helpers that cache
a number. Any Redis command may fail: the code logs that and goes on as if the
key were missing. `Deliver` starts the next page of `paginate` or
`search`. `Tick` is Redis's clock; between an answer and its storing at most one
tick passes, which is the `+ 1` of `StalenessBounded`.

### GatewayRoutes and RepositoryGateway

A row of each table is one helper of the client (what it does at GitHub, how the
answer is read), one method of the service (which audit record it adds) and one
endpoint (whether it commits). `RepositoryGateway` runs two requests for any two
rows: the token, up to `MaxAttempts` attempts of which each may be lost before or
after GitHub did what it asks, the answer read as a model, the record, the
commit. GitHub is the set of things that are there; what an attempt
does to it and answers follows from the row's effect. Any attempt may also be answered with a
redirect (`Redirect`: 301, 307 or 308 for what was renamed or transferred), under
which nothing is done. `GitHubAPIClient.request` raises from 400 on only
(client.py:177) and its httpx client (:84) follows no redirects, so the answer is
returned as a success (:208; `Answered`). What comes of it depends on the helper:
one that reads a model fails on it (`Unreadable`), `delete_repository`,
`create_branch`, `request_reviewers` and `dispatch_workflow` do not look at it,
and `submit_review` hands it on as it is (`Misread`). The record and the commit
follow, and success is told of no change: `Redirect`, `Answered`, `Parse`, `Audit`,
`Commit`. `TrailFaithful` and `SuccessIsTrue` therefore name this one exception;
without it TLC finds both violated. Whether the answer of
a merged pull request can be read as the model the client expects is left open,
since that is up to GitHub's fields.

### AppTokens

Each step carries `since`, when it began; `Tick` never passes a step's `Limit`.
So a token that was issued while its answer was on the way has lived by the time
it arrives, and the time to live of its key is computed at one moment and
counted from a later one, as in `installation_token_for`
(github_app_auth_service.py:143-154, with `_token_ttl_seconds`). The four ways to find an id are
tried in the code's order. `Install`/`Uninstall` are the owner's, `Flush` is
Redis losing its keys.

### RateLimiter and Accounts

`Incr` and `Expire` of `RateLimiter` are steps of `Accounts`' requests, which
come to `Admit` or `TooMany` with what INCR told them. `Address` are emails as they
are typed and `Lower` maps them to the email an account is kept under
(auth_service.py:71, :118): a login is counted under the address as typed
(auth.py:79), so one account has as many buckets as its email has spellings, and
`SpanBounded` is about each of them. Registrations from one client share one
bucket. Verification
gets its Redis token (`GetToken`) and then reads the account, as two steps that
others come between. Registration, login,
resend and verification read the account, write it under its row lock or the
unique index, keep or delete the Redis token, and commit last; an UPDATE writes
the columns that changed since they were read, as SQLAlchemy does (`Changed`). A
commit is followed by the answer ("done"), or the worker dies before it ("lost"). A
token may be shown to anyone once its request has answered (`Show`). Left out:
hashing, the audit records, change of password, disabled users (no code disables
one).

`AtomicAccounts` says what the endpoints promise to requests that overlap: the
effect, and the success they report, of requests that are carried out one at a
time. Its step is the commit; everything before it (the check of the email, the
token in Redis, the reading of a row that others write) is invisible. A request
that is carried out may fail to be told so, since the answer may be lost; one that
fails before its commit does nothing. The refinement maps `done` to the requests
that committed, with the user each was about and whether it was told (`Done`).

## Runs

| Run | Shows | Bounds |
|---|---|---|
| `sessions` | `TypeOK`, `RecordsFaithful`, `HandedHasRow`, `RotationExclusive`, `AdmittedInLifetime`, `ImplementsLifecycle` hold | 3 tokens, 2 sessions, 2 requests at once, 4 in all, clock to 3 with idle 2, TTL 3, rotation 1 |
| `sessions_revoked` | a revoked session is still admitted | the same |
| `oauth` | `TypeOK`, `ReplayRefused`, `SignedInOwnsIdentity` hold | 1 identity, 2 states, codes and users, 1 link token, 2 requests, state TTL 1, clock to 2 |
| `oauth_two` | `CredentialOfIdentity`, `ImplementsOwnership` hold | 2 identities, clock stands still |
| `oauth_single_use` | one state signs in twice | as `oauth` |
| `contributions` | `TypeOK`, `NoDayLost`, `RefreshIsWhole`, `NoRegress` hold | 2 days, 2 windows sharing one, a window that an earlier request stored, or none, and cached calendars, or none; then 2 workers, 2 requests, 1 change at GitHub |
| `contribution_math` | `TwelveMonths`, `StreaksRight`, `TotalsAgree` hold | a year of 3 months of 2 days, weeks of 3 days, counts 0 and 2, any refreshes of two years, from the second year's first day to the third year's first |
| `github_client` | `StalenessBounded`, `OrphanedETagGoes` hold | 2 requests of one page, TTL 2, 1 change, Redis failing at any command |
| `github_client_list` | `TypeOK`, `ServedAsConfirmed`, `ReadingEnds` hold | 1 request, 2 pages, 2 attempts, TTL 2 |
| `gateway` | `TypeOK`, `TrailFaithful`, `SuccessIsTrue`, `RequestEnds` hold | 2 requests, 2 attempts, a redirect at any of them, an operation for every combination of table entries |
| `app_tokens` | `TypeOK`, `TokenOutlivesUse`, `OldIdForgotten` hold | 2 requests, 2 installations, life 5, leeway 2, clock to 5 |
| `accounts` | `TypeOK`, `SpanBounded`, `CreatedIsMine`, `VerifiedForGood`, `ImplementsAtomic` hold | 3 requests for one email typed in two ways, limit 1, window 2, clock to 3, answers lost or not |

Why the bounds are enough. Two requests meet in every pair of steps; a third
request in sequence gives the state the two meet in (in `sessions`, a login, a
request that rotates, and two more that overlap it or each other). Three tokens
are a login and two rotations, or two logins and one. The clock passes every
expiry: idle, absolute and rotation in `sessions`, the state's in `oauth`. In
`oauth` two codes are what a repeated authorization needs, and each `Code` is
redeemed once, which bounds the sign-ins; two users are an owner and a
successor. Two days are one that the windows share and one that they do not, so
that a window can be partly stored. An UPDATE in `FlushRow` whose row has vanished needs a third
request (one stores the day before the SELECT, one deletes it after), so `contributions` does not reach that branch: its properties were
checked once with one worker and `MaxRequests = 4` (4,159,153 states, no error),
too long for a run that is repeated, and `ContributionsProofs` covers it for any
number of requests. The days of `contribution_math` pass the end
of a year with both a whole window and a cut one; two counts are enough, a day with
contributions and one without, and the row that is missing is the third. In `github_client` a tick can
fall between any two steps and two requests store one after the other;
`github_client_list` has one request because `ServedAsConfirmed` is about GETs
that do not overlap (of two that do, the opposite is a finding). Of `gateway`'s
38 operations 14 differ in their table rows; `OneOfEachAssumption`, which TLC
evaluates, says none is missing. `accounts` has a registration with its token,
a login or resend, and a verification, or three of one kind; with limit 1 and
window 2 the clock lets two windows meet. `app_tokens` keeps `CallTime` +
`RedisTime` + `UseTime` below `Life`, with every step as slow as it may be, over
an installation and its successor. `MaxTime`, `MaxNow`, `MaxRequests`, `MaxHub`,
`MaxVersion` and `LastDay` bound guards and nothing else, and none is an assumption of a
theorem beyond being a number. Deadlock is not checked where a bounded run ends,
and a system without requests rests; `github_client` and `app_tokens` check it.

The constants stand for: `IdleTimeout`, `SessionTTL`, `RotationPeriod` of
`core/config.py`; `TTL` for `GH_CACHE_TTL_SECONDS` (60 s), `CountTTL` for its
multiples; `MaxAttempts` for `GH_RETRY_MAX_ATTEMPTS` (5); `Limit` and `Window`
for 10 logins or 30 registrations a minute; `Leeway` for
`_TOKEN_REISSUE_LEEWAY` (300 s) and `Life` for GitHub's hour. `CallTime` follows
from them: five attempts of 30 s (`GH_HTTP_TIMEOUT_SECONDS`) and four waits of at
most 8 s, about 182 s, below the leeway. A helper that walks over many pages with
one token may use it for longer than one call; `UseTime` is a call's time, so
that is outside `LeewayAssumption`. `IdTTLAssumption` is there because
`set_json` with a TTL of 0 sets no expiry at all (`redis/client.py:65`).

Every property of a passing run has a mutant in `PROJECT.json`: the operator
before a mapped definition with a plausible bug (a lock not taken, an expiry not
tested, a WHERE clause not re-evaluated, a commit too early, keys written in the
other order, attempts not counted), under which TLC finds the property violated.

### Fairness

`GitHubClient` and `RepositoryGateway` assume weak fairness of `Proceed(r)`, the
steps by which a request goes on, and `GitHubClient` of `Tick`. A request that
can go on does: the event loop runs what is ready, an attempt at GitHub ends by
the timeout of httpx if by nothing else, a Redis command by the driver's, and a
wait between attempts is bounded. `Proceed` includes the losing of an answer, so
no luck with GitHub is assumed: what makes `ReadingEnds` and `RequestEnds` hold is
that attempts and pages are counted. `Crash` and `Fail` are possible and never
due. `Tick` is the clock of Redis, which goes on whatever the program does.
The other modules assume no fairness: their properties are of safety, and a
request may stop anywhere, which is its worker's death.

## Findings

Two runs show disagreements between a document and the code; all others are in
`PROJECT.json` with the lines they are about and what contradicts them. The ones
that weigh most:

- a revoked session is still admitted by Redis, and a touch that is late brings a
  rotated token back; a session in steady use is never rotated, and the
  "sliding" idle timeout does not slide; log-out-everywhere keeps this device;
- one OAuth state signs in twice; a failing email request makes a second user;
- a year is taken for stored when its neighbour is; what a GET aggregates is
  rolled back; a refresh reads a calendar up to an hour old; it may wait for ever for
  the asyncio lock with rows locked that the lock's holder waits for; a failed
  search replaces a year's breakdown by zeros; the busiest weekday is lost if it
  is a Monday;
- two GETs that overlap may leave a new ETag over an old body, which GitHub then
  confirms; a 304 whose body is gone shortens a list silently;
- a redirect, with which GitHub answers for a renamed or transferred repository, is
  taken for success: the deletion, the branch, the review request or the workflow
  run is recorded and confirmed, and nothing has happened;
- a POST is sent again when its answer is lost, so an issue or a comment is made
  twice, and a repository that was made is told of as an error; four
  modifications are in no audit record, and the records of reads, failed logins
  and redirect mismatches are rolled back;
- a worker that dies between INCR and EXPIRE leaves a bucket closed for ever;
- two registrations of one email end in a 500 for one of them.

What holds although it looks doubtful: two rotations of one session cannot
overlap. Nothing in Redis prevents it; the row lock of
`_touch_db_session`, kept to the end of the transaction, does. A change that
commits after the touch, or drops it, breaks it (`TouchRowNoLock`).

## Proofs

`SessionsProofs` proves, for any sets of tokens, rows and requests and any
natural timeouts, from the two assumptions of `Sessions` (`TimesAssumption`,
`NoneAssumption`):

| Theorem | States |
|---|---|
| `Invariance` | `Spec => []IInv` |
| `TypesKept` | `Spec => []TypeOK` |
| `RecordsStayFaithful` | `Spec => []RecordsFaithful` |
| `NoCookieWithoutRow` | `Spec => []HandedHasRow` |
| `RotationsExclude` | `Spec => []RotationExclusive` |
| `LifetimeRespected` | `Spec => AdmittedInLifetime` |
| `LifecycleImplemented` | `Spec => ImplementsLifecycle` |

None of the invariants is inductive alone. That rotations exclude each other
depends on the row lock (`AuthOK`); that the touch takes the lock, on the row
being committed, since an UPDATE of a row nobody committed locks nothing; that it
is committed, on the cookie having been handed out (`HandedHasRow`, `CookieOK`);
and what is handed out, on the transaction that was committed before the reply
(`NewOK`). Records stay faithful because a record on its way back to Redis is
faithful to the token it goes to (`BufOK`), and because a token is drawn for one
session once. The life cycle needs that an uncommitted version differs from the
committed one by a step the life cycle allows (`DbOK`), which is where the
re-evaluated WHERE clause enters. `IInv` is the conjunction.

`Frame` and `OthersKept` say what a step of one request leaves to the others;
one lemma per group of actions (`LoginSteps`, `ReadSteps`, `RedisSteps`,
`RowSteps`, `EndSteps`) shows that the acting request keeps `IInv`; `NextKeeps`
joins them. The action property and the refinement follow from `IInv` and a step.

`OAuthFlowProofs` proves, for any states, codes, identities, users, link tokens
and requests and any natural times, from `TimesAssumption` and `NoneAssumption`:

| Theorem | States |
|---|---|
| `Invariance` | `Spec => []IInv` |
| `TypeCorrect` | `Spec => []TypeOK` |
| `CredentialsAreTheirs` | `Spec => []CredentialOfIdentity` |
| `SignInsAreOwned` | `Spec => SignedInOwnsIdentity` |
| `ReplaysAreRefused` | `Spec => ReplayRefused` |
| `OwnershipImplemented` | `Spec => ImplementsOwnership` |

What a callback reads, of its state or of the account, may be old when it
writes. So `IInv` says nothing of what was read, but what the rows that are held
say of their holder (`LocksOK`): at its commit a callback holds the account it
was told of and the credential of its code, because the foreign key locked the
first and the insert made the second; an account is held only by a request for
its identity, so a commit changes one account at most, which is the refinement's
step. `AccountOK` is about the two rows of an identity together, committed and
not: a credential that is about to be committed is held by whoever holds its
account, and an account that is about to go takes its credential along.
`StatesOK` makes a state that signed somebody in stay consumed, although two
callbacks may both have loaded it before (`oauth_single_use`). `CodesOK` and
`CodeOK` carry the identity of a code through Redis. `QuietStep`, `WriteStep` and
`RollbackStep` carry the steps that write nothing, some rows, or give them back;
one lemma per action supplies what it writes.

`ContributionsProofs` proves, for any days, windows (overlapping or not), workers,
labels, requests and bounds, from the three assumptions of `Contributions`:

| Theorem | States |
|---|---|
| `Invariance` | `Spec => []IInv` |
| `TypesKept` | `Spec => []TypeOK` |
| `DaysAreKept` | `Spec => NoDayLost` |
| `RefreshesAreWhole` | `Spec => RefreshIsWhole` |
| `CountsNeverRegress` | `Spec => NoRegress` |

A refresh deletes the days of its window first, so between the DELETE and the
flush they are missing for it. That none is lost needs to be said of the state in
between: `Whole` says that, while the account is linked, a day missing for a
request that flushes or is about to commit is one it has still to insert (`Due`):
not merely to write, because an UPDATE does not bring back a row that is gone. It is
true when the rows are selected, since the SELECT reads what the commit will leave
(`SelectStep`), and it survives the steps of others because the days a request
has locked are its own and the days it has not stay committed: which is
`NoDayLost` itself, so the two are proved together. What a step of one request
leaves to the others is `Kept`; `QuietStep`, `RowStep` and `EndKeeps` carry the
steps that write no row, one row, and all rows.

`NoRegress` needs a second invariant, `OrderOK`. The asyncio lock is released
before the transaction ends, so it does not order the commits; it orders the
readings of GitHub (`HoldsOK`), which makes the counts a request is about to
write the newest that were ever written under its worker and label, committed or
not (`LatestOK`). The row lock, kept to the commit, then makes the next committed
version the one just written (`ForwardOK`).

`ContributionMathProofs`, for any lengths of weeks, months and years, any counts
and any number of days, from `CalendarAssumption`:

| Theorem | States |
|---|---|
| `Invariance` | `Spec => []IInv` |
| `EveryMonthOnce` | `Spec => []TwelveMonths` |
| `StreaksAreRight` | `Spec => []StreaksRight` |
| `TotalsAddUp` | `Spec => []TotalsAgree` |

Here the state is simple and the work is in the loops. The loops are recursive
functions and folds; TLA+ defines them as a function that satisfies their
equations, so that there is one has to be shown first (`Recursion`, `SumsExist`).
What they compute is then proved by induction. The library states induction for
an operator, which the provers cannot instantiate; `Induction`,
`IntervalInduction` and `FiniteInduction` state it for a set of numbers or a set
of subsets, from the well-foundedness of `<` alone, and each use names the set of
those for which the claim holds.

- Going back eleven months decreases the number of the month by eleven
  (`StartsBefore`), so the current window begins with a month (`CurrentWindow`)
  and its months are consecutive; two months of one number would be a year apart
  (`Remainder`).
- The run that `get_streaks` carries along is, at each day, the longest that ends
  there (`RunsBack`, `RunIsLongest`), and the longest it has met is the longest
  of those (`LongestIsLongest`).
- A sum does not depend on the order in which a set is gone through
  (`SumWithout`); a set that is divided by a key adds up to the same
  (`SumOfGroups`), and the days without contributions add nothing.

`AppTokensProofs`, for any requests and durations that satisfy the five
assumptions of `AppTokens`:

| Theorem | States |
|---|---|
| `Invariance` | `Spec => []IInv` |
| `TypeCorrect` | `Spec => []TypeOK` |
| `TokensOutliveTheirUse` | `Spec => []TokenOutlivesUse` |
| `OldIdsAreForgotten` | `Spec => []OldIdForgotten` |

Both properties are sums of durations over several steps and two stores.
`InTime` says no step lasts longer than its limit (`Tick` sees to it); `Lives` says how
much of its life a token has left at each step, seen from when the step began;
`Recent` and `KeyOK` say the same of the time since an installation was removed,
in a request's hand and in the cache. `LeewayAssumption` is used where a cached
token is served, `LifeAssumption` where a fresh one is too short-lived to be kept.

`RepositoryGatewayProofs`, for any requests, attempts and set of operations:

| Theorem | States |
|---|---|
| `Invariance` | `Spec => []IInv` |
| `TypeCorrect` | `Spec => []TypeOK` |
| `TrailIsFaithful` | `Spec => []TrailFaithful` |
| `SuccessIsNoLie` | `Spec => []SuccessIsTrue` |
| `RequestsAreBounded` | a request takes `3 * MaxAttempts + 4` steps at most |

The answer "done" is the link between GitHub's state and the trail: `ReplyOK`
says that it stands for a change, whatever the attempts before it did, and
`RecordOK`, `OutcomeOK` hand that on to the record, the commit and the caller. They
keep a redirect apart from it: one that gets past the reading of the answer belongs
to an operation that takes any answer or ignores it, and only the second kind is
recorded as a modification. Of
the tables the proof uses what `RoutesAssumption` says and no more: for
instance that only a merge is answered without a body, and that its answer is
read. TLC evaluates that assumption on the tables.

`AccountsProofs`, for any requests, addresses (and any map of them to emails), limits
and windows:

| Theorem | States |
|---|---|
| `Invariance` | `Spec => []IInv` |
| `TypeCorrect` | `Spec => []TypeOK` |
| `CreatedIsTheirs` | `Spec => []CreatedIsMine` |
| `VerificationStays` | `Spec => []VerifiedForGood` |
| `SpansAreBounded` | `Spec => []SpanBounded` |
| `AtomicImplemented` | `Spec => ImplementsAtomic` |

No lock is held from the reading of an account to its writing. What makes up
for that is that an account only grows (`Grown`): it is made once, by one
request, and nobody undoes a verification, so what was read remains true of what
is there (`SeenOK`). A registration between its insert and its commit holds the
key of the email, and no account is committed under it meanwhile (`HoldsOK`), so
its commit is the first; a token names the user of the account under its email
(`TokenOK`). `ToldOK` is what a caller may then be told. These three rest on
`LimiterAssumption`, on `LowerAssumption` and `BucketAssumption` (addresses have
emails and buckets) and on `NoneAssumption` (`None` is no request, account or
token); that the limiter lets a request through plays no part.

`SpansAreBounded` counts what the limiter lets through, and needs an invariant
over the history of a counter (`SInv`). A request that found the counter at zero
begins a life of it. The lives begin a window apart (`Apart`), because a key is
gone only after its time to live, which is set after the life has begun
(`LivesOK`, `GoneOK`, `ExpireOK`: only who began a life sets it, and until then
the key stays); within one life no number is given twice (`CountsDiffer`). So of
the requests a span admits, those before a life that begins in it have different
numbers up to `Limit`, and those from it on too; only one life begins in a span,
and only one request has its number 1. That is an injection into
`1..2 * Limit - 1` (`SpanInjection`), and the theorems on cardinalities do the
rest. `Req` may be infinite. An EXPIRE that comes late or never makes a life
longer, which the argument does not mind.

`AtomicImplemented` shows each step to be one of `AtomicAccounts` or a stutter.
The commit is the step (`CommitIsAtomic`), on the account as it is then and not
as it was read: by `IInv` it has only grown since, so what a login or a resend
tells is still so, and a verification makes of it what it would make at once.
A commit whose answer is lost is the same step with another word to the caller.
That a verification follows upon a success of whoever was given the token, and who
was told of it, needs one invariant more (`Vouched`); what was answered is never touched again
(`StepUnanswered`).

`GitHubClientProofs`, for any requests, pages, times to live and bounds:

| Theorem | States |
|---|---|
| `Invariance` | `Spec => []IInv` |
| `TypeCorrect` | `Spec => []TypeOK` |
| `CacheIsNotStale` | `Spec => []StalenessBounded` |
| `OneRequestIsConfirmed` | `Alone => (Spec => []ServedAsConfirmed)` |
| `ReadingsAreBounded` | a reading takes `MaxAttempts + 3` steps a page at most |

What GitHub has now is not out of date (`CurrentOK`), and an answer that is being
stored was received less than a tick ago or has met one tick (`FreshOK`); so an
entry's age and what is left of it never exceed its time to live by more than
that. `ServedAsConfirmed` needs a second invariant, `CInv`, and one request at a
time (`Alone`, any two requests are the same one): an ETag is then never newer
than the body beside it (`KeysOK`), because the body is written first, and GitHub
confirms only its own version, which no body exceeds; so an ETag that is
confirmed is the body's. With two requests this is false, and nothing weaker than
`Alone` that the code enforces was found. The proof uses `NoneAssumption` (`None`
is no version and no entry) and the bounds on the constants.

`ReadingsAreBounded` is what a proof of `ReadingEnds` would rest on, apart from
fairness: `Remaining` counts the steps a request can still take, at most
`LastPage * (MaxAttempts + 3)`; every step of `Proceed` takes one at least, also
the one that goes on to the next page, and no tick, expiry, crash or other
request gives any back.

Only model-checked: what is liveness under fairness (`ReadingEnds`,
`OrphanedETagGoes`, `RequestEnds`), which is out of the prover's reach. Of the
first and the last the part that is safety is proved, for any bounds
(`ReadingsAreBounded`, `RequestsAreBounded`): that the steps of a request are
bounded. That there always is a next one, until it is over, is what TLC checks.
Every other property of a passing run is stated by a theorem.

## Not modelled

- API keys and the user's profile: single rows whose outcome no other step
  depends on. The audit records outside the gateway: they are added to
  transactions that the modules have, and nothing reads them back.
- The counts of contributions by type with their searches, the levels of the
  grid and the cache of the most active repository: data of rows whose writing
  and losing `Contributions` has.
- A redirect in answer to a GET of `GitHubClient`: it is not cached; `paginate`
  ends on it with the pages it has, and a helper that reads a model fails.
- The waits between attempts and the recorded rate limit of GitHub, which
  nothing reads; the fields of GitHub's models.
- Cancelled and failed authorizations (they end the request), redirect URIs that
  change between begin and callback (a change of configuration).
- The lifetime of the App's signed JWT. One JWT serves up to four calls to
  resolve an id; with every one of them at its slowest (4 × 182 s) it outlives
  its ten minutes, and the next step fails as `Fail` does. The list of
  installations is read to its first hundred (`NotInList`).
- Change of password: it reads a hash and writes another, and sessions stay.
- Encryption, hashing, headers, cookies' attributes and schemas: conversions no
  property tells apart. Configuration gives constants.
- The browser's retry after a 401: `Sessions` lets any request present any cookie
  ever handed out, which covers it. Pages and components are presentation.
- Midnight within a request: `date.today()` is asked several times.

## Plan

Done: sessions, sign-in and linking, contributions and their arithmetic, the
GitHub client, App tokens, gateway and accounts, each with its proofs. Next, in
order:

1. An abstract cache that `GitHubClient` implements: an answer is the upstream's
   at some moment of the last `TTL`.
2. `Sessions` composed with the change of password.
