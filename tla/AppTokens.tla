------------------------------ MODULE AppTokens ------------------------------
(***************************************************************************)
(* GitHubAppAuthService: from the owner of a repository to the id of the   *)
(* App's installation there, and from the id to an installation access     *)
(* token, both kept in Redis for a while.                                  *)
(*                                                                         *)
(* Time is what this is about.  A token lives an hour from the moment      *)
(* GitHub issues it, not from the moment its answer arrives; the call it   *)
(* is for takes its time too; and the installation may be removed and      *)
(* made again, under another id, while the old one is cached.              *)
(***************************************************************************)
EXTENDS Integers

CONSTANTS
    Req,                \* requests of one owner's repositories, at a time
    NoId, NoTime,       \* model values: no installation, no moment
    Installations,      \* how often the App may be installed
    MaxNow,             \* bound: ticks of a behaviour
    Life,               \* of a token
    Leeway,             \* _TOKEN_REISSUE_LEEWAY
    IdTTL,              \* GH_CACHE_TTL_SECONDS
    CallTime,           \* the longest a call of GitHub takes, retries included
    RedisTime,          \* the longest a call of Redis takes
    UseTime             \* the longest a token is in use once it is handed out

VARIABLES
    now,
    fixed,              \* GITHUB_APP_INSTALLATION_ID, or NoId; never changed
    installed,          \* GitHub: the installation's id, or NoId
    removed,            \* removed[i]: when installation i was, or NoTime
    idKey,              \* Redis, gp:install:<owner>
    tokenKey,           \* Redis, gp:install-token:<id>
    req                 \* req[r]: the request's step and local variables

github == <<installed, removed>>
redis == <<idKey, tokenKey>>
vars == <<now, fixed, github, redis, req>>

Id == 1..Installations
Time == 0..MaxNow

ASSUME BoundsAssumption ==
    /\ Installations \in Nat /\ MaxNow \in Nat /\ IdTTL \in Nat
    /\ Life \in Nat /\ Leeway \in Nat /\ UseTime \in Nat
    /\ CallTime \in Nat /\ RedisTime \in Nat
ASSUME NoneAssumption == NoId \notin Id /\ NoTime \notin Int
ASSUME IdTTLAssumption == IdTTL # 0

\* The leeway covers what the token is for, and the life of a token more than
\* that and the calls that fetch and keep it.
ASSUME LeewayAssumption == UseTime <= Leeway
ASSUME LifeAssumption == CallTime + RedisTime + UseTime < Life

\* A key that is not set has NoTime for its end.
IdKey == [id: Id \cup {NoId}, until: Nat \cup {NoTime}]
TokenKey == [expires: Nat, until: Nat \cup {NoTime}]

NoIdKey == [id |-> NoId, until |-> NoTime]
NoTokenKey == [expires |-> 0, until |-> NoTime]

\* What a key holds is served up to the moment it expires at.
Live(key) == key.until # NoTime /\ now < key.until

GitHubSteps == {"resolve", "resolved", "issue", "issued"}
RedisSteps == {"id", "keep id", "find", "keep"}
WithId == {"resolved", "keep id", "find", "issue", "issued", "keep", "use"}
Steps == {"idle", "use"} \cup GitHubSteps \cup RedisSteps

\* since: when the step began.  path: which of the ways to resolve an id.
Paths == {"repos", "orgs", "users", "list"}

Request == [pc: Steps, since: Nat, path: Paths, id: Id \cup {NoId},
    expires: Nat]

Idle == [pc |-> "idle", since |-> 0, path |-> "repos", id |-> NoId,
    expires |-> 0]

Limit(pc) ==
    IF pc = "use" THEN UseTime
    ELSE IF pc \in GitHubSteps THEN CallTime ELSE RedisTime

\* The next step begins.
Begin(r, step) ==
    req' = [req EXCEPT ![r].pc = step, ![r].since = now]

End(r) == req' = [req EXCEPT ![r] = Idle]

Init ==
    /\ now = 0
    /\ fixed \in {NoId} \cup Id
    /\ installed = NoId
    /\ removed = [i \in Id |-> NoTime]
    /\ idKey = NoIdKey
    /\ tokenKey = [i \in Id |-> NoTokenKey]
    /\ req = [r \in Req |-> Idle]

-----------------------------------------------------------------------------
(* External: the owner, Redis and time *)

\* A new installation has a new id.
Install ==
    /\ installed = NoId
    /\ \E i \in Id :
        /\ removed[i] = NoTime
        /\ \A j \in 1..i - 1 : removed[j] # NoTime
        /\ installed' = i
    /\ UNCHANGED <<now, fixed, removed, redis, req>>

Uninstall ==
    /\ installed # NoId
    /\ removed' = [removed EXCEPT ![installed] = now]
    /\ installed' = NoId
    /\ UNCHANGED <<now, fixed, redis, req>>

\* Redis is restarted, or evicts its keys.
Flush ==
    /\ idKey' = NoIdKey
    /\ tokenKey' = [i \in Id |-> NoTokenKey]
    /\ UNCHANGED <<now, fixed, github, req>>

\* A call is answered, or has failed, by the time its limit is up.
Tick ==
    /\ now < MaxNow
    /\ \A r \in Req : req[r].pc # "idle" =>
        now < req[r].since + Limit(req[r].pc)
    /\ now' = now + 1
    /\ UNCHANGED <<fixed, github, redis, req>>

-----------------------------------------------------------------------------
(* installation_id_for *)

Start(r) ==
    /\ req[r].pc = "idle"
    /\ Begin(r, "id")
    /\ UNCHANGED <<now, fixed, github, redis>>

FixedId(r) ==
    /\ req[r].pc = "id" /\ fixed # NoId
    /\ req' = [req EXCEPT ![r].pc = "find", ![r].since = now,
                          ![r].id = fixed]
    /\ UNCHANGED <<now, fixed, github, redis>>

CachedId(r) ==
    /\ req[r].pc = "id" /\ fixed = NoId
    /\ Live(idKey)
    /\ req' = [req EXCEPT ![r].pc = "find", ![r].since = now,
                          ![r].id = idKey.id]
    /\ UNCHANGED <<now, fixed, github, redis>>

UnknownId(r) ==
    /\ req[r].pc = "id" /\ fixed = NoId
    /\ ~Live(idKey)
    /\ Begin(r, "resolve")
    /\ UNCHANGED <<now, fixed, github, redis>>

\* An answer without an installation is taken for one.
ResolveAnyway(r) ==
    /\ req[r].pc = "resolve"
    /\ req' = [req EXCEPT ![r].pc = "resolved", ![r].id = installed]
    /\ UNCHANGED <<now, fixed, github, redis>>

\* _resolve_installation.  External: GitHub knows the installation that there
\* is by the repository if it covers it, and by the kind of owner.
Resolve(r) ==
    /\ req[r].pc = "resolve"
    /\ installed # NoId
    /\ req' = [req EXCEPT ![r].pc = "resolved", ![r].id = installed]
    /\ UNCHANGED <<now, fixed, github, redis>>

\* GitHubNotFoundError: the next way is tried.
TryNext(r) ==
    /\ req[r].pc = "resolve"
    /\ \E step \in {<<"repos", "orgs">>, <<"orgs", "users">>,
                    <<"users", "list">>} :
        /\ req[r].path = step[1]
        /\ req' = [req EXCEPT ![r].path = step[2], ![r].since = now]
    /\ UNCHANGED <<now, fixed, github, redis>>

\* _find_installation_in_list.
NotInList(r) ==
    /\ req[r].pc = "resolve" /\ req[r].path = "list"
    /\ installed = NoId
    /\ End(r)
    /\ UNCHANGED <<now, fixed, github, redis>>

Resolved(r) ==
    /\ req[r].pc = "resolved"
    /\ req' = [req EXCEPT ![r].pc = "keep id", ![r].since = now,
                          ![r].path = "repos"]
    /\ UNCHANGED <<now, fixed, github, redis>>

\* The id is kept for longer than the setting says.
KeepIdTwice(r) ==
    /\ req[r].pc = "keep id"
    /\ idKey' = [id |-> req[r].id, until |-> now + 2 * IdTTL]
    /\ Begin(r, "find")
    /\ UNCHANGED <<now, fixed, github, tokenKey>>

KeepId(r) ==
    /\ req[r].pc = "keep id"
    /\ idKey' = [id |-> req[r].id, until |-> now + IdTTL]
    /\ Begin(r, "find")
    /\ UNCHANGED <<now, fixed, github, tokenKey>>

-----------------------------------------------------------------------------
(* installation_token_for *)

\* What is in the key is taken for good: the key expires in time.
FoundUnchecked(key) == Live(key)

\* _token_still_valid.
Found(key) == Live(key) /\ key.expires - now > Leeway

CachedToken(r) ==
    /\ req[r].pc = "find"
    /\ Found(tokenKey[req[r].id])
    /\ req' = [req EXCEPT ![r].pc = "use", ![r].since = now,
                          ![r].expires = tokenKey[req[r].id].expires]
    /\ UNCHANGED <<now, fixed, github, redis>>

NotFound(r) ==
    /\ req[r].pc = "find"
    /\ ~Found(tokenKey[req[r].id])
    /\ Begin(r, "issue")
    /\ UNCHANGED <<now, fixed, github, redis>>

\* _issue_token.  External: GitHub issues the token now, or does not know the
\* installation any more; the answer takes the rest of the call's time.
Issue(r) ==
    /\ req[r].pc = "issue"
    /\ IF installed = req[r].id
       THEN req' = [req EXCEPT ![r].pc = "issued", ![r].expires = now + Life]
       ELSE End(r)
    /\ UNCHANGED <<now, fixed, github, redis>>

\* The answer is here; _token_ttl_seconds says whether to keep the token.
Issued(r) ==
    /\ req[r].pc = "issued"
    /\ Begin(r, IF req[r].expires - now > Leeway THEN "keep" ELSE "use")
    /\ UNCHANGED <<now, fixed, github, redis>>

\* The time to live is what remained when it was computed, at "since".
Keep(r) ==
    /\ req[r].pc = "keep"
    /\ tokenKey' = [tokenKey EXCEPT ![req[r].id] =
          [expires |-> req[r].expires,
           until |-> now + (req[r].expires - req[r].since - Leeway)]]
    /\ Begin(r, "use")
    /\ UNCHANGED <<now, fixed, github, idKey>>

\* _repo_token_for has its token, and the call it is for is made with it.
Use(r) ==
    /\ req[r].pc = "use"
    /\ End(r)
    /\ UNCHANGED <<now, fixed, github, redis>>

\* GitHub refuses, times out or is not there; Redis fails.
Fail(r) ==
    /\ req[r].pc \notin {"idle", "use"}
    /\ End(r)
    /\ UNCHANGED <<now, fixed, github, redis>>

Proceed(r) ==
    \/ Start(r) \/ FixedId(r) \/ CachedId(r) \/ UnknownId(r) \/ Resolve(r)
    \/ TryNext(r) \/ NotInList(r) \/ Resolved(r) \/ KeepId(r) \/ CachedToken(r)
    \/ NotFound(r) \/ Issue(r) \/ Issued(r) \/ Keep(r) \/ Use(r)

Next ==
    \/ Install \/ Uninstall \/ Flush \/ Tick
    \/ \E r \in Req : Proceed(r) \/ Fail(r)

Spec == Init /\ [][Next]_vars

-----------------------------------------------------------------------------
(* Properties *)

\* Every variable keeps its type, and nothing is kept or asked for under an
\* installation that there never was.
TypeOK ==
    /\ now \in Time
    /\ fixed \in Id \cup {NoId}
    /\ installed \in Id \cup {NoId}
    /\ removed \in [Id -> Time \cup {NoTime}]
    /\ idKey \in IdKey
    /\ idKey.until # NoTime => idKey.id \in Id
    /\ tokenKey \in [Id -> TokenKey]
    /\ req \in [Req -> Request]
    /\ \A r \in Req : req[r].pc \in WithId => req[r].id \in Id

\* A token that is handed out does not expire while it is in use, wherever it
\* comes from and however long its answer took: the reason for
\* _TOKEN_REISSUE_LEEWAY.
TokenOutlivesUse ==
    \A r \in Req : req[r].pc = "use" => now < req[r].expires

\* An installation id is looked up only for a while after its installation
\* was removed, however late the answer of GitHub and of Redis that brought it
\* into the cache: an owner who installs the App again, under another id, is
\* not told for longer than this that it is not there.
Forgotten == CallTime + RedisTime + IdTTL

OldIdForgotten ==
    \A r \in Req :
        LET id == req[r].id
        IN  fixed = NoId /\ req[r].pc = "find" /\ removed[id] # NoTime =>
                req[r].since < removed[id] + Forgotten
=============================================================================
