---------------------------- MODULE GitHubClient ----------------------------
(***************************************************************************)
(* Reading from GitHub: GitHubAPIClient.request for GETs, with its retries *)
(* and its conditional requests, the helpers that walk over pages, and the *)
(* counts that are cached for longer.                                      *)
(*                                                                         *)
(* The answer for a URL is kept in two Redis keys that are written one     *)
(* after the other and expire apart: the body, and the ETag with the Link  *)
(* header.  A GET sends the ETag it finds; if GitHub says 304, the body is *)
(* taken from Redis.  Every command to Redis and every attempt at GitHub   *)
(* is an action, and any command to Redis may fail: the code goes on.      *)
(*                                                                         *)
(* A representation is named by its version.  GitHub's changes only go     *)
(* forward, and two representations of a page never have the same ETag.    *)
(***************************************************************************)
EXTENDS Integers

CONSTANTS
    Req,                \* requests that may be in flight together
    Kind,               \* the kinds of reading: see Kinds
    Pages,              \* length of the list that is read
    TTL,                \* GH_CACHE_TTL_SECONDS, in ticks
    CountTTL,           \* GH_CACHE_TTL_SECONDS * 15 or * 60, in ticks
    MaxAttempts,        \* GH_RETRY_MAX_ATTEMPTS
    MaxPages,           \* max_pages of the pagination
    MaxVersion,         \* bound: changes of a page
    None                \* "no such value"

VARIABLES
    upstream,           \* GitHub: upstream[p]: the version of page p
    outdated,           \* outdated[p][v]: ticks since v was replaced
    body,               \* Redis: body[p]: a version and its time to live
    header,             \* Redis: header[p], the key with the suffix :hdr
    count,              \* Redis: a key of its own, counted from page 1
    req                 \* req[r]: the request's step and local variables

redis  == <<body, header, count>>
github == <<upstream, outdated>>
vars   == <<github, redis, req>>

Page    == 1..Pages
Version == 0..MaxVersion
Kinds   == {"one", "list", "search", "count"}

ASSUME KindAssumption == Kind \subseteq Kinds
ASSUME BoundsAssumption ==
    /\ Pages \in Nat \ {0} /\ TTL \in Nat \ {0} /\ CountTTL \in Nat \ {0}
    /\ MaxAttempts \in Nat \ {0} /\ MaxPages \in Nat \ {0}
    /\ MaxVersion \in Nat

\* What a key holds: a version and the ticks that are left to it.
Entry(ttl) == [version: Version, left: 1..ttl]

ASSUME NoneAssumption ==
    None \notin Version /\ None \notin Entry(TTL) \cup Entry(CountTTL)

Steps == {"idle", "lookup", "send", "body", "header", "store_body",
    "store_header", "store_count"}

\* etag: of the request being sent; got: the version that was received;
\* late: since the answer that is being stored, time has gone on.
Request == [pc: Steps, kind: Kinds, page: Page, attempt: 0..MaxAttempts - 1,
    etag: Version \cup {None}, got: Version \cup {None}, late: BOOLEAN]

Idle == [pc |-> "idle", kind |-> "one", page |-> 1, attempt |-> 0,
    etag |-> None, got |-> None, late |-> FALSE]

-----------------------------------------------------------------------------
(* Helpers *)

\* redis.get_json, which fails in an outage: the code takes it for a miss.
Read(entry) ==
    {None} \cup (IF entry = None THEN {} ELSE {entry.version})

Set(version, ttl) == [version |-> version, left |-> ttl]

\* A tick of Redis's clock.
Aged(entry) ==
    IF entry = None \/ entry.left = 1 THEN None
    ELSE [entry EXCEPT !.left = @ - 1]

\* Whether the helper asks for another page: by the Link header of the answer,
\* or, in a search, by the total its body names.
HasNext(r, link) ==
    /\ req[r].page < Pages /\ req[r].page < MaxPages
    /\ req[r].kind = "search" \/ (req[r].kind = "list" /\ link)

\* request has returned: on to the next page, or to the caller.
Deliver(r, link) ==
    req' = [req EXCEPT ![r] =
        IF HasNext(r, link)
        THEN [Idle EXCEPT !.pc = "lookup", !.kind = req[r].kind,
                  !.page = req[r].page + 1]
        ELSE Idle]

Init ==
    /\ upstream = [p \in Page |-> 0]
    /\ outdated = [p \in Page |-> [v \in Version |-> 0]]
    /\ body = [p \in Page |-> None] /\ header = [p \in Page |-> None]
    /\ count = None
    /\ req = [r \in Req |-> Idle]

-----------------------------------------------------------------------------
(* External: GitHub and time *)

Change(p) ==
    /\ upstream[p] < MaxVersion
    /\ upstream' = [upstream EXCEPT ![p] = @ + 1]
    /\ UNCHANGED <<outdated, redis, req>>

\* The time from an answer of GitHub to the end of its storing is less than a
\* tick: it meets one tick at most.
Storing(r) == req[r].pc \in {"store_body", "store_header", "store_count"}

\* Ages above MaxAge are not told apart.
MaxAge == (IF TTL < CountTTL THEN CountTTL ELSE TTL) + 2

Tick ==
    /\ \A r \in Req : ~req[r].late
    /\ req' = [r \in Req |-> [req[r] EXCEPT !.late = Storing(r)]]
    /\ outdated' = [p \in Page |-> [v \in Version |->
           IF v < upstream[p] /\ outdated[p][v] < MaxAge
           THEN outdated[p][v] + 1 ELSE outdated[p][v]]]
    /\ body' = [p \in Page |-> Aged(body[p])]
    /\ header' = [p \in Page |-> Aged(header[p])]
    /\ count' = Aged(count)
    /\ UNCHANGED upstream

\* Keys expire at their own moment of their last tick.
Expire(p) ==
    \/ /\ body[p] # None /\ body[p].left = 1
       /\ body' = [body EXCEPT ![p] = None]
       /\ UNCHANGED <<github, header, count, req>>
    \/ /\ header[p] # None /\ header[p].left = 1
       /\ header' = [header EXCEPT ![p] = None]
       /\ UNCHANGED <<github, body, count, req>>

-----------------------------------------------------------------------------
(* request *)

Start(r) ==
    /\ req[r].pc = "idle"
    /\ \E kind \in Kind :
        req' = [req EXCEPT ![r] = [Idle EXCEPT !.pc = "lookup", !.kind = kind]]
    /\ UNCHANGED <<github, redis>>

\* Reading the ETag starts its time to live again.
LookupRenewing(r) ==
    /\ req[r].pc = "lookup" /\ req[r].kind # "count"
    /\ \E etag \in Read(header[req[r].page]) :
        /\ req' = [req EXCEPT ![r].pc = "send", ![r].etag = etag]
        /\ header' = [header EXCEPT ![req[r].page] =
              IF etag = None THEN @ ELSE Set(etag, TTL)]
    /\ UNCHANGED <<github, body, count>>

\* _fetch_with_etag: the header key alone decides whether to ask If-None-Match.
Lookup(r) ==
    /\ req[r].pc = "lookup" /\ req[r].kind # "count"
    /\ \E etag \in Read(header[req[r].page]) :
        req' = [req EXCEPT ![r].pc = "send", ![r].etag = etag]
    /\ UNCHANGED <<github, redis>>

\* get_commit_count_for_user, get_contributions_summary: a hit is the answer.
LookupCount(r) ==
    /\ req[r].pc = "lookup" /\ req[r].kind = "count"
    /\ \E v \in Read(count) :
        IF v = None THEN req' = [req EXCEPT ![r].pc = "send"]
                    ELSE Deliver(r, FALSE)
    /\ UNCHANGED <<github, redis>>

\* One attempt more than the code allows.
RetryOnceMore(r) ==
    /\ req[r].pc = "send"
    /\ req[r].attempt + 1 <= MaxAttempts
    /\ req' = [req EXCEPT ![r].attempt = @ + 1]
    /\ UNCHANGED <<github, redis>>

\* Attempts that are not counted.
RetryUncounted(r) ==
    /\ req[r].pc = "send"
    /\ req' = [req EXCEPT ![r].attempt = IF @ = 0 THEN 1 ELSE 0]
    /\ UNCHANGED <<github, redis>>

\* A transport error, a status 408, 429 or 5xx: once more, after a while.
Retry(r) ==
    /\ req[r].pc = "send"
    /\ req[r].attempt + 1 < MaxAttempts
    /\ req' = [req EXCEPT ![r].attempt = @ + 1]
    /\ UNCHANGED <<github, redis>>

\* The same at the last attempt, or a status of 400 and above that is final.
GiveUp(r) ==
    /\ req[r].pc = "send"
    /\ req' = [req EXCEPT ![r] = Idle]
    /\ UNCHANGED <<github, redis>>

NotModified(r) ==
    /\ req[r].pc = "send"
    /\ req[r].etag = upstream[req[r].page]
    /\ req' = [req EXCEPT ![r].pc = "body"]
    /\ UNCHANGED <<github, redis>>

\* 200.  That request also stores a count's own answer is left out: nobody
\* asks for it with its ETag.
Receive(r) ==
    /\ req[r].pc = "send"
    /\ req[r].etag # upstream[req[r].page]
    /\ req' = [req EXCEPT ![r].got = upstream[req[r].page],
          ![r].pc = IF req[r].kind = "count" THEN "store_count"
                                             ELSE "store_body"]
    /\ UNCHANGED <<github, redis>>

\* The header, then the body.
StoreHeaderFirst(r) ==
    LET p == req[r].page IN
    \/ /\ req[r].pc = "store_body"
       /\ \/ /\ header' = [header EXCEPT ![p] = Set(req[r].got, TTL)]
             /\ req' = [req EXCEPT ![r].pc = "store_header"]
          \/ /\ Deliver(r, TRUE)
             /\ UNCHANGED header
       /\ UNCHANGED <<github, body, count>>
    \/ /\ req[r].pc = "store_header"
       /\ body' \in {body, [body EXCEPT ![p] = Set(req[r].got, TTL)]}
       /\ Deliver(r, TRUE)
       /\ UNCHANGED <<github, header, count>>

\* The body, then the header; a failure of the first leaves out the second.
Store(r) ==
    LET p == req[r].page IN
    \/ /\ req[r].pc = "store_body"
       /\ \/ /\ body' = [body EXCEPT ![p] = Set(req[r].got, TTL)]
             /\ req' = [req EXCEPT ![r].pc = "store_header"]
          \/ /\ Deliver(r, TRUE)
             /\ UNCHANGED body
       /\ UNCHANGED <<github, header, count>>
    \/ /\ req[r].pc = "store_header"
       /\ header' \in {header, [header EXCEPT ![p] = Set(req[r].got, TTL)]}
       /\ Deliver(r, TRUE)
       /\ UNCHANGED <<github, body, count>>

StoreCount(r) ==
    /\ req[r].pc = "store_count"
    /\ count' \in {count, Set(req[r].got, CountTTL)}
    /\ Deliver(r, FALSE)
    /\ UNCHANGED <<github, body, header>>

\* A body that is read starts its time to live again.
ReadBodyRenewing(r) ==
    /\ req[r].pc = "body"
    /\ \E v \in Read(body[req[r].page]) :
        /\ req' = [req EXCEPT ![r].pc = "header", ![r].got = v]
        /\ body' = [body EXCEPT ![req[r].page] =
              IF v = None THEN @ ELSE Set(v, TTL)]
    /\ UNCHANGED <<github, header, count>>

\* After a 304.
ReadBody(r) ==
    /\ req[r].pc = "body"
    /\ \E v \in Read(body[req[r].page]) :
        req' = [req EXCEPT ![r].pc = "header", ![r].got = v]
    /\ UNCHANGED <<github, redis>>

\* A body is returned, with the Link header if its key is still there.  If
\* there is none, or Redis fails, the 304 itself is returned: the helpers that
\* read one resource fail at its empty body, a search ends, and a list goes on
\* without the page if the 304 has a Link header.
ReadHeader(r) ==
    /\ req[r].pc = "header"
    /\ \/ /\ req[r].got # None
          /\ Deliver(r, header[req[r].page] # None)
       \/ /\ req[r].kind \in {"one", "search"}
          /\ req' = [req EXCEPT ![r] = Idle]
       \/ /\ req[r].kind = "list"
          /\ \E link \in BOOLEAN : Deliver(r, link)
    /\ UNCHANGED <<github, redis>>

\* The worker dies or the client goes away.
Crash(r) ==
    /\ req[r].pc # "idle"
    /\ req' = [req EXCEPT ![r] = Idle]
    /\ UNCHANGED <<github, redis>>

-----------------------------------------------------------------------------

\* What the event loop goes on with: an attempt has an outcome, if only the
\* timeout of httpx.
Proceed(r) ==
    \/ Lookup(r) \/ LookupCount(r) \/ Retry(r) \/ GiveUp(r) \/ NotModified(r)
    \/ Receive(r) \/ Store(r) \/ StoreCount(r) \/ ReadBody(r) \/ ReadHeader(r)

Next ==
    \/ Tick
    \/ \E p \in Page : Change(p) \/ Expire(p)
    \/ \E r \in Req : Start(r) \/ Proceed(r) \/ Crash(r)

Spec ==
    /\ Init /\ [][Next]_vars
    /\ WF_vars(Tick)
    /\ \A r \in Req : WF_vars(Proceed(r))

-----------------------------------------------------------------------------
(* Properties *)

\* Every variable keeps its type.
TypeOK ==
    /\ upstream \in [Page -> Version]
    /\ outdated \in [Page -> [Version -> 0..MaxAge]]
    /\ body \in [Page -> Entry(TTL) \cup {None}]
    /\ header \in [Page -> Entry(TTL) \cup {None}]
    /\ count \in Entry(CountTTL) \cup {None}
    /\ req \in [Req -> Request]

\* Whatever the requests, deaths and failures of Redis do to the keys, what
\* Redis holds was current when its time to live began: a cached answer of
\* request, or a cached count, is out of date for no longer than
\* that, and the time it took to store it.
StalenessBounded ==
    /\ \A p \in Page : body[p] # None =>
        outdated[p][body[p].version] + body[p].left <= TTL + 1
    /\ count # None => outdated[1][count.version] + count.left <= CountTTL + 1

\* If GETs of a URL do not overlap, the body that is returned for a 304 is the
\* one that GitHub confirmed: no failure between the writing of the two keys
\* pairs an ETag with an older body.
ServedAsConfirmed ==
    \A r \in Req :
        req[r].pc = "header" /\ req[r].got # None => req[r].got = req[r].etag

\* Every reading ends: the attempts are bounded, and so are the pages.
ReadingEnds == \A r \in Req : req[r].pc # "idle" ~> req[r].pc = "idle"

\* An ETag without its body makes GitHub answer what nobody can use.  It does
\* not stay: the ETag expires by itself.
OrphanedETagGoes ==
    \A p \in Page :
        body[p] = None /\ header[p] # None ~>
            header[p] = None \/ body[p] # None
=============================================================================
