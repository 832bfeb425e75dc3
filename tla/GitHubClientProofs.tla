-------------------------- MODULE GitHubClientProofs --------------------------
(***************************************************************************)
(* Theorems about GitHubClient, for any requests, pages, times to live and *)
(* bounds.                                                                 *)
(*                                                                         *)
(* That a cached answer is not too old is true however requests overlap.   *)
(* That the body returned for a 304 is the one GitHub confirmed is not; it *)
(* is proved for one request at a time.                                    *)
(***************************************************************************)
EXTENDS GitHubClient, TLAPS

-----------------------------------------------------------------------------
(* The inductive invariant: q is a request, o is outdated                  *)

\* What is received is stored within a tick of its receipt.
Stores == {"store_body", "store_header", "store_count"}

FreshOK(q, o) ==
    /\ q.late => q.pc \in Stores
    /\ q.pc \in Stores =>
        /\ q.got \in Version
        /\ o[q.page][q.got] <= IF q.late THEN 1 ELSE 0

\* A count is made from page 1.
CountOK(q) ==
    /\ q.kind = "count" => q.page = 1
    /\ q.pc = "store_count" => q.kind = "count"

\* What GitHub has now is not out of date.
CurrentOK ==
    \A p \in Page, v \in Version : v >= upstream[p] => outdated[p][v] = 0

IInv ==
    /\ TypeOK
    /\ CurrentOK
    /\ StalenessBounded
    /\ \A r \in Req : FreshOK(req[r], outdated) /\ CountOK(req[r])

-----------------------------------------------------------------------------
(* Lemmas *)

RedisType ==
    /\ body \in [Page -> Entry(TTL) \cup {None}]
    /\ header \in [Page -> Entry(TTL) \cup {None}]
    /\ count \in Entry(CountTTL) \cup {None}

GitHubType ==
    /\ upstream \in [Page -> Version]
    /\ outdated \in [Page -> [Version -> 0..MaxAge]]

LEMMA Known ==
    ASSUME IInv, NEW r \in Req
    PROVE  /\ req[r] \in Request /\ RedisType /\ GitHubType
           /\ FreshOK(req[r], outdated) /\ CountOK(req[r])
BY DEF IInv, TypeOK, RedisType, GitHubType

LEMMA Bounds ==
    /\ 1 \in Page /\ Version \subseteq Nat /\ 0 \in Version
    /\ TTL \in Nat /\ TTL >= 1 /\ CountTTL \in Nat /\ CountTTL >= 1
    /\ MaxAge \in Nat /\ MaxAge >= TTL + 2 /\ MaxAge >= CountTTL + 2
    /\ MaxAttempts \in Nat /\ MaxAttempts >= 1
    /\ Pages \in Nat
BY BoundsAssumption DEF Page, Version, MaxAge

LEMMA IdleOK == Idle \in Request /\ CountOK(Idle)
<1>1. "idle" \in Steps /\ 1 \in Page /\ 0 \in 0..MaxAttempts - 1
  BY Bounds DEF Steps
<1> QED BY <1>1 DEF Idle, Request, Kinds, CountOK

\* A step of r preserves IInv if what is known of r after it is right.
LEMMA OneRequest ==
    ASSUME IInv, NEW r \in Req, NEW q \in Request,
           req' = [req EXCEPT ![r] = q], UNCHANGED github, RedisType',
           StalenessBounded', FreshOK(q, outdated), CountOK(q)
    PROVE  IInv'
<1>1. /\ req' \in [Req -> Request] /\ req'[r] = q
      /\ \A s \in Req : s # r => req'[s] = req[s]
      /\ UNCHANGED <<upstream, outdated>>
  BY DEF IInv, TypeOK, github
<1>2. TypeOK'
  BY <1>1 DEF IInv, TypeOK, RedisType
<1>3. CurrentOK'
  BY <1>1 DEF IInv, CurrentOK
<1>4. ASSUME NEW s \in Req
      PROVE  (FreshOK(req[s], outdated) /\ CountOK(req[s]))'
  BY <1>1 DEF IInv, FreshOK, CountOK
<1> QED BY <1>2, <1>3, <1>4 DEF IInv

\* The same for one that leaves Redis alone.
LEMMA QuietStep ==
    ASSUME IInv, NEW r \in Req, NEW q \in Request,
           req' = [req EXCEPT ![r] = q], UNCHANGED <<github, redis>>,
           FreshOK(q, outdated), CountOK(q)
    PROVE  IInv'
<1>1. UNCHANGED <<github, body, header, count, upstream, outdated>>
  BY DEF redis, github
<1>2. RedisType' /\ StalenessBounded'
  BY <1>1 DEF IInv, TypeOK, RedisType, StalenessBounded
<1> QED BY <1>1, <1>2, OneRequest

\* Where a request is that has an answer, and is not storing one.
LEMMA DeliverOK ==
    ASSUME IInv, NEW r \in Req, NEW link \in BOOLEAN, Deliver(r, link)
    PROVE  \E q \in Request :
               /\ req' = [req EXCEPT ![r] = q]
               /\ q.pc \in {"idle", "lookup"} /\ q.etag = None
               /\ FreshOK(q, outdated) /\ CountOK(q)
<1> USE Known
<1>1. CASE ~HasNext(r, link)
  BY <1>1, IdleOK DEF Deliver, Idle, FreshOK, Stores
<1>2. CASE HasNext(r, link)
  <2> DEFINE next == req[r].page + 1
             kind == req[r].kind
             q == [Idle EXCEPT !.pc = "lookup", !.kind = kind, !.page = next]
  <2>1. next \in Page /\ kind \in Kinds /\ kind # "count"
    BY <1>2, Bounds DEF HasNext, Request, Page
  <2>2. "lookup" \in Steps
    BY DEF Steps
  <2>3. req' = [req EXCEPT ![r] = q]
    BY <1>2 DEF Deliver
  <2> HIDE DEF next, kind
  <2>4. q \in Request
    BY <2>1, <2>2, IdleOK DEF Request
  <2>5. q.pc = "lookup" /\ q.kind = kind /\ ~q.late /\ q.etag = None
    BY DEF Idle
  <2>6. FreshOK(q, outdated) /\ CountOK(q)
    BY <2>1, <2>5 DEF FreshOK, CountOK, Stores
  <2> QED BY <2>3, <2>4, <2>5, <2>6
<1> QED BY <1>1, <1>2

\* A tick of Redis's clock takes one tick of what is left.
LEMMA AgedOK ==
    ASSUME NEW ttl \in Nat, NEW entry \in Entry(ttl) \cup {None},
           None \notin Entry(ttl)
    PROVE  /\ Aged(entry) \in Entry(ttl) \cup {None}
           /\ Aged(entry) # None =>
                /\ entry # None /\ Aged(entry).version = entry.version
                /\ Aged(entry).left = entry.left - 1
BY DEF Aged, Entry

\* What is stored is a tick old at most.
LEMMA SetOK ==
    ASSUME NEW ttl \in Nat, ttl >= 1, NEW v \in Version
    PROVE  /\ Set(v, ttl) \in Entry(ttl)
           /\ Set(v, ttl).version = v /\ Set(v, ttl).left = ttl
BY DEF Set, Entry

-----------------------------------------------------------------------------
(* The steps *)

LEMMA InitOK == Init => IInv
<1> SUFFICES ASSUME Init PROVE IInv
  OBVIOUS
<1>1. TypeOK
  BY Bounds, IdleOK DEF Init, TypeOK
<1>2. CurrentOK /\ StalenessBounded
  BY DEF Init, CurrentOK, StalenessBounded
<1>3. \A r \in Req : FreshOK(req[r], outdated) /\ CountOK(req[r])
  BY IdleOK DEF Init, FreshOK, Stores, Idle
<1> QED BY <1>1, <1>2, <1>3 DEF IInv

\* The old and the new version of a page are both up to date at a change.
LEMMA ChangeStep ==
    ASSUME IInv, NEW p \in Page, Change(p)
    PROVE  IInv'
<1>1. /\ upstream[p] < MaxVersion /\ upstream' = [upstream EXCEPT ![p] = @ + 1]
      /\ UNCHANGED <<outdated, body, header, count, req>>
  BY DEF Change, redis
<1>2. GitHubType
  BY DEF IInv, TypeOK, GitHubType
<1>3. upstream' \in [Page -> Version]
      /\ \A x \in Page : upstream'[x] >= upstream[x]
  <2>1. /\ upstream[p] \in Version /\ upstream[p] + 1 \in Version
        /\ Version \subseteq Int
    BY <1>1, <1>2, BoundsAssumption DEF GitHubType, Version
  <2>2. \A x \in Page : upstream'[x] =
            IF x = p THEN upstream[p] + 1 ELSE upstream[x]
    BY <1>1, <1>2 DEF GitHubType
  <2>3. upstream' \in [Page -> Version]
    BY <1>1, <1>2, <2>1 DEF GitHubType
  <2>4. \A x \in Page : upstream[x] \in Int
    BY <1>2, <2>1 DEF GitHubType
  <2> QED BY <2>1, <2>2, <2>3, <2>4
<1>4. TypeOK'
  BY <1>1, <1>3 DEF IInv, TypeOK
<1>5. CurrentOK'
  <2> SUFFICES ASSUME NEW x \in Page, NEW v \in Version, v >= upstream'[x]
               PROVE  outdated[x][v] = 0
    BY <1>1 DEF CurrentOK
  <2>1. v >= upstream[x]
    BY <1>2, <1>3 DEF GitHubType, Version
  <2> QED BY <2>1 DEF IInv, CurrentOK
<1>6. StalenessBounded'
  BY <1>1 DEF IInv, StalenessBounded
<1>7. \A r \in Req : (FreshOK(req[r], outdated) /\ CountOK(req[r]))'
  BY <1>1 DEF IInv, FreshOK, CountOK
<1> QED BY <1>4, <1>5, <1>6, <1>7 DEF IInv

\* What is left of an entry shrinks as its age grows, and who is storing is a
\* tick late at most.
LEMMA TickStep ==
    ASSUME IInv, Tick
    PROVE  IInv'
<1> DEFINE old == [p \in Page |-> [v \in Version |->
               IF v < upstream[p] /\ outdated[p][v] < MaxAge
               THEN outdated[p][v] + 1 ELSE outdated[p][v]]]
<1>1. /\ \A r \in Req : ~req[r].late
      /\ req' = [r \in Req |-> [req[r] EXCEPT !.late = Storing(r)]]
      /\ outdated' = old
      /\ body' = [p \in Page |-> Aged(body[p])]
      /\ header' = [p \in Page |-> Aged(header[p])]
      /\ count' = Aged(count)
      /\ upstream' = upstream
  BY DEF Tick
<1>2. GitHubType /\ RedisType
  BY DEF IInv, TypeOK, GitHubType, RedisType
<1>3. ASSUME NEW p \in Page, NEW v \in Version
      PROVE  /\ old[p][v] \in 0..MaxAge
             /\ old[p][v] <= outdated[p][v] + 1
             /\ v >= upstream[p] => old[p][v] = outdated[p][v]
  <2>1. outdated[p][v] \in 0..MaxAge /\ upstream[p] \in Version
    BY <1>2 DEF GitHubType
  <2> QED BY <2>1, Bounds DEF Version
<1>4. outdated' \in [Page -> [Version -> 0..MaxAge]]
  BY <1>1, <1>3
<1> HIDE DEF old
<1>5. req' \in [Req -> Request]
  <2> SUFFICES ASSUME NEW r \in Req
               PROVE  [req[r] EXCEPT !.late = Storing(r)] \in Request
    BY <1>1
  <2>1. Storing(r) \in BOOLEAN /\ req[r] \in Request
    BY DEF IInv, TypeOK, Storing
  <2> QED BY <2>1 DEF Request
<1>6. RedisType'
  <2>1. ASSUME NEW p \in Page
        PROVE  /\ Aged(body[p]) \in Entry(TTL) \cup {None}
               /\ Aged(header[p]) \in Entry(TTL) \cup {None}
    BY <1>2, AgedOK, Bounds, NoneAssumption DEF RedisType
  <2>2. Aged(count) \in Entry(CountTTL) \cup {None}
    BY <1>2, AgedOK, Bounds, NoneAssumption DEF RedisType
  <2> QED BY <1>1, <2>1, <2>2 DEF RedisType
<1>7. TypeOK'
  BY <1>1, <1>2, <1>4, <1>5, <1>6 DEF TypeOK, RedisType, GitHubType
<1>8. CurrentOK'
  BY <1>1, <1>3 DEF IInv, CurrentOK
<1>9. StalenessBounded'
  <2>1. ASSUME NEW p \in Page, body'[p] # None
        PROVE  outdated'[p][body'[p].version] + body'[p].left <= TTL + 1
    <3>1. /\ body[p] \in Entry(TTL) /\ body'[p].version = body[p].version
          /\ body'[p].left = body[p].left - 1
      BY <1>1, <1>2, <2>1, AgedOK, Bounds, NoneAssumption DEF RedisType
    <3>2. body[p].version \in Version /\ body[p].left \in 1..TTL
      BY <3>1 DEF Entry
    <3>3. outdated[p][body[p].version] + body[p].left <= TTL + 1
      BY <3>1, NoneAssumption DEF IInv, StalenessBounded
    <3>4. /\ outdated'[p][body[p].version] <=
                outdated[p][body[p].version] + 1
          /\ outdated[p][body[p].version] \in 0..MaxAge
          /\ outdated'[p][body[p].version] \in 0..MaxAge
      BY <1>1, <1>2, <1>3, <3>2 DEF GitHubType
    <3> QED BY <3>1, <3>2, <3>3, <3>4, Bounds
  <2>2. ASSUME count' # None
        PROVE  outdated'[1][count'.version] + count'.left <= CountTTL + 1
    <3>1. /\ count \in Entry(CountTTL) /\ count'.version = count.version
          /\ count'.left = count.left - 1
      BY <1>1, <1>2, <2>2, AgedOK, Bounds, NoneAssumption DEF RedisType
    <3>2. count.version \in Version /\ count.left \in 1..CountTTL
      BY <3>1 DEF Entry
    <3>3. outdated[1][count.version] + count.left <= CountTTL + 1
      BY <3>1, NoneAssumption DEF IInv, StalenessBounded
    <3>4. /\ outdated'[1][count.version] <= outdated[1][count.version] + 1
          /\ outdated[1][count.version] \in 0..MaxAge
          /\ outdated'[1][count.version] \in 0..MaxAge
      BY <1>1, <1>2, <1>3, <3>2, Bounds DEF GitHubType
    <3> QED BY <3>1, <3>2, <3>3, <3>4, Bounds
  <2> QED BY <2>1, <2>2 DEF StalenessBounded
<1>10. ASSUME NEW r \in Req
       PROVE  (FreshOK(req[r], outdated) /\ CountOK(req[r]))'
  <2> DEFINE q == req[r]
  <2>1. /\ q \in Request /\ FreshOK(q, outdated) /\ CountOK(q) /\ ~q.late
    BY <1>1, Known
  <2>2. /\ req'[r].pc = q.pc /\ req'[r].got = q.got /\ req'[r].page = q.page
        /\ req'[r].kind = q.kind /\ req'[r].late = (q.pc \in Stores)
    BY <1>1, <2>1 DEF Request, Storing, Stores
  <2>3. ASSUME q.pc \in Stores
        PROVE  q.got \in Version /\ outdated'[q.page][q.got] <= 1
    <3>1. q.got \in Version /\ outdated[q.page][q.got] <= 0 /\ q.page \in Page
      BY <2>1, <2>3 DEF FreshOK, Request
    <3>2. /\ outdated[q.page][q.got] \in 0..MaxAge
          /\ outdated'[q.page][q.got] \in 0..MaxAge
          /\ outdated'[q.page][q.got] <= outdated[q.page][q.got] + 1
      BY <1>1, <1>2, <1>3, <3>1 DEF GitHubType
    <3> QED BY <3>1, <3>2, Bounds
  <2> QED BY <2>1, <2>2, <2>3 DEF FreshOK, CountOK
<1> QED BY <1>7, <1>8, <1>9, <1>10 DEF IInv

LEMMA ExpireStep ==
    ASSUME IInv, NEW p \in Page, Expire(p)
    PROVE  IInv'
<1>1. /\ UNCHANGED <<upstream, outdated, count, req>>
      /\ body' \in {body, [body EXCEPT ![p] = None]}
      /\ header' \in {header, [header EXCEPT ![p] = None]}
  BY DEF Expire, github
<1>2. TypeOK'
  BY <1>1 DEF IInv, TypeOK
<1>3. CurrentOK' /\ StalenessBounded'
  BY <1>1 DEF IInv, CurrentOK, StalenessBounded, TypeOK
<1>4. \A r \in Req : (FreshOK(req[r], outdated) /\ CountOK(req[r]))'
  BY <1>1 DEF IInv, FreshOK, CountOK
<1> QED BY <1>2, <1>3, <1>4 DEF IInv

\* The steps of a request that leave Redis alone, and what they lead to.
LEMMA QuietSteps ==
    ASSUME IInv, NEW r \in Req,
           \/ Start(r) \/ Lookup(r) \/ LookupCount(r) \/ Retry(r) \/ GiveUp(r)
           \/ NotModified(r) \/ Receive(r) \/ ReadBody(r) \/ ReadHeader(r)
           \/ Crash(r)
    PROVE  IInv'
<1> USE Known
<1>0. UNCHANGED <<github, redis>>
  BY DEF Start, Lookup, LookupCount, Retry, GiveUp, NotModified, Receive,
         ReadBody, ReadHeader, Crash
<1> DEFINE p == req[r].page
<1>a. req[r] \in Request /\ p \in Page
  BY DEF Request
<1>1. CASE req' = [req EXCEPT ![r] = Idle]
  <2>1. FreshOK(Idle, outdated)
    BY DEF FreshOK, Idle, Stores
  <2> QED BY <1>0, <1>1, <2>1, IdleOK, QuietStep
<1>2. CASE \E link \in BOOLEAN : Deliver(r, link)
  BY <1>0, <1>2, DeliverOK, QuietStep
<1>3. CASE Start(r)
  <2>1. PICK kind \in Kinds :
            req' = [req EXCEPT ![r] =
                [Idle EXCEPT !.pc = "lookup", !.kind = kind]]
    BY <1>3, KindAssumption DEF Start
  <2> DEFINE q == [Idle EXCEPT !.pc = "lookup", !.kind = kind]
  <2>2. "lookup" \in Steps
    BY DEF Steps
  <2>3. q \in Request
    BY <2>2, IdleOK DEF Request
  <2>4. FreshOK(q, outdated) /\ CountOK(q)
    BY DEF FreshOK, CountOK, Idle, Stores
  <2> HIDE DEF q
  <2> QED BY <1>0, <2>1, <2>3, <2>4, QuietStep DEF q
<1>4. CASE \/ Lookup(r)
           \/ ReadBody(r)
           \/ LookupCount(r) /\ req' = [req EXCEPT ![r].pc = "send"]
  <2>1. \A e \in Entry(TTL) \cup {None} :
            Read(e) \subseteq Version \cup {None}
    BY DEF Read, Entry
  <2>2. /\ Read(header[p]) \subseteq Version \cup {None}
        /\ Read(body[p]) \subseteq Version \cup {None}
    BY <1>a, <2>1, Bounds DEF RedisType
  <2>3. PICK q \in Request :
            /\ req' = [req EXCEPT ![r] = q]
            /\ q.pc \in {"send", "header"} /\ q.late = req[r].late
            /\ q.kind = req[r].kind /\ q.page = p
    <3>1. CASE Lookup(r)
      <4>1. PICK etag \in Read(header[p]) :
                req' = [req EXCEPT ![r].pc = "send", ![r].etag = etag]
        BY <3>1 DEF Lookup
      <4> DEFINE q == [req[r] EXCEPT !.pc = "send", !.etag = etag]
      <4>2. "send" \in Steps /\ etag \in Version \cup {None}
        BY <2>2 DEF Steps
      <4>3. q \in Request
        BY <1>a, <4>2 DEF Request
      <4> QED BY <1>a, <4>1, <4>3 DEF Request, IInv, TypeOK
    <3>2. CASE ReadBody(r)
      <4>1. PICK v \in Read(body[p]) :
                req' = [req EXCEPT ![r].pc = "header", ![r].got = v]
        BY <3>2 DEF ReadBody
      <4> DEFINE q == [req[r] EXCEPT !.pc = "header", !.got = v]
      <4>2. "header" \in Steps /\ v \in Version \cup {None}
        BY <2>2 DEF Steps
      <4>3. q \in Request
        BY <1>a, <4>2 DEF Request
      <4> QED BY <1>a, <4>1, <4>3 DEF Request, IInv, TypeOK
    <3>3. CASE LookupCount(r) /\ req' = [req EXCEPT ![r].pc = "send"]
      <4> DEFINE q == [req[r] EXCEPT !.pc = "send"]
      <4>1. "send" \in Steps
        BY DEF Steps
      <4>2. q \in Request
        BY <1>a, <4>1 DEF Request
      <4> QED BY <1>a, <3>3, <4>2 DEF Request, IInv, TypeOK
    <3> QED BY <1>4, <3>1, <3>2, <3>3
  <2>4. req[r].pc \notin Stores
    BY <1>4 DEF Lookup, ReadBody, LookupCount, Stores
  <2>5. FreshOK(q, outdated) /\ CountOK(q)
    BY <2>3, <2>4 DEF FreshOK, CountOK, Stores
  <2> QED BY <1>0, <2>3, <2>5, QuietStep
<1>5. CASE Retry(r)
  <2> DEFINE next == req[r].attempt + 1
             q == [req[r] EXCEPT !.attempt = next]
  <2>1. next \in 0..MaxAttempts - 1 /\ req[r].pc = "send"
    BY <1>5, Bounds DEF Retry, Request
  <2>2. req' = [req EXCEPT ![r] = q]
    BY <1>5 DEF Retry, IInv, TypeOK
  <2> HIDE DEF next
  <2>3. q \in Request
    BY <1>a, <2>1 DEF Request
  <2>4. /\ q.pc = "send" /\ q.late = req[r].late
        /\ q.kind = req[r].kind /\ q.page = p
    BY <2>1 DEF Request
  <2> HIDE DEF q
  <2>5. FreshOK(q, outdated) /\ CountOK(q)
    BY <2>1, <2>4 DEF FreshOK, CountOK, Stores
  <2> QED BY <1>0, <2>2, <2>3, <2>5, QuietStep
<1>6. CASE NotModified(r)
  <2> DEFINE q == [req[r] EXCEPT !.pc = "body"]
  <2>1. "body" \in Steps /\ req[r].pc = "send"
    BY <1>6 DEF NotModified, Steps
  <2>2. q \in Request /\ req' = [req EXCEPT ![r] = q]
    BY <1>6, <1>a, <2>1 DEF NotModified, Request, IInv, TypeOK
  <2>3. /\ q.pc = "body" /\ q.late = req[r].late
        /\ q.kind = req[r].kind /\ q.page = p
    BY DEF Request
  <2> HIDE DEF q
  <2>4. FreshOK(q, outdated) /\ CountOK(q)
    BY <2>1, <2>3 DEF FreshOK, CountOK, Stores
  <2> QED BY <1>0, <2>2, <2>4, QuietStep
<1>7. CASE Receive(r)
  <2> DEFINE v == upstream[p]
             to == IF req[r].kind = "count" THEN "store_count"
                                            ELSE "store_body"
             q == [req[r] EXCEPT !.got = v, !.pc = to]
  <2>1. req' = [req EXCEPT ![r] = q]
    BY <1>7 DEF Receive, IInv, TypeOK
  <2>2. /\ to \in Steps /\ to \in Stores
        /\ to = "store_count" => req[r].kind = "count"
    BY DEF Steps, Stores
  <2>3. v \in Version /\ outdated[p][v] = 0
    <3>1. v \in Version
      BY <1>a DEF GitHubType
    <3>2. CurrentOK /\ v = upstream[p]
      BY DEF IInv
    <3> HIDE DEF v
    <3>3. v >= v
      BY <3>1, Bounds
    <3> QED BY <1>a, <3>1, <3>2, <3>3 DEF CurrentOK
  <2> HIDE DEF v, to
  <2>4. q \in Request
    BY <1>a, <2>2, <2>3 DEF Request
  <2>5. /\ q.pc = to /\ q.late = req[r].late /\ q.got = v
        /\ q.kind = req[r].kind /\ q.page = p
    BY DEF Request
  <2> HIDE DEF q
  <2>6. ~req[r].late
    BY <1>7 DEF Receive, FreshOK, Stores
  <2>7. FreshOK(q, outdated) /\ CountOK(q)
    BY <2>2, <2>3, <2>5, <2>6 DEF FreshOK, CountOK
  <2> QED BY <1>0, <2>1, <2>4, <2>7, QuietStep
<1> QED
  BY <1>1, <1>2, <1>3, <1>4, <1>5, <1>6, <1>7
    DEF LookupCount, GiveUp, ReadHeader, Crash

\* What is put into Redis is a tick old at most.
LEMMA StoreSteps ==
    ASSUME IInv, NEW r \in Req, Store(r) \/ StoreCount(r)
    PROVE  IInv'
<1> USE Known
<1> DEFINE p == req[r].page
           v == req[r].got
<1>1. /\ req[r].pc \in Stores /\ UNCHANGED github
      /\ req[r].pc = "store_count" => StoreCount(r)
  BY DEF Store, StoreCount, Stores
<1>2. /\ p \in Page /\ v \in Version /\ outdated[p][v] \in 0..MaxAge
      /\ outdated[p][v] <= 1 /\ req[r] \in Request
  <2>1. p \in Page /\ req[r] \in Request
    BY DEF Request
  <2>2. v \in Version /\ outdated[p][v] <= IF req[r].late THEN 1 ELSE 0
    BY <1>1 DEF FreshOK
  <2> HIDE DEF p, v
  <2>3. outdated[p][v] \in 0..MaxAge
    BY <2>1, <2>2 DEF GitHubType
  <2> QED BY <2>1, <2>2, <2>3, Bounds
<1>3. UNCHANGED <<upstream, outdated>>
  BY <1>1 DEF github
<1>4. /\ body' \in {body, [body EXCEPT ![p] = Set(v, TTL)]}
      /\ header' \in {header, [header EXCEPT ![p] = Set(v, TTL)]}
      /\ \/ count' = count
         \/ StoreCount(r) /\ count' = Set(v, CountTTL)
  <2>1. CASE StoreCount(r)
    BY <2>1 DEF StoreCount
  <2>2. CASE Store(r)
    BY <2>2 DEF Store
  <2> QED BY <2>1, <2>2
<1>5. /\ Set(v, TTL) \in Entry(TTL) /\ Set(v, CountTTL) \in Entry(CountTTL)
      /\ Set(v, TTL).version = v /\ Set(v, TTL).left = TTL
      /\ Set(v, CountTTL).version = v /\ Set(v, CountTTL).left = CountTTL
  BY <1>2, SetOK, Bounds
<1>6. StoreCount(r) => p = 1
  BY DEF StoreCount, CountOK
<1> HIDE DEF p, v
<1>7. RedisType'
  BY <1>2, <1>4, <1>5 DEF RedisType
<1>8. StalenessBounded'
  <2>1. outdated[p][v] + TTL <= TTL + 1
        /\ outdated[p][v] + CountTTL <= CountTTL + 1
    BY <1>2, Bounds
  <2>2. ASSUME NEW x \in Page, body'[x] # None
        PROVE  outdated[x][body'[x].version] + body'[x].left <= TTL + 1
    <3>1. CASE body'[x] = body[x]
      BY <2>2, <3>1 DEF IInv, StalenessBounded
    <3>2. CASE x = p /\ body'[x] = Set(v, TTL)
      BY <1>5, <2>1, <3>2
    <3> QED BY <1>4, <3>1, <3>2 DEF RedisType
  <2>3. ASSUME count' # None
        PROVE  outdated[1][count'.version] + count'.left <= CountTTL + 1
    BY <1>4, <1>5, <1>6, <2>1, <2>3 DEF IInv, StalenessBounded
  <2> QED BY <1>3, <2>2, <2>3 DEF StalenessBounded
<1>9. CASE \E link \in BOOLEAN : Deliver(r, link)
  BY <1>1, <1>7, <1>8, <1>9, DeliverOK, OneRequest
<1>10. CASE req[r].pc = "store_body"
            /\ req' = [req EXCEPT ![r].pc = "store_header"]
  <2> DEFINE q == [req[r] EXCEPT !.pc = "store_header"]
  <2>1. q \in Request /\ req' = [req EXCEPT ![r] = q]
    <3>1. "store_header" \in Steps
      BY DEF Steps
    <3> QED BY <1>2, <1>10, <3>1 DEF Request, IInv, TypeOK
  <2>2. /\ q.pc = "store_header" /\ q.late = req[r].late
        /\ q.got = req[r].got /\ q.kind = req[r].kind /\ q.page = req[r].page
    BY DEF Request
  <2> HIDE DEF q
  <2>3. FreshOK(q, outdated) /\ CountOK(q)
    BY <1>1, <2>2 DEF FreshOK, CountOK, Stores
  <2> QED BY <1>1, <1>7, <1>8, <2>1, <2>3, OneRequest
<1> QED BY <1>9, <1>10 DEF Store, StoreCount

LEMMA NextKeeps == IInv /\ [Next]_vars => IInv'
<1>1. ASSUME IInv, UNCHANGED vars PROVE IInv'
  BY <1>1 DEF IInv, TypeOK, CurrentOK, StalenessBounded, FreshOK, CountOK,
              vars, github, redis
<1>2. ASSUME IInv, Next PROVE IInv'
  BY <1>2, TickStep, ChangeStep, ExpireStep, QuietSteps, StoreSteps
    DEF Next, Proceed
<1> QED BY <1>1, <1>2

\* IInv is an invariant of the client.
THEOREM Invariance == Spec => []IInv
BY InitOK, NextKeeps, PTL DEF Spec

\* Every variable keeps its type: GitHubAPIClient.request and its helpers.
THEOREM TypeCorrect == Spec => []TypeOK
<1>1. IInv => TypeOK
  BY DEF IInv
<1> QED BY <1>1, Invariance, PTL

\* An answer from the cache is out of date for no longer than its time to live
\* and the time of its storing, however requests of a page overlap or die
\* between their writes.
THEOREM CacheIsNotStale == Spec => []StalenessBounded
<1>1. IInv => StalenessBounded
  BY DEF IInv
<1> QED BY <1>1, Invariance, PTL

-----------------------------------------------------------------------------
(* One request at a time: the two keys of a page, and what a request has   *)
(* read of them                                                            *)

Alone == \A r, s \in Req : r = s

\* An ETag is never newer than the body beside it.
KeysOK ==
    \A p \in Page :
        /\ body[p] # None => body[p].version <= upstream[p]
        /\ header[p] # None => header[p].version <= upstream[p]
        /\ body[p] # None /\ header[p] # None =>
            header[p].version <= body[p].version

\* q is a request; b, h and u are the body, the header and GitHub's version of
\* its page.  GitHub confirms only its own version: an ETag that is no newer
\* than the body is then the body's.
ConfirmedOK(q, b, h, u) ==
    /\ q.pc = "lookup" => q.etag = None
    /\ q.pc = "send" /\ q.etag # None /\ b # None => q.etag <= b.version
    /\ q.pc = "body" /\ b # None => b.version = q.etag
    /\ q.pc = "header" /\ q.got # None => q.got = q.etag
    /\ q.pc \in {"store_body", "store_header"} => q.got <= u
    /\ q.pc = "store_body" /\ h # None => h.version <= q.got
    /\ q.pc = "store_header" /\ b # None => b.version = q.got

Confirmed(r) ==
    ConfirmedOK(req[r], body[req[r].page], header[req[r].page],
                upstream[req[r].page])

CInv == IInv /\ KeysOK /\ \A r \in Req : Confirmed(r)

LEMMA KnownAlone ==
    ASSUME CInv, NEW r \in Req
    PROVE  /\ req[r] \in Request /\ req[r].page \in Page
           /\ KeysOK /\ Confirmed(r) /\ GitHubType /\ RedisType
           /\ FreshOK(req[r], outdated)
BY Known DEF CInv, Request

LEMMA OneConfirmed ==
    ASSUME CInv, IInv', Alone, NEW r \in Req, NEW q \in Request,
           req' = [req EXCEPT ![r] = q], KeysOK',
           ConfirmedOK(q, body'[q.page], header'[q.page], upstream'[q.page])
    PROVE  CInv'
<1>1. req'[r] = q
  BY DEF CInv, IInv, TypeOK
<1>2. \A s \in Req : s = r
  BY DEF Alone
<1>3. ASSUME NEW s \in Req PROVE Confirmed(s)'
  BY <1>1, <1>2 DEF Confirmed
<1> QED BY <1>3 DEF CInv

\* The same for a step that leaves Redis and GitHub alone.
LEMMA QuietConfirmed ==
    ASSUME CInv, IInv', Alone, NEW r \in Req, NEW q \in Request,
           req' = [req EXCEPT ![r] = q], UNCHANGED <<github, redis>>,
           ConfirmedOK(q, body[q.page], header[q.page], upstream[q.page])
    PROVE  CInv'
<1>1. UNCHANGED <<body, header, upstream>>
  BY DEF redis, github
<1>2. KeysOK'
  BY <1>1 DEF CInv, KeysOK
<1> QED BY <1>1, <1>2, OneConfirmed

\* Entries that go, and versions of GitHub that come, disturb nothing.
LEMMA LessIsConfirmed ==
    ASSUME CInv, IInv',
           \A r \in Req : /\ req'[r].pc = req[r].pc
                          /\ req'[r].page = req[r].page
                          /\ req'[r].etag = req[r].etag
                          /\ req'[r].got = req[r].got,
           \A p \in Page :
               /\ body'[p] # None =>
                    body[p] # None /\ body'[p].version = body[p].version
               /\ header'[p] # None =>
                    header[p] # None /\ header'[p].version = header[p].version
               /\ upstream'[p] >= upstream[p]
    PROVE  CInv'
<1>1. \A p \in Page : upstream[p] \in Nat /\ upstream'[p] \in Nat
  BY Bounds DEF CInv, IInv, TypeOK
<1>2. \A p \in Page :
        /\ body[p] # None => body[p].version \in Nat
        /\ header[p] # None => header[p].version \in Nat
  BY Bounds DEF CInv, IInv, TypeOK, Entry
<1>3. KeysOK'
  <2> SUFFICES ASSUME NEW p \in Page
               PROVE  /\ body'[p] # None => body'[p].version <= upstream'[p]
                      /\ header'[p] # None =>
                            header'[p].version <= upstream'[p]
                      /\ body'[p] # None /\ header'[p] # None =>
                            header'[p].version <= body'[p].version
    BY DEF KeysOK
  <2>1. CInv /\ KeysOK
    BY DEF CInv
  <2> QED BY <1>1, <1>2, <2>1 DEF KeysOK
<1>4. ASSUME NEW r \in Req PROVE Confirmed(r)'
  <2> DEFINE p == req[r].page
  <2>1. p \in Page /\ Confirmed(r) /\ FreshOK(req[r], outdated)
    BY KnownAlone
  <2>2. req[r].pc \in {"store_body", "store_header"} => req[r].got \in Nat
    BY <2>1, Bounds DEF FreshOK, Stores
  <2> QED BY <1>1, <1>2, <2>1, <2>2 DEF Confirmed, ConfirmedOK
<1> QED BY <1>3, <1>4 DEF CInv

LEMMA DeliverConfirmed ==
    ASSUME CInv, IInv', Alone, NEW r \in Req, KeysOK',
           \E link \in BOOLEAN : Deliver(r, link)
    PROVE  CInv'
<1>1. PICK q \in Request :
        /\ req' = [req EXCEPT ![r] = q]
        /\ q.pc \in {"idle", "lookup"} /\ q.etag = None
  BY DeliverOK DEF CInv
<1>2. ConfirmedOK(q, body'[q.page], header'[q.page], upstream'[q.page])
  BY <1>1 DEF ConfirmedOK
<1> QED BY <1>1, <1>2, OneConfirmed

\* What time and GitHub do.
LEMMA OthersConfirmed ==
    ASSUME CInv, IInv', Tick \/ \E p \in Page : Change(p) \/ Expire(p)
    PROVE  CInv'
<1>1. RedisType /\ GitHubType /\ req \in [Req -> Request]
  BY DEF CInv, IInv, TypeOK, RedisType, GitHubType
<1>2. CASE Tick
  <2>1. \A r \in Req : /\ req'[r].pc = req[r].pc
                       /\ req'[r].page = req[r].page
                       /\ req'[r].etag = req[r].etag
                       /\ req'[r].got = req[r].got
    BY <1>1, <1>2 DEF Tick, Request
  <2>2. ASSUME NEW p \in Page
        PROVE  /\ body'[p] # None =>
                    body[p] # None /\ body'[p].version = body[p].version
               /\ header'[p] # None =>
                    header[p] # None /\ header'[p].version = header[p].version
               /\ upstream'[p] >= upstream[p]
    <3>1. body'[p] = Aged(body[p]) /\ header'[p] = Aged(header[p])
          /\ upstream'[p] = upstream[p]
      BY <1>2 DEF Tick
    <3>2. upstream[p] \in Nat
      BY <1>1, Bounds DEF GitHubType
    <3>3. body[p] \in Entry(TTL) \cup {None}
          /\ header[p] \in Entry(TTL) \cup {None}
      BY <1>1 DEF RedisType
    <3> QED BY <3>1, <3>2, <3>3, AgedOK, Bounds, NoneAssumption
  <2> QED BY <2>1, <2>2, LessIsConfirmed
<1>3. ASSUME NEW p \in Page, Change(p) PROVE CInv'
  <2>1. UNCHANGED <<body, header, req>>
    BY <1>3 DEF Change, redis
  <2>2. ASSUME NEW x \in Page PROVE upstream'[x] >= upstream[x]
    <3>1. upstream[x] \in Nat /\ upstream[p] \in Nat
      BY <1>1, Bounds DEF GitHubType
    <3>2. upstream'[x] = IF x = p THEN upstream[p] + 1 ELSE upstream[x]
      BY <1>1, <1>3 DEF Change, GitHubType
    <3> QED BY <3>1, <3>2
  <2> QED BY <2>1, <2>2, LessIsConfirmed
<1>4. ASSUME NEW p \in Page, Expire(p) PROVE CInv'
  <2>1. /\ UNCHANGED <<upstream, req>>
        /\ body' \in {body, [body EXCEPT ![p] = None]}
        /\ header' \in {header, [header EXCEPT ![p] = None]}
    BY <1>4 DEF Expire, github
  <2>2. \A x \in Page : upstream[x] \in Nat
    BY <1>1, Bounds DEF GitHubType
  <2> QED BY <1>1, <2>1, <2>2, LessIsConfirmed DEF RedisType
<1> QED BY <1>2, <1>3, <1>4

\* What a read returns is what the key holds.
LEMMA ReadOK ==
    ASSUME NEW entry, NEW v \in Read(entry), v # None
    PROVE  entry # None /\ v = entry.version
BY DEF Read

LEMMA QuietStepsConfirmed ==
    ASSUME CInv, IInv', Alone, NEW r \in Req,
           \/ Start(r) \/ Lookup(r) \/ LookupCount(r) \/ Retry(r) \/ GiveUp(r)
           \/ NotModified(r) \/ Receive(r) \/ ReadBody(r) \/ ReadHeader(r)
           \/ Crash(r)
    PROVE  CInv'
<1> USE KnownAlone
<1> DEFINE p == req[r].page
<1>1. UNCHANGED <<github, redis>> /\ KeysOK'
  <2>1. UNCHANGED <<github, redis>>
    BY DEF Start, Lookup, LookupCount, Retry, GiveUp, NotModified, Receive,
           ReadBody, ReadHeader, Crash
  <2> QED BY <2>1 DEF KeysOK, github, redis
<1>2. req \in [Req -> Request]
  BY DEF CInv, IInv, TypeOK
\* What is known of r, and of the keys of its page.
<1>3. /\ upstream[p] \in Version /\ Version \subseteq Nat
      /\ body[p] # None => body[p].version \in Nat
      /\ header[p] # None => header[p].version \in Nat
  BY Bounds DEF GitHubType, RedisType, Entry
<1>4. CASE req' = [req EXCEPT ![r] = Idle]
  BY <1>1, <1>4, IdleOK, QuietConfirmed DEF ConfirmedOK, Idle
<1>5. CASE \E link \in BOOLEAN : Deliver(r, link)
  BY <1>1, <1>5, DeliverConfirmed
<1>6. CASE Start(r)
  <2>1. PICK kind \in Kinds :
            req' = [req EXCEPT ![r] =
                [Idle EXCEPT !.pc = "lookup", !.kind = kind]]
    BY <1>6, KindAssumption DEF Start
  <2> DEFINE q == [Idle EXCEPT !.pc = "lookup", !.kind = kind]
  <2>2. q \in Request /\ q.pc = "lookup" /\ q.etag = None
    BY IdleOK DEF Request, Steps, Idle
  <2> HIDE DEF q
  <2>3. req' = [req EXCEPT ![r] = q]
    BY <2>1 DEF q
  <2> QED BY <1>1, <2>2, <2>3, QuietConfirmed DEF ConfirmedOK
<1>7. CASE Lookup(r)
  <2>1. PICK etag \in Read(header[p]) :
            req' = [req EXCEPT ![r].pc = "send", ![r].etag = etag]
    BY <1>7 DEF Lookup
  <2> DEFINE q == [req[r] EXCEPT !.pc = "send", !.etag = etag]
  <2>2. etag \in Version \cup {None} /\ "send" \in Steps
    BY ReadOK DEF Steps, RedisType, Entry
  <2>3. /\ q \in Request /\ req' = [req EXCEPT ![r] = q]
        /\ q.pc = "send" /\ q.etag = etag /\ q.page = p
    BY <1>2, <2>1, <2>2 DEF Request
  <2> HIDE DEF q
  <2>4. etag # None /\ body[p] # None => etag <= body[p].version
    BY ReadOK DEF KeysOK
  <2>5. ConfirmedOK(q, body[p], header[p], upstream[p])
    BY <2>3, <2>4 DEF ConfirmedOK
  <2> QED BY <1>1, <2>3, <2>5, QuietConfirmed
<1>8. CASE LookupCount(r) /\ req' = [req EXCEPT ![r].pc = "send"]
  <2> DEFINE q == [req[r] EXCEPT !.pc = "send"]
  <2>1. /\ q \in Request /\ req' = [req EXCEPT ![r] = q]
        /\ q.pc = "send" /\ q.etag = req[r].etag /\ q.page = p
    BY <1>2, <1>8 DEF Request, Steps
  <2> HIDE DEF q
  <2>2. req[r].etag = None
    BY <1>8 DEF LookupCount, Confirmed, ConfirmedOK
  <2>3. ConfirmedOK(q, body[p], header[p], upstream[p])
    BY <2>1, <2>2 DEF ConfirmedOK
  <2> QED BY <1>1, <2>1, <2>3, QuietConfirmed
<1>9. CASE Retry(r)
  <2> DEFINE next == req[r].attempt + 1
             q == [req[r] EXCEPT !.attempt = next]
  <2>1. next \in 0..MaxAttempts - 1 /\ req[r].pc = "send"
    BY <1>9, Bounds DEF Retry, Request
  <2>2. req' = [req EXCEPT ![r] = q]
    BY <1>2, <1>9 DEF Retry
  <2> HIDE DEF next
  <2>3. /\ q \in Request
        /\ q.pc = "send" /\ q.etag = req[r].etag /\ q.page = p
    BY <2>1 DEF Request
  <2> HIDE DEF q
  <2>4. ConfirmedOK(q, body[p], header[p], upstream[p])
    BY <2>1, <2>3 DEF Confirmed, ConfirmedOK
  <2> QED BY <1>1, <2>2, <2>3, <2>4, QuietConfirmed
<1>10. CASE NotModified(r)
  <2> DEFINE q == [req[r] EXCEPT !.pc = "body"]
  <2>1. /\ q \in Request /\ req' = [req EXCEPT ![r] = q]
        /\ q.pc = "body" /\ q.etag = req[r].etag /\ q.page = p
    BY <1>2, <1>10 DEF NotModified, Request, Steps
  <2> HIDE DEF q
  <2>2. /\ req[r].pc = "send" /\ req[r].etag = upstream[p]
    BY <1>10 DEF NotModified
  <2>3. body[p] # None => body[p].version = req[r].etag
    <3>1. req[r].etag # None
      BY <1>3, <2>2, NoneAssumption
    <3>2. body[p] # None => req[r].etag <= body[p].version
                            /\ body[p].version <= upstream[p]
      BY <2>2, <3>1 DEF Confirmed, ConfirmedOK, KeysOK
    <3>3. /\ upstream[p] \in Nat
          /\ body[p] # None => body[p].version \in Nat
      BY <1>3
    <3> HIDE DEF p
    <3> QED BY <2>2, <3>2, <3>3
  <2>4. ConfirmedOK(q, body[p], header[p], upstream[p])
    BY <2>1, <2>3 DEF ConfirmedOK
  <2> QED BY <1>1, <2>1, <2>4, QuietConfirmed
<1>11. CASE Receive(r)
  <2> DEFINE v == upstream[p]
             to == IF req[r].kind = "count" THEN "store_count"
                                            ELSE "store_body"
             q == [req[r] EXCEPT !.got = v, !.pc = to]
  <2>1. req' = [req EXCEPT ![r] = q]
    BY <1>2, <1>11 DEF Receive
  <2>2. to \in Steps /\ to \in {"store_count", "store_body"}
    BY DEF Steps
  <2> HIDE DEF to
  <2>3. q \in Request /\ q.pc = to /\ q.got = v /\ q.page = p
    BY <1>3, <2>2 DEF Request
  <2> HIDE DEF q
  <2>4. v <= v /\ (header[p] # None => header[p].version <= v)
    <3>1. v \in Nat
      BY <1>3
    <3>2. header[p] # None => header[p].version <= v
      BY DEF KeysOK
    <3> HIDE DEF v
    <3> QED BY <3>1, <3>2
  <2>5. ConfirmedOK(q, body[p], header[p], upstream[p])
    BY <2>2, <2>3, <2>4 DEF ConfirmedOK
  <2> QED BY <1>1, <2>1, <2>3, <2>5, QuietConfirmed
<1>12. CASE ReadBody(r)
  <2>1. PICK v \in Read(body[p]) :
            req' = [req EXCEPT ![r].pc = "header", ![r].got = v]
    BY <1>12 DEF ReadBody
  <2> DEFINE q == [req[r] EXCEPT !.pc = "header", !.got = v]
  <2>2. v \in Version \cup {None} /\ "header" \in Steps
    BY ReadOK DEF Steps, RedisType, Entry
  <2>3. /\ q \in Request /\ req' = [req EXCEPT ![r] = q] /\ q.pc = "header"
        /\ q.got = v /\ q.etag = req[r].etag /\ q.page = p
    BY <1>2, <2>1, <2>2 DEF Request
  <2> HIDE DEF q
  <2>4. v # None => v = req[r].etag
    BY <1>12, ReadOK DEF ReadBody, Confirmed, ConfirmedOK
  <2>5. ConfirmedOK(q, body[p], header[p], upstream[p])
    BY <2>3, <2>4 DEF ConfirmedOK
  <2> QED BY <1>1, <2>3, <2>5, QuietConfirmed
<1> QED
  BY <1>4, <1>5, <1>6, <1>7, <1>8, <1>9, <1>10, <1>11, <1>12
    DEF LookupCount, GiveUp, ReadHeader, Crash

\* The body comes first: whatever fails then, an ETag finds no older body.
LEMMA StoreStepsConfirmed ==
    ASSUME CInv, IInv', Alone, NEW r \in Req, Store(r) \/ StoreCount(r)
    PROVE  CInv'
<1> USE KnownAlone
<1> DEFINE p == req[r].page
           v == req[r].got
<1>1. /\ UNCHANGED <<upstream, outdated>>
      /\ body \in [Page -> Entry(TTL) \cup {None}]
      /\ header \in [Page -> Entry(TTL) \cup {None}]
  BY DEF Store, StoreCount, github, RedisType
<1>2. v \in Version /\ v \in Nat /\ TTL \in Nat /\ TTL >= 1
  BY Bounds DEF Store, StoreCount, FreshOK, Stores
<1>3. Set(v, TTL).version = v
  BY DEF Set
<1>4. CASE UNCHANGED <<body, header>> /\ \E link \in BOOLEAN : Deliver(r, link)
  <2>1. KeysOK'
    BY <1>1, <1>4 DEF KeysOK
  <2> QED BY <1>4, <2>1, DeliverConfirmed
<1>5. CASE /\ req[r].pc = "store_body"
           /\ body' = [body EXCEPT ![p] = Set(v, TTL)] /\ UNCHANGED header
           /\ req' = [req EXCEPT ![r].pc = "store_header"]
  <2>1. /\ v <= upstream[p]
        /\ header[p] # None => header[p].version <= v
    BY <1>5 DEF Confirmed, ConfirmedOK
  <2>2. /\ body'[p] = Set(v, TTL)
        /\ \A x \in Page : x # p => body'[x] = body[x]
    BY <1>1, <1>5
  <2>3. KeysOK'
    BY <1>1, <1>3, <1>5, <2>1, <2>2 DEF KeysOK
  <2> DEFINE q == [req[r] EXCEPT !.pc = "store_header"]
  <2>4. /\ q \in Request /\ req' = [req EXCEPT ![r] = q]
        /\ q.pc = "store_header" /\ q.got = v /\ q.page = p
    BY <1>5 DEF Request, Steps, CInv, IInv, TypeOK
  <2> HIDE DEF q
  <2>5. ConfirmedOK(q, body'[p], header'[p], upstream'[p])
    BY <1>1, <1>3, <2>1, <2>2, <2>4 DEF ConfirmedOK
  <2> QED BY <2>3, <2>4, <2>5, OneConfirmed
<1>6. CASE /\ req[r].pc = "store_header" /\ UNCHANGED body
           /\ header' = [header EXCEPT ![p] = Set(v, TTL)]
           /\ \E link \in BOOLEAN : Deliver(r, link)
  <2>1. /\ v <= upstream[p]
        /\ body[p] # None => body[p].version = v
    BY <1>6 DEF Confirmed, ConfirmedOK
  <2>2. /\ header'[p] = Set(v, TTL)
        /\ \A x \in Page : x # p => header'[x] = header[x]
    BY <1>1, <1>6
  <2>3. KeysOK'
    BY <1>1, <1>2, <1>3, <1>6, <2>1, <2>2 DEF KeysOK
  <2> QED BY <1>6, <2>3, DeliverConfirmed
<1> QED BY <1>4, <1>5, <1>6 DEF Store, StoreCount

LEMMA NextConfirms == Alone /\ CInv /\ [Next]_vars => CInv'
<1> SUFFICES ASSUME Alone, CInv, [Next]_vars PROVE CInv'
  OBVIOUS
<1>1. IInv'
  BY NextKeeps DEF CInv
<1>2. CASE UNCHANGED vars
  BY <1>1, <1>2 DEF CInv, KeysOK, Confirmed, vars, github, redis
<1>3. CASE Next
  BY <1>1, <1>3, OthersConfirmed, QuietStepsConfirmed, StoreStepsConfirmed
    DEF Next, Proceed
<1> QED BY <1>2, <1>3

LEMMA ConfirmedInit == Init => CInv
<1>1. Init => KeysOK
  BY DEF Init, KeysOK
<1>2. Init => \A r \in Req : Confirmed(r)
  <2> SUFFICES ASSUME Init, NEW r \in Req PROVE Confirmed(r)
    OBVIOUS
  <2>1. req[r] = Idle /\ body[1] = None /\ header[1] = None /\ Idle.page = 1
    BY Bounds DEF Init, Idle
  <2> QED BY <2>1 DEF Confirmed, ConfirmedOK, Idle
<1> QED BY <1>1, <1>2, InitOK DEF CInv

\* With one request at a time, the body that request returns for a 304 is the
\* one whose ETag GitHub confirmed, whatever fails between the writing of its
\* two keys, and whichever of them expires first.
THEOREM OneRequestIsConfirmed == Alone => (Spec => []ServedAsConfirmed)
<1> SUFFICES ASSUME Alone PROVE Spec => []ServedAsConfirmed
  OBVIOUS
<1>1. CInv /\ [Next]_vars => CInv'
  BY NextConfirms
<1>2. CInv => ServedAsConfirmed
  BY DEF CInv, Confirmed, ConfirmedOK, ServedAsConfirmed
<1> QED BY <1>1, <1>2, ConfirmedInit, PTL DEF Spec

-----------------------------------------------------------------------------
(* The end of a reading: how many steps it can still take                  *)

\* The last page a helper asks for, and the steps that a page takes at most:
\* the lookup, the attempts, and two after the answer.
LastPage == IF Pages < MaxPages THEN Pages ELSE MaxPages

PageSteps == MaxAttempts + 3

OnPage(q) ==
    IF q.pc = "lookup" THEN PageSteps
    ELSE IF q.pc = "send" THEN MaxAttempts - q.attempt + 2
    ELSE IF q.pc \in {"body", "store_body"} THEN 2 ELSE 1

PagesLeft(page) == (LastPage - page) * PageSteps

Remaining(q) == IF q.pc = "idle" THEN 0 ELSE PagesLeft(q.page) + OnPage(q)

PagesOK == \A r \in Req : req[r].page <= LastPage

LEMMA PagesLeftOK ==
    /\ LastPage \in Nat /\ LastPage >= 1 /\ PageSteps \in Nat
    /\ LastPage <= Pages /\ LastPage <= MaxPages
    /\ \A page \in 1..LastPage :
        PagesLeft(page) \in 0..(LastPage - 1) * PageSteps
    /\ \A page \in 1..LastPage : page < LastPage =>
        PagesLeft(page + 1) = PagesLeft(page) - PageSteps
<1>1. /\ LastPage \in Nat /\ LastPage >= 1 /\ PageSteps \in Nat
      /\ LastPage <= Pages /\ LastPage <= MaxPages
  BY BoundsAssumption DEF LastPage, PageSteps
<1> HIDE DEF LastPage, PageSteps
<1>2. \A m, n, k \in Nat : m <= n => m * k \in Nat /\ m * k <= n * k
  <2> SUFFICES ASSUME NEW m \in Nat, NEW n \in Nat, NEW k \in Nat, m <= n
               PROVE  m * k \in Nat /\ m * k <= n * k
    OBVIOUS
  <2>1. (n - m) * k >= 0 /\ n * k = m * k + (n - m) * k
    OBVIOUS
  <2> QED BY <2>1
<1>3. ASSUME NEW page \in 1..LastPage
      PROVE  PagesLeft(page) \in 0..(LastPage - 1) * PageSteps
  <2>1. /\ LastPage - page \in Nat /\ LastPage - 1 \in Nat
        /\ LastPage - page <= LastPage - 1
    BY <1>1
  <2>2. /\ (LastPage - page) * PageSteps \in Nat
        /\ (LastPage - page) * PageSteps <= (LastPage - 1) * PageSteps
        /\ (LastPage - 1) * PageSteps \in Nat
    BY <1>1, <1>2, <2>1
  <2> QED BY <2>2 DEF PagesLeft
<1>4. ASSUME NEW page \in 1..LastPage
      PROVE  PagesLeft(page + 1) = PagesLeft(page) - PageSteps
  <2>1. (LastPage - (page + 1)) * PageSteps
          = (LastPage - page) * PageSteps - PageSteps
    BY <1>1
  <2> QED BY <2>1 DEF PagesLeft
<1> QED BY <1>1, <1>3, <1>4

\* Where r is after it has gone on: on its page, with fewer steps, or at the
\* end of it.
LEMMA DeliverEnds ==
    ASSUME IInv, PagesOK, NEW r \in Req, NEW link \in BOOLEAN,
           Deliver(r, link), req[r].pc # "idle"
    PROVE  /\ Remaining(req'[r]) < Remaining(req[r])
           /\ req'[r].page <= LastPage
<1> DEFINE q == req[r]
<1>1. q \in Request /\ q.page \in 1..LastPage /\ req \in [Req -> Request]
  BY PagesLeftOK, Known DEF PagesOK, Request, Page, IInv, TypeOK
<1>2. PagesLeft(q.page) \in Nat /\ Remaining(q) >= PagesLeft(q.page) + 1
      /\ Remaining(q) \in Nat
  <2>1. OnPage(q) \in Nat /\ OnPage(q) >= 1
    BY <1>1, Bounds DEF OnPage, PageSteps, Request
  <2>2. PagesLeft(q.page) \in Nat
    BY <1>1, PagesLeftOK
  <2> QED BY <2>1, <2>2 DEF Remaining
<1>3. CASE ~HasNext(r, link)
  <2>1. req'[r] = Idle
    BY <1>1, <1>3 DEF Deliver
  <2>2. Remaining(Idle) = 0 /\ Idle.page = 1
    BY DEF Remaining, Idle
  <2> QED BY <1>2, <2>1, <2>2, PagesLeftOK
<1>4. CASE HasNext(r, link)
  <2>1. /\ req'[r].pc = "lookup" /\ req'[r].page = q.page + 1
        /\ q.page < Pages /\ q.page < MaxPages
    BY <1>1, <1>4 DEF Deliver, HasNext, Idle
  <2>2. q.page < LastPage
    BY <2>1 DEF LastPage
  <2>3. PagesLeft(q.page + 1) = PagesLeft(q.page) - PageSteps
    BY <1>1, <2>2, PagesLeftOK
  <2>4. Remaining(req'[r]) = PagesLeft(q.page)
    BY <1>2, <2>1, <2>3, PagesLeftOK DEF Remaining, OnPage
  <2> QED BY <1>1, <1>2, <2>1, <2>2, <2>4, PagesLeftOK
<1> QED BY <1>3, <1>4

\* A step that leaves r on its page, or ends it.
LEMMA StayEnds ==
    ASSUME IInv, PagesOK, NEW r \in Req, req[r].pc # "idle",
           \/ /\ req'[r].page = req[r].page /\ req'[r].pc # "idle"
              /\ OnPage(req'[r]) \in Int /\ OnPage(req'[r]) < OnPage(req[r])
           \/ req'[r] = Idle
    PROVE  /\ Remaining(req'[r]) < Remaining(req[r])
           /\ req'[r].page <= LastPage
<1>1. req[r] \in Request /\ req[r].page \in 1..LastPage
  BY PagesLeftOK, Known DEF PagesOK, Request, Page
<1>2. PagesLeft(req[r].page) \in Nat
  BY <1>1, PagesLeftOK
<1>3. OnPage(req[r]) \in Nat /\ OnPage(req[r]) >= 1
  BY <1>1, Bounds DEF OnPage, PageSteps, Request
<1>4. CASE req'[r] = Idle
  <2>1. Remaining(Idle) = 0 /\ Idle.page = 1
    BY DEF Remaining, Idle
  <2> QED BY <1>2, <1>3, <1>4, <2>1, PagesLeftOK DEF Remaining
<1>5. CASE /\ req'[r].page = req[r].page /\ req'[r].pc # "idle"
           /\ OnPage(req'[r]) \in Int /\ OnPage(req'[r]) < OnPage(req[r])
  BY <1>1, <1>2, <1>3, <1>5 DEF Remaining
<1> QED BY <1>4, <1>5

LEMMA ProceedEnds ==
    ASSUME IInv, PagesOK, NEW r \in Req, Proceed(r)
    PROVE  /\ Remaining(req'[r]) < Remaining(req[r])
           /\ req'[r].page <= LastPage
           /\ \A s \in Req : s # r => req'[s] = req[s]
<1>1. req \in [Req -> Request] /\ req[r] \in Request
      /\ MaxAttempts \in Nat /\ MaxAttempts >= 1
  BY Known, Bounds DEF IInv, TypeOK
<1>2. req[r].pc # "idle" /\ \A s \in Req : s # r => req'[s] = req[s]
  BY <1>1 DEF Proceed, Lookup, LookupCount, Retry, GiveUp, NotModified,
    Receive, Store, StoreCount, ReadBody, ReadHeader, Deliver
<1>3. CASE Lookup(r)
  <2>1. /\ req[r].pc = "lookup" /\ req'[r].pc = "send"
        /\ req'[r].page = req[r].page
        /\ req'[r].attempt \in 0..MaxAttempts - 1
    BY <1>1, <1>3 DEF Lookup, Request
  <2> QED BY <1>1, <1>2, <2>1, StayEnds DEF OnPage, PageSteps
<1>4. CASE LookupCount(r)
  <2>1. CASE req' = [req EXCEPT ![r].pc = "send"]
    <3>1. /\ req[r].pc = "lookup" /\ req'[r].pc = "send"
          /\ req'[r].page = req[r].page
          /\ req'[r].attempt \in 0..MaxAttempts - 1
      BY <1>1, <1>4, <2>1 DEF LookupCount, Request
    <3> QED BY <1>1, <1>2, <3>1, StayEnds DEF OnPage, PageSteps
  <2>2. CASE Deliver(r, FALSE)
    BY <1>2, <2>2, DeliverEnds
  <2> QED BY <1>4, <2>1, <2>2 DEF LookupCount
<1>5. CASE Retry(r)
  <2>1. /\ req[r].pc = "send" /\ req'[r].pc = "send"
        /\ req'[r].page = req[r].page
        /\ req'[r].attempt = req[r].attempt + 1
        /\ req[r].attempt \in 0..MaxAttempts - 1
    BY <1>1, <1>5 DEF Retry, Request
  <2> QED BY <1>1, <1>2, <2>1, StayEnds DEF OnPage
<1>6. CASE GiveUp(r)
  BY <1>1, <1>2, <1>6, StayEnds DEF GiveUp
<1>7. CASE NotModified(r) \/ Receive(r)
  <2>1. /\ req[r].pc = "send" /\ req'[r].page = req[r].page
        /\ req'[r].pc \in {"body", "store_body", "store_count"}
        /\ req[r].attempt \in 0..MaxAttempts - 1
    BY <1>1, <1>7 DEF NotModified, Receive, Request
  <2> QED BY <1>1, <1>2, <2>1, StayEnds DEF OnPage
<1>8. CASE Store(r) \/ StoreCount(r)
  <2>1. CASE Deliver(r, TRUE) \/ Deliver(r, FALSE)
    BY <1>2, <2>1, DeliverEnds
  <2>2. CASE req[r].pc = "store_body"
             /\ req' = [req EXCEPT ![r].pc = "store_header"]
    <3>1. req'[r].pc = "store_header" /\ req'[r].page = req[r].page
      BY <1>1, <2>2 DEF Request
    <3> QED BY <1>1, <1>2, <2>2, <3>1, StayEnds DEF OnPage
  <2> QED BY <1>8, <2>1, <2>2 DEF Store, StoreCount
<1>9. CASE ReadBody(r)
  <2>1. /\ req[r].pc = "body" /\ req'[r].pc = "header"
        /\ req'[r].page = req[r].page
    BY <1>1, <1>9 DEF ReadBody, Request
  <2> QED BY <1>1, <1>2, <2>1, StayEnds DEF OnPage
<1>10. CASE ReadHeader(r)
  <2>1. CASE \E link \in BOOLEAN : Deliver(r, link)
    BY <1>2, <2>1, DeliverEnds
  <2>2. CASE req' = [req EXCEPT ![r] = Idle]
    BY <1>1, <1>2, <2>2, StayEnds
  <2> QED BY <1>10, <2>1, <2>2 DEF ReadHeader
<1> QED
  BY <1>2, <1>3, <1>4, <1>5, <1>6, <1>7, <1>8, <1>9, <1>10 DEF Proceed

\* No step of others adds to what is left to a reading.
LEMMA NextEnds ==
    ASSUME IInv, PagesOK, [Next]_vars, NEW r \in Req
    PROVE  /\ req[r].pc # "idle" => Remaining(req'[r]) <= Remaining(req[r])
           /\ req'[r].page <= LastPage
<1>1. /\ req \in [Req -> Request] /\ req[r] \in Request
      /\ req[r].page \in 1..LastPage
  BY PagesLeftOK, Known DEF PagesOK, Request, Page, IInv, TypeOK
<1>2. Remaining(req[r]) \in Nat
  <2>1. PagesLeft(req[r].page) \in Nat
    BY <1>1, PagesLeftOK
  <2>2. OnPage(req[r]) \in Nat
    BY <1>1, Bounds DEF OnPage, PageSteps, Request
  <2> QED BY <2>1, <2>2 DEF Remaining
<1>3. CASE req'[r] = req[r]
  BY <1>1, <1>2, <1>3
<1>4. CASE Tick
  <2>1. /\ req'[r].pc = req[r].pc /\ req'[r].page = req[r].page
        /\ req'[r].attempt = req[r].attempt
    BY <1>1, <1>4 DEF Tick, Request
  <2>2. Remaining(req'[r]) = Remaining(req[r])
    BY <2>1 DEF Remaining, OnPage
  <2> QED BY <1>1, <1>2, <2>1, <2>2
<1>5. ASSUME NEW s \in Req, Start(s) \/ Crash(s)
      PROVE  /\ req[r].pc # "idle" => Remaining(req'[r]) <= Remaining(req[r])
             /\ req'[r].page <= LastPage
  <2>1. CASE s # r
    BY <1>1, <1>3, <1>5, <2>1 DEF Start, Crash
  <2>2. CASE s = r /\ Start(s)
    <3>1. req[r].pc = "idle" /\ req'[r].page = 1
      BY <1>1, <2>2 DEF Start, Idle
    <3> QED BY <3>1, PagesLeftOK
  <2>3. CASE s = r /\ Crash(s)
    <3>1. req'[r] = Idle /\ Remaining(Idle) = 0 /\ Idle.page = 1
      BY <1>1, <2>3 DEF Crash, Idle, Remaining
    <3> QED BY <1>2, <3>1, PagesLeftOK
  <2> QED BY <1>5, <2>1, <2>2, <2>3
<1>6. ASSUME NEW s \in Req, Proceed(s)
      PROVE  /\ req[r].pc # "idle" => Remaining(req'[r]) <= Remaining(req[r])
             /\ req'[r].page <= LastPage
  <2>1. CASE s # r
    BY <1>3, <1>6, <2>1, ProceedEnds
  <2>2. CASE s = r
    <3>1. /\ Remaining(req'[r]) < Remaining(req[r])
          /\ req'[r].page <= LastPage
      BY <1>6, <2>2, ProceedEnds
    <3>2. Remaining(req'[r]) \in Int
      <4>1. req'[r] \in Request /\ req'[r].page \in 1..LastPage
        <5>1. IInv'
          BY NextKeeps
        <5>2. req'[r] \in Request
          BY <5>1 DEF IInv, TypeOK
        <5>3. req'[r].page \in Page
          BY <5>2 DEF Request
        <5> QED BY <3>1, <5>2, <5>3, PagesLeftOK DEF Page
      <4>2. OnPage(req'[r]) \in Int /\ PagesLeft(req'[r].page) \in Int
        BY <4>1, PagesLeftOK, Bounds DEF OnPage, PageSteps, Request
      <4> QED BY <4>2 DEF Remaining
    <3> QED BY <1>2, <3>1, <3>2
  <2> QED BY <2>1, <2>2
<1> QED
  <2>1. CASE UNCHANGED vars \/ \E p \in Page : Change(p) \/ Expire(p)
    BY <1>3, <2>1 DEF vars, Change, Expire
  <2> QED BY <1>4, <1>5, <1>6, <2>1 DEF Next

\* A reading takes no more than MaxAttempts + 3 steps for each of its pages,
\* and asks for no more pages than there are or may be asked for: every step of
\* request and of the helpers takes one of what is left, and nothing that
\* others do, that fails or that expires gives any back.
THEOREM ReadingsAreBounded ==
    Spec => /\ [](\A r \in Req : Remaining(req[r]) \in 0..LastPage * PageSteps)
            /\ [][\A r \in Req :
                    /\ Proceed(r) => Remaining(req'[r]) < Remaining(req[r])
                    /\ req[r].pc # "idle" =>
                          Remaining(req'[r]) <= Remaining(req[r])]_vars
<1>1. Init => PagesOK
  <2>1. Idle.page = 1 /\ 1 <= LastPage
    BY PagesLeftOK DEF Idle
  <2> QED BY <2>1 DEF Init, PagesOK
<1>2. IInv /\ PagesOK /\ [Next]_vars => PagesOK'
  BY NextEnds DEF PagesOK
<1>3. IInv /\ PagesOK =>
        \A r \in Req : Remaining(req[r]) \in 0..LastPage * PageSteps
  <2> SUFFICES ASSUME IInv, PagesOK, NEW r \in Req
               PROVE  Remaining(req[r]) \in 0..LastPage * PageSteps
    OBVIOUS
  <2>1. req[r] \in Request /\ req[r].page \in 1..LastPage
    BY PagesLeftOK, Known DEF PagesOK, Request, Page
  <2>2. PagesLeft(req[r].page) \in 0..(LastPage - 1) * PageSteps
    BY <2>1, PagesLeftOK
  <2>3. OnPage(req[r]) \in 0..PageSteps
    BY <2>1, Bounds DEF OnPage, PageSteps, Request
  <2>4. (LastPage - 1) * PageSteps + PageSteps = LastPage * PageSteps
        /\ (LastPage - 1) * PageSteps \in Int
    BY PagesLeftOK
  <2> QED BY <2>2, <2>3, <2>4, PagesLeftOK DEF Remaining
<1>4. IInv /\ PagesOK /\ [Next]_vars =>
        [\A r \in Req :
            /\ Proceed(r) => Remaining(req'[r]) < Remaining(req[r])
            /\ req[r].pc # "idle" =>
                  Remaining(req'[r]) <= Remaining(req[r])]_vars
  BY NextEnds, ProceedEnds
<1> QED BY <1>1, <1>2, <1>3, <1>4, Invariance, PTL DEF Spec
=============================================================================
