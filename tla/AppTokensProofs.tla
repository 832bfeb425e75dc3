--------------------------- MODULE AppTokensProofs ---------------------------
(***************************************************************************)
(* Theorems about AppTokens, for any requests, lives, limits and number of *)
(* installations that satisfy its assumptions.                             *)
(*                                                                         *)
(* What a token or an id is good for depends on when the step began that   *)
(* holds it.  IInv carries that along: each step knows how far its         *)
(* beginning is from the issue of the token, or from the removal of the    *)
(* installation, and Tick lets no step last longer than its limit.         *)
(***************************************************************************)
EXTENDS AppTokens, TLAPS

-----------------------------------------------------------------------------
(* The inductive invariant, where q is what is known of a request *)

\* No step lasts longer than its limit.
InTime(q) ==
    q.pc # "idle" => q.since <= now /\ now <= q.since + Limit(q.pc)

\* How long the token of a step lives, from the beginning of the step.
Lives(q) ==
    /\ q.pc = "issued" => q.since + Life <= q.expires
    /\ q.pc = "keep" =>
        /\ q.since + Life <= q.expires + CallTime
        /\ q.since + Leeway < q.expires
    /\ q.pc = "use" => q.since + UseTime < q.expires

\* How long ago the installation of a step may have been removed when the step
\* began.
Recent(q) ==
    q.pc \in WithId /\ removed[q.id] # NoTime =>
        /\ q.pc = "resolved" => q.since <= removed[q.id]
        /\ q.pc = "keep id" => q.since <= removed[q.id] + CallTime
        /\ q.pc = "find" /\ fixed = NoId =>
              q.since < removed[q.id] + Forgotten

\* The id that is cached is kept neither too long nor too late.
KeyOK ==
    idKey.until # NoTime =>
        /\ idKey.until <= now + IdTTL
        /\ removed[idKey.id] # NoTime =>
              idKey.until <= removed[idKey.id] + Forgotten

RequestOK(q) == InTime(q) /\ Lives(q) /\ Recent(q)

IInv ==
    /\ TypeOK
    /\ installed # NoId => removed[installed] = NoTime
    /\ KeyOK
    /\ \A r \in Req : RequestOK(req[r])

\* A request as TypeOK knows it.
Known(q) == q \in Request /\ (q.pc \in WithId => q.id \in Id)

-----------------------------------------------------------------------------
(* Lemmas *)

\* Moments and limits are numbers.
LEMMA Numbers ==
    ASSUME TypeOK
    PROVE  /\ now \in Nat /\ Forgotten \in Nat
           /\ \A pc : Limit(pc) \in Nat
           /\ \A i \in Id : removed[i] # NoTime => removed[i] \in Nat
<1>1. \A pc : Limit(pc) \in Nat
  BY BoundsAssumption DEF Limit
<1>2. now \in Nat /\ Forgotten \in Nat
  BY BoundsAssumption DEF TypeOK, Time, Forgotten
<1>3. \A i \in Id : removed[i] # NoTime => removed[i] \in Nat
  BY BoundsAssumption DEF TypeOK, Time
<1> QED BY <1>1, <1>2, <1>3

\* A step of r that leaves GitHub and the time alone preserves IInv if what r
\* knows after it is right, and what it writes to Redis.
LEMMA OneRequest ==
    ASSUME IInv, NEW r \in Req, NEW q, Known(q), RequestOK(q),
           req' = [req EXCEPT ![r] = q], UNCHANGED <<now, fixed, github>>,
           idKey' \in IdKey, idKey'.until # NoTime => idKey'.id \in Id, KeyOK',
           tokenKey' \in [Id -> TokenKey]
    PROVE  IInv'
<1>1. TypeOK'
  BY DEF IInv, TypeOK, github, Known
<1>2. \A p \in Req : RequestOK(req[p])'
  <2> SUFFICES ASSUME NEW p \in Req PROVE RequestOK(req[p])'
    OBVIOUS
  <2>1. RequestOK(req'[p])
    BY DEF IInv, TypeOK
  <2> QED
    BY <2>1 DEF RequestOK, InTime, Lives, Recent, github
<1> QED BY <1>1, <1>2 DEF IInv, github

\* The same where Redis is left alone too.
LEMMA QuietStep ==
    ASSUME IInv, NEW r \in Req, NEW q, Known(q), RequestOK(q),
           req' = [req EXCEPT ![r] = q],
           UNCHANGED <<now, fixed, github, redis>>
    PROVE  IInv'
<1>1. KeyOK'
  BY DEF IInv, KeyOK, github, redis
<1> QED BY <1>1, OneRequest DEF IInv, TypeOK, redis

\* A step that begins now is in time.
LEMMA BeginsInTime ==
    ASSUME TypeOK, NEW q, q.since = now
    PROVE  InTime(q)
BY Numbers DEF InTime

\* A request that ends is idle again.
LEMMA EndStep ==
    ASSUME IInv, NEW r \in Req, End(r), UNCHANGED <<now, fixed, github, redis>>
    PROVE  IInv'
<1>1. Known(Idle) /\ RequestOK(Idle)
  BY DEF Idle, Known, Request, Steps, Paths, WithId, RequestOK, InTime, Lives,
         Recent
<1> QED BY <1>1, QuietStep DEF End

-----------------------------------------------------------------------------
(* installation_id_for *)

LEMMA StartStep ==
    ASSUME IInv, NEW r \in Req, Start(r)
    PROVE  IInv'
<1> DEFINE q == [req[r] EXCEPT !.pc = "id", !.since = now]
<1>1. Known(q) /\ q.since = now
  BY Numbers DEF IInv, TypeOK, Known, Request, Steps, WithId, RedisSteps
<1>2. RequestOK(q)
  BY <1>1, BeginsInTime DEF IInv, TypeOK, RequestOK, Lives, Recent, WithId,
     Request
<1> QED BY <1>1, <1>2, QuietStep DEF Start, Begin

LEMMA FixedIdStep ==
    ASSUME IInv, NEW r \in Req, FixedId(r)
    PROVE  IInv'
<1> DEFINE q == [req[r] EXCEPT !.pc = "find", !.since = now, !.id = fixed]
<1>1. Known(q) /\ q.since = now
  BY Numbers DEF FixedId, IInv, TypeOK, Known, Request, Steps, RedisSteps
<1>2. RequestOK(q)
  BY <1>1, BeginsInTime DEF FixedId, IInv, TypeOK, RequestOK, Lives, Recent,
     Request
<1> QED BY <1>1, <1>2, QuietStep DEF FixedId

\* The key expires before the id in it is forgotten.
LEMMA CachedIdStep ==
    ASSUME IInv, NEW r \in Req, CachedId(r)
    PROVE  IInv'
<1> DEFINE q == [req[r] EXCEPT !.pc = "find", !.since = now, !.id = idKey.id]
<1>1. Known(q) /\ q.since = now /\ q.id = idKey.id /\ q.pc = "find"
  BY Numbers DEF CachedId, Live, IInv, TypeOK, Known, Request, Steps,
     RedisSteps
<1>2. removed[idKey.id] # NoTime => now < removed[idKey.id] + Forgotten
  BY Numbers DEF CachedId, Live, IInv, KeyOK, TypeOK, IdKey
<1>3. Lives(q) /\ Recent(q)
  BY <1>1, <1>2 DEF Lives, Recent
<1>4. RequestOK(q)
  BY <1>1, <1>3, BeginsInTime DEF RequestOK, IInv
<1>5. req' = [req EXCEPT ![r] = q]
  BY DEF CachedId
<1> HIDE DEF q
<1> QED BY <1>1, <1>4, <1>5, QuietStep DEF CachedId

LEMMA UnknownIdStep ==
    ASSUME IInv, NEW r \in Req, UnknownId(r)
    PROVE  IInv'
<1> DEFINE q == [req[r] EXCEPT !.pc = "resolve", !.since = now]
<1>1. Known(q) /\ q.since = now
  BY Numbers DEF IInv, TypeOK, Known, Request, Steps, WithId, GitHubSteps
<1>2. RequestOK(q)
  BY <1>1, BeginsInTime DEF IInv, TypeOK, RequestOK, Lives, Recent, WithId,
     Request
<1> QED BY <1>1, <1>2, QuietStep DEF UnknownId, Begin

\* The installation is there when GitHub answers.
LEMMA ResolveStep ==
    ASSUME IInv, NEW r \in Req, Resolve(r)
    PROVE  IInv'
<1> DEFINE q == [req[r] EXCEPT !.pc = "resolved", !.id = installed]
<1>1. /\ Known(q) /\ q.pc = "resolved" /\ q.id = installed
      /\ q.since = req[r].since
  BY DEF Resolve, IInv, TypeOK, Known, Request, Steps, GitHubSteps
<1>2. Lives(q) /\ Recent(q)
  BY <1>1 DEF Resolve, IInv, Lives, Recent
<1>3. InTime(q)
  BY <1>1 DEF Resolve, IInv, RequestOK, InTime, Limit, GitHubSteps
<1> QED BY <1>1, <1>2, <1>3, QuietStep DEF Resolve, RequestOK

LEMMA TryNextStep ==
    ASSUME IInv, NEW r \in Req, TryNext(r)
    PROVE  IInv'
<1>1. PICK path \in Paths :
          req' = [req EXCEPT ![r].path = path, ![r].since = now]
  <2>1. PICK step \in {<<"repos", "orgs">>, <<"orgs", "users">>,
                        <<"users", "list">>} :
            req' = [req EXCEPT ![r].path = step[2], ![r].since = now]
    BY DEF TryNext
  <2>2. step[2] \in Paths
    BY DEF Paths
  <2> QED BY <2>1, <2>2
<1> DEFINE q == [req[r] EXCEPT !.path = path, !.since = now]
<1>2. Known(q) /\ q.since = now /\ q.pc = "resolve"
  <2>1. req[r] \in Request /\ req[r].pc = "resolve" /\ now \in Nat
    BY Numbers DEF TryNext, IInv, TypeOK
  <2> QED BY <2>1 DEF Known, Request, WithId
<1>3. RequestOK(q)
  BY <1>2, BeginsInTime DEF IInv, RequestOK, Lives, Recent, WithId
<1>4. req' = [req EXCEPT ![r] = q]
  BY <1>1
<1> HIDE DEF q
<1> QED BY <1>2, <1>3, <1>4, QuietStep DEF TryNext

\* The answer took no longer than the call.
LEMMA ResolvedStep ==
    ASSUME IInv, NEW r \in Req, Resolved(r)
    PROVE  IInv'
<1> DEFINE q == [req[r] EXCEPT !.pc = "keep id", !.since = now,
                               !.path = "repos"]
<1>1. /\ Known(q) /\ q.since = now /\ q.pc = "keep id" /\ q.id = req[r].id
      /\ q.id \in Id /\ req[r].since \in Nat
  BY Numbers DEF Resolved, IInv, TypeOK, Known, Request, Steps, RedisSteps,
     WithId, Paths
<1>2. removed[q.id] # NoTime => now <= removed[q.id] + CallTime
  <2>1. /\ now <= req[r].since + CallTime
        /\ removed[q.id] # NoTime => req[r].since <= removed[q.id]
    BY <1>1 DEF Resolved, IInv, RequestOK, InTime, Recent, Limit, GitHubSteps,
       WithId
  <2> QED BY <2>1, <1>1, Numbers, BoundsAssumption DEF IInv
<1>3. Lives(q) /\ Recent(q)
  BY <1>1, <1>2 DEF Lives, Recent
<1>4. RequestOK(q)
  BY <1>1, <1>3, BeginsInTime DEF RequestOK, IInv
<1> QED BY <1>1, <1>4, QuietStep DEF Resolved

\* The id is kept for IdTTL from now, and now is not late.
LEMMA KeepIdStep ==
    ASSUME IInv, NEW r \in Req, KeepId(r)
    PROVE  IInv'
<1> DEFINE q == [req[r] EXCEPT !.pc = "find", !.since = now]
<1>1. /\ Known(q) /\ q.since = now /\ q.pc = "find" /\ q.id = req[r].id
      /\ q.id \in Id /\ req[r].since \in Nat
  BY Numbers DEF KeepId, IInv, TypeOK, Known, Request, Steps, RedisSteps,
     WithId
<1>2. removed[q.id] # NoTime => now <= removed[q.id] + CallTime + RedisTime
  <2>1. /\ now <= req[r].since + RedisTime
        /\ removed[q.id] # NoTime => req[r].since <= removed[q.id] + CallTime
    BY <1>1 DEF KeepId, IInv, RequestOK, InTime, Recent, Limit, GitHubSteps,
       WithId
  <2> QED BY <2>1, <1>1, Numbers, BoundsAssumption DEF IInv
<1> HIDE DEF q
<1>3. /\ idKey'.id = q.id /\ idKey'.until = now + IdTTL
      /\ idKey' \in IdKey
  <2>1. idKey' = [id |-> q.id, until |-> now + IdTTL] /\ now + IdTTL \in Nat
    <3>1. idKey' = [id |-> req[r].id, until |-> now + IdTTL]
      BY DEF KeepId
    <3> QED BY <3>1, <1>1, Numbers, BoundsAssumption DEF IInv
  <2> QED BY <2>1, <1>1 DEF IdKey
<1>4. KeyOK'
  <2>1. now' = now /\ removed' = removed
    BY DEF KeepId, github
  <2>2. removed[q.id] # NoTime => now + IdTTL <= removed[q.id] + Forgotten
    BY <1>1, <1>2, Numbers, BoundsAssumption DEF Forgotten, IInv
  <2>3. now + IdTTL <= now + IdTTL
    BY Numbers, BoundsAssumption DEF IInv
  <2> QED BY <1>3, <2>1, <2>2, <2>3 DEF KeyOK
<1>5. Lives(q) /\ Recent(q)
  <2>1. removed[q.id] # NoTime => now < removed[q.id] + Forgotten
    BY <1>1, <1>2, Numbers, BoundsAssumption, IdTTLAssumption
       DEF Forgotten, IInv
  <2> QED BY <1>1, <2>1 DEF Lives, Recent
<1>6. RequestOK(q)
  BY <1>1, <1>5, BeginsInTime DEF RequestOK, IInv
<1>7. req' = [req EXCEPT ![r] = q] /\ tokenKey' = tokenKey
  BY DEF KeepId, Begin, q
<1> QED
  BY <1>1, <1>3, <1>4, <1>6, <1>7, OneRequest DEF KeepId, IInv, TypeOK

-----------------------------------------------------------------------------
(* installation_token_for *)

\* A token that is found lives longer than the leeway, and so than its use.
LEMMA CachedTokenStep ==
    ASSUME IInv, NEW r \in Req, CachedToken(r)
    PROVE  IInv'
<1> DEFINE key == tokenKey[req[r].id]
           q == [req[r] EXCEPT !.pc = "use", !.since = now,
                               !.expires = key.expires]
<1>1. req[r].id \in Id /\ req[r] \in Request /\ key \in TokenKey
  BY DEF CachedToken, IInv, TypeOK, WithId
<1>2. /\ Known(q) /\ q.since = now /\ q.pc = "use"
      /\ q.expires = key.expires /\ key.expires \in Nat
  BY <1>1, Numbers DEF IInv, Known, Request, Steps, WithId, TokenKey
<1>3. now + UseTime < key.expires
  BY <1>2, Numbers, BoundsAssumption, LeewayAssumption
     DEF CachedToken, Found, IInv
<1>4. req' = [req EXCEPT ![r] = q]
  BY DEF CachedToken
<1> HIDE DEF q
<1>5. InTime(q) /\ Lives(q) /\ Recent(q)
  BY <1>2, <1>3, BeginsInTime DEF IInv, Lives, Recent
<1> QED BY <1>2, <1>4, <1>5, QuietStep DEF CachedToken, RequestOK

LEMMA NotFoundStep ==
    ASSUME IInv, NEW r \in Req, NotFound(r)
    PROVE  IInv'
<1> DEFINE q == [req[r] EXCEPT !.pc = "issue", !.since = now]
<1>1. Known(q) /\ q.since = now /\ q.pc = "issue"
  BY Numbers DEF NotFound, IInv, TypeOK, Known, Request, Steps, WithId,
     GitHubSteps
<1>2. RequestOK(q)
  BY <1>1, BeginsInTime DEF IInv, RequestOK, Lives, Recent
<1> QED BY <1>1, <1>2, QuietStep DEF NotFound, Begin

LEMMA IssueStep ==
    ASSUME IInv, NEW r \in Req, Issue(r)
    PROVE  IInv'
<1>1. CASE installed # req[r].id
  BY <1>1, EndStep DEF Issue
<1>2. CASE installed = req[r].id
  <2> DEFINE q == [req[r] EXCEPT !.pc = "issued", !.expires = now + Life]
  <2>1. /\ Known(q) /\ q.since = req[r].since /\ q.pc = "issued"
        /\ q.expires = now + Life /\ q.since \in Nat
    <3>1. /\ req[r] \in Request /\ req[r].id \in Id
          /\ now + Life \in Nat
      <4>1. req[r] \in Request /\ req[r].id \in Id
        BY DEF Issue, IInv, TypeOK, WithId
      <4> QED BY <4>1, Numbers, BoundsAssumption DEF IInv
    <3> QED BY <3>1 DEF Known, Request, Steps, GitHubSteps
  <2>2. q.since <= now /\ now <= q.since + CallTime
    <3>1. req[r].pc = "issue" /\ InTime(req[r])
      BY DEF Issue, IInv, RequestOK
    <3> QED BY <3>1, <2>1 DEF InTime, Limit, GitHubSteps
  <2>3. InTime(q)
    BY <2>1, <2>2 DEF InTime, Limit, GitHubSteps
  <2>4. Lives(q) /\ Recent(q)
    BY <2>1, <2>2, Numbers, BoundsAssumption DEF Lives, Recent, IInv
  <2>5. req' = [req EXCEPT ![r] = q] /\ UNCHANGED <<now, fixed, github, redis>>
    BY <1>2 DEF Issue
  <2> HIDE DEF q
  <2> QED BY <2>1, <2>3, <2>4, <2>5, QuietStep DEF RequestOK
<1> QED BY <1>1, <1>2

\* Of the token's life the answer may have taken CallTime.
LEMMA IssuedStep ==
    ASSUME IInv, NEW r \in Req, Issued(r)
    PROVE  IInv'
<1> PICK pc \in {"keep", "use"} :
        /\ req' = [req EXCEPT ![r].pc = pc, ![r].since = now]
        /\ pc = "keep" => req[r].expires - now > Leeway
  BY DEF Issued, Begin
<1> DEFINE q == [req[r] EXCEPT !.pc = pc, !.since = now]
<1>1. /\ Known(q) /\ q.since = now /\ q.pc = pc
      /\ q.expires = req[r].expires
      /\ req[r].since \in Nat /\ req[r].expires \in Nat
  BY Numbers DEF Issued, IInv, TypeOK, Known, Request, Steps, WithId,
     RedisSteps
<1>2. /\ now <= req[r].since + CallTime
      /\ req[r].since + Life <= req[r].expires
  BY DEF Issued, IInv, RequestOK, InTime, Lives, Limit, GitHubSteps
<1>3. Lives(q)
  BY <1>1, <1>2, Numbers, BoundsAssumption, LifeAssumption DEF Lives, IInv
<1>4. Recent(q) /\ InTime(q)
  BY <1>1, BeginsInTime DEF Recent, IInv
<1> QED BY <1>1, <1>3, <1>4, QuietStep DEF Issued, RequestOK

\* Of what is left Redis may have taken RedisTime.
LEMMA KeepStep ==
    ASSUME IInv, NEW r \in Req, Keep(r)
    PROVE  IInv'
<1> DEFINE q == [req[r] EXCEPT !.pc = "use", !.since = now]
<1>1. /\ Known(q) /\ q.since = now /\ q.pc = "use"
      /\ q.expires = req[r].expires
      /\ req[r].since \in Nat /\ req[r].expires \in Nat
  BY Numbers DEF Keep, IInv, TypeOK, Known, Request, Steps, WithId
<1>2. /\ now <= req[r].since + RedisTime
      /\ req[r].since + Life <= req[r].expires + CallTime
      /\ req[r].since + Leeway < req[r].expires
  BY DEF Keep, IInv, RequestOK, InTime, Lives, Limit, GitHubSteps
<1>3. RequestOK(q)
  <2>1. Lives(q)
    BY <1>1, <1>2, Numbers, BoundsAssumption, LifeAssumption DEF Lives, IInv
  <2> QED BY <2>1, <1>1, BeginsInTime DEF RequestOK, Recent, IInv
<1>4. tokenKey' \in [Id -> TokenKey]
  <2>1. now + (req[r].expires - req[r].since - Leeway) \in Nat
    BY <1>1, <1>2, Numbers, BoundsAssumption DEF IInv
  <2> QED BY <2>1, <1>1 DEF Keep, IInv, TypeOK, TokenKey
<1>5. KeyOK'
  BY DEF IInv, KeyOK, Keep, github
<1> QED
  BY <1>1, <1>3, <1>4, <1>5, OneRequest DEF Keep, Begin, IInv, TypeOK

-----------------------------------------------------------------------------
(* Next and the theorems *)

LEMMA ProceedStep ==
    ASSUME IInv, NEW r \in Req, Proceed(r) \/ Fail(r)
    PROVE  IInv'
<1>1. CASE NotInList(r) \/ Use(r) \/ Fail(r)
  BY <1>1, EndStep DEF NotInList, Use, Fail
<1> QED
  BY <1>1, StartStep, FixedIdStep, CachedIdStep, UnknownIdStep, ResolveStep,
     TryNextStep, ResolvedStep, KeepIdStep, CachedTokenStep, NotFoundStep,
     IssueStep, IssuedStep, KeepStep DEF Proceed

\* What is not removed now is not removed before any moment so far.
LEMMA UninstallStep ==
    ASSUME IInv, Uninstall
    PROVE  IInv'
<1>1. /\ installed \in Id /\ now \in Nat /\ Forgotten \in Nat
      /\ removed' = [removed EXCEPT ![installed] = now]
      /\ \A i \in Id : removed'[i] = IF i = installed THEN now ELSE removed[i]
  BY Numbers DEF Uninstall, IInv, TypeOK
<1>2. TypeOK'
  BY <1>1 DEF Uninstall, IInv, TypeOK, redis
<1>3. KeyOK'
  <2>1. IdTTL <= Forgotten /\ IdTTL \in Nat
    BY BoundsAssumption DEF Forgotten
  <2>2. idKey.until # NoTime => idKey.id \in Id /\ idKey.until \in Nat
    BY DEF IInv, TypeOK, IdKey
  <2> QED BY <1>1, <2>1, <2>2 DEF Uninstall, IInv, KeyOK, redis
<1>4. \A r \in Req : RequestOK(req[r])'
  <2> SUFFICES ASSUME NEW r \in Req PROVE RequestOK(req[r])'
    OBVIOUS
  <2>1. /\ req' = req /\ now' = now /\ fixed' = fixed
        /\ RequestOK(req[r]) /\ req[r].since \in Nat
        /\ req[r].pc \in WithId => req[r].id \in Id
    BY DEF Uninstall, IInv, TypeOK, Request
  <2>2. InTime(req[r])' /\ Lives(req[r])'
    BY <2>1 DEF RequestOK, InTime, Lives
  <2>3. req[r].pc \in WithId => req[r].since <= now
    BY <2>1 DEF RequestOK, InTime, WithId
  <2>4. Forgotten > 0 /\ CallTime \in Nat
    BY BoundsAssumption, IdTTLAssumption DEF Forgotten
  <2>5. Recent(req[r])'
    <3>1. Recent(req[r])
      BY <2>1 DEF RequestOK
    <3>2. CASE req[r].pc \in WithId /\ req[r].id = installed
      <4>1. removed'[req[r].id] = now /\ req[r].since <= now
        BY <3>2, <1>1, <2>3
      <4>2. req[r].since <= now + CallTime /\ req[r].since < now + Forgotten
        BY <4>1, <1>1, <2>1, <2>4
      <4> QED BY <4>1, <4>2, <2>1 DEF Recent
    <3>3. CASE req[r].pc \in WithId /\ req[r].id # installed
      BY <3>1, <3>3, <1>1, <2>1 DEF Recent
    <3> QED BY <3>2, <3>3, <2>1 DEF Recent
  <2> QED BY <2>2, <2>5 DEF RequestOK
<1> QED BY <1>2, <1>3, <1>4 DEF Uninstall, IInv

LEMMA TickStep ==
    ASSUME IInv, Tick
    PROVE  IInv'
<1>1. now \in Nat /\ now' = now + 1 /\ MaxNow \in Nat
  BY Numbers, BoundsAssumption DEF Tick, IInv
<1>2. TypeOK'
  BY <1>1 DEF Tick, IInv, TypeOK, Time, github, redis
<1>3. KeyOK'
  <2>1. idKey.until # NoTime => idKey.until \in Nat
    BY DEF IInv, TypeOK, IdKey
  <2> QED
    BY <1>1, <2>1, BoundsAssumption DEF Tick, IInv, KeyOK, github, redis
<1>4. \A r \in Req : RequestOK(req[r])'
  <2> SUFFICES ASSUME NEW r \in Req PROVE RequestOK(req[r])'
    OBVIOUS
  <2>1. /\ req' = req /\ fixed' = fixed /\ removed' = removed
        /\ RequestOK(req[r]) /\ req[r].since \in Nat
        /\ Limit(req[r].pc) \in Nat
    BY Numbers DEF Tick, github, IInv, TypeOK, Request
  <2>2. InTime(req[r])'
    BY <1>1, <2>1 DEF Tick, RequestOK, InTime
  <2> QED BY <2>1, <2>2 DEF RequestOK, Lives, Recent
<1> QED BY <1>2, <1>3, <1>4 DEF Tick, IInv, github

LEMMA OutsideStep ==
    ASSUME IInv, Install \/ Flush
    PROVE  IInv'
<1>1. TypeOK'
  BY DEF Install, Flush, IInv, TypeOK, redis, github, NoIdKey, NoTokenKey,
         IdKey, TokenKey
<1>2. KeyOK'
  BY DEF Install, Flush, IInv, KeyOK, NoIdKey, redis, github
<1>3. \A r \in Req : RequestOK(req[r])'
  BY DEF Install, Flush, IInv, RequestOK, InTime, Lives, Recent, github
<1>4. (installed # NoId => removed[installed] = NoTime)'
  BY DEF Install, Flush, IInv, github
<1> QED BY <1>1, <1>2, <1>3, <1>4 DEF IInv

\* IInv holds at first and is preserved by every step.
THEOREM Invariance == Spec => []IInv
<1>1. Init => IInv
  <2> SUFFICES ASSUME Init PROVE IInv
    OBVIOUS
  <2>1. TypeOK
    <3>1. NoIdKey \in IdKey /\ NoTokenKey \in TokenKey /\ Idle \in Request
      BY DEF NoIdKey, NoTokenKey, IdKey, TokenKey, Idle, Request, Steps, Paths
    <3>2. Idle.pc \notin WithId /\ NoIdKey.until = NoTime /\ 0 \in Time
      BY BoundsAssumption DEF Idle, WithId, NoIdKey, Time
    <3> QED BY <3>1, <3>2 DEF Init, TypeOK
  <2>2. KeyOK /\ \A r \in Req : RequestOK(req[r])
    BY DEF Init, KeyOK, NoIdKey, Idle, RequestOK, InTime, Lives, Recent,
           WithId
  <2> QED BY <2>1, <2>2 DEF Init, IInv
<1>2. IInv /\ [Next]_vars => IInv'
  <2> SUFFICES ASSUME IInv, [Next]_vars PROVE IInv'
    OBVIOUS
  <2>1. CASE UNCHANGED vars
    BY <2>1 DEF vars, github, redis, IInv, TypeOK, KeyOK, RequestOK, InTime,
       Lives, Recent
  <2> QED
    BY <2>1, ProceedStep, UninstallStep, TickStep, OutsideStep DEF Next
<1> QED BY <1>1, <1>2, PTL DEF Spec

\* The type invariant of AppTokens: nothing is cached or asked for under an
\* installation that there never was.
THEOREM TypeCorrect == Spec => []TypeOK
<1>1. IInv => TypeOK
  BY DEF IInv
<1> QED BY <1>1, Invariance, PTL

\* No token expires while it is in use, if the leeway covers the use and the
\* life of a token the calls before it.
THEOREM TokensOutliveTheirUse == Spec => []TokenOutlivesUse
<1>1. IInv => TokenOutlivesUse
  <2> SUFFICES ASSUME IInv, NEW r \in Req, req[r].pc = "use"
               PROVE  now < req[r].expires
    BY DEF TokenOutlivesUse
  <2>1. /\ now <= req[r].since + UseTime
        /\ req[r].since + UseTime < req[r].expires
    BY DEF IInv, RequestOK, InTime, Lives, Limit
  <2>2. req[r].since \in Nat /\ req[r].expires \in Nat
    BY DEF IInv, TypeOK, Request
  <2> QED BY <2>1, <2>2, Numbers, BoundsAssumption DEF IInv
<1> QED BY <1>1, Invariance, PTL

\* The id of an installation that was removed is looked up for Forgotten at
\* most.
THEOREM OldIdsAreForgotten == Spec => []OldIdForgotten
<1>1. IInv => OldIdForgotten
  BY DEF IInv, OldIdForgotten, RequestOK, Recent, WithId
<1> QED BY <1>1, Invariance, PTL
=============================================================================
