----------------------- MODULE RepositoryGatewayProofs -----------------------
(***************************************************************************)
(* Theorems about RepositoryGateway, for any requests, any of the routes   *)
(* and any number of attempts.  Of the tables only what RoutesAssumption   *)
(* says is used.                                                           *)
(*                                                                         *)
(* The answer "done" is the link: it stands for a change at GitHub by the  *)
(* time it is sent, whatever earlier attempts did, and it is what every    *)
(* later step relies on.  The answer "moved" is the only other one that    *)
(* gets as far, where the client does not look at it or takes anything.    *)
(***************************************************************************)
EXTENDS RepositoryGateway, TLAPS

-----------------------------------------------------------------------------
(* The inductive invariant: q is what is known of a request, n how often   *)
(* GitHub did what it asks, t says whether its record is committed         *)

\* An attempt does what is asked once at most.
AttemptsOK(q, n) ==
    /\ q.pc \in {"idle", "token"} => n = 0
    /\ q.pc = "send" => n <= q.attempt
    /\ q.pc # "over" => n <= q.attempt + 1

\* A request that is begun asks for one of the operations.
OpOK(q) == q.pc # "idle" => q.op \in Asked

\* What an answer of GitHub says is so.
ReplyOK(q, n) ==
    q.pc \in {"sent", "read"} =>
        /\ q.reply = "done" /\ Mutates(q.op) => n > 0
        /\ q.reply = "empty" => Effect(q.op) = "merge"
        /\ q.reply # "none"
        /\ q.pc = "read" => q.reply # "refused"

\* What follows the answer.
RecordOK(q, n) ==
    /\ q.pc \in {"audit", "commit"} /\ Mutates(q.op) => n > 0 \/ Misread(q)
    /\ q.pc = "commit" => q.recorded = (Service[q.op] # "none")

\* What is committed and what the caller is told.
OutcomeOK(q, n, t) ==
    /\ t => /\ q.pc = "over" /\ Service[q.op] = "modify"
            /\ n > 0 \/ Misread(q)
    /\ q.answer = "success" =>
        /\ q.pc = "over"
        /\ Mutates(q.op) => n > 0 \/ Misread(q)
        /\ Service[q.op] = "modify" => t

RequestOK(q, n, t) ==
    AttemptsOK(q, n) /\ OpOK(q) /\ ReplyOK(q, n) /\ RecordOK(q, n)
    /\ OutcomeOK(q, n, t)

IInv ==
    /\ TypeOK
    /\ \A r \in Req : RequestOK(req[r], done[r], r \in trail)

-----------------------------------------------------------------------------
(* Lemmas *)

\* A step of r preserves IInv if what is known of r after it is right.
LEMMA OneRequest ==
    ASSUME IInv, NEW r \in Req, NEW q \in Request, NEW n \in 0..MaxAttempts,
           RequestOK(q, n, r \in trail'),
           req' = [req EXCEPT ![r] = q], done' = [done EXCEPT ![r] = n],
           present' \subseteq Things,
           trail' \subseteq trail \cup {r}, trail \subseteq trail'
    PROVE  IInv'
<1>1. TypeOK'
  BY DEF IInv, TypeOK
<1>2. \A p \in Req : RequestOK(req'[p], done'[p], p \in trail')
  BY DEF IInv, TypeOK
<1>3. \A p \in Req : RequestOK(req[p], done[p], p \in trail)'
  BY <1>2 DEF RequestOK, AttemptsOK, OpOK, ReplyOK, RecordOK, OutcomeOK,
     Misread
<1> QED BY <1>1, <1>3 DEF IInv

\* The same for a step that GitHub and Postgres do not see.
LEMMA QuietStep ==
    ASSUME IInv, NEW r \in Req, NEW q \in Request,
           RequestOK(q, done[r], r \in trail), req' = [req EXCEPT ![r] = q],
           UNCHANGED <<present, done, trail>>
    PROVE  IInv'
<1>1. done[r] \in 0..MaxAttempts /\ done' = [done EXCEPT ![r] = done[r]]
  BY DEF IInv, TypeOK
<1> QED BY <1>1, OneRequest DEF IInv, TypeOK

\* A request that is not over has no record that is committed.
LEMMA Open ==
    ASSUME IInv, NEW r \in Req, req[r].pc # "over"
    PROVE  r \notin trail /\ req[r].answer # "success"
BY DEF IInv, RequestOK, OutcomeOK

LEMMA IdleIsRequest == Idle \in Request
BY AttemptsAssumption DEF Idle, Request, Steps, Replies

\* A request may end with an error at any step.
LEMMA EndStep ==
    ASSUME IInv, NEW r \in Req, req[r].pc \notin {"idle", "over"},
           End(r, "error"), UNCHANGED <<present, done, trail>>
    PROVE  IInv'
<1> DEFINE q == [Idle EXCEPT !.pc = "over", !.answer = "error",
                             !.op = req[r].op, !.reply = "none"]
<1>1. req[r] \in Request /\ RequestOK(req[r], done[r], r \in trail)
  BY DEF IInv, TypeOK
<1>2. /\ q \in Request /\ q.pc = "over" /\ q.answer = "error"
      /\ q.op = req[r].op
  <2>1. Idle \in Request /\ req[r].op \in Asked \cup {"none"}
    BY <1>1, IdleIsRequest DEF Request
  <2> QED BY <2>1 DEF Request, Steps, Replies
<1>3. req' = [req EXCEPT ![r] = q]
  BY DEF End
<1> HIDE DEF q
<1>4. RequestOK(q, done[r], r \in trail)
  BY <1>1, <1>2, Open DEF RequestOK, AttemptsOK, OpOK, ReplyOK, RecordOK,
     OutcomeOK
<1> QED BY <1>2, <1>3, <1>4, QuietStep

-----------------------------------------------------------------------------
(* The endpoint and the client *)

LEMMA StartStep ==
    ASSUME IInv, NEW r \in Req, Start(r)
    PROVE  IInv'
<1>1. PICK op \in Asked :
          req' = [req EXCEPT ![r] = [Idle EXCEPT !.pc = "token", !.op = op]]
  BY DEF Start
<1> DEFINE q == [Idle EXCEPT !.pc = "token", !.op = op]
<1>2. /\ q \in Request /\ q.pc = "token" /\ q.op = op /\ q.attempt = 0
      /\ q.answer = "none"
  <2>1. Idle \in Request /\ Idle.attempt = 0 /\ Idle.answer = "none"
    BY AttemptsAssumption DEF Idle, Request, Steps, Replies
  <2> QED BY <2>1 DEF Request, Steps
<1>3. done[r] = 0 /\ r \notin trail
  BY Open DEF Start, IInv, RequestOK, AttemptsOK
<1> HIDE DEF q
<1>4. RequestOK(q, done[r], r \in trail)
  BY <1>2, <1>3 DEF RequestOK, AttemptsOK, OpOK, ReplyOK, RecordOK, OutcomeOK
<1>5. req' = [req EXCEPT ![r] = q]
  BY <1>1 DEF q
<1> QED BY <1>2, <1>4, <1>5, QuietStep DEF Start

LEMMA TokenStep ==
    ASSUME IInv, NEW r \in Req, Token(r)
    PROVE  IInv'
<1> DEFINE q == [req[r] EXCEPT !.pc = "send"]
<1>1. req[r] \in Request /\ RequestOK(req[r], done[r], r \in trail)
  BY DEF IInv, TypeOK
<1>2. /\ q \in Request /\ q.pc = "send" /\ q.op = req[r].op
      /\ q.attempt = req[r].attempt /\ q.answer = req[r].answer
      /\ q.attempt \in Nat
  BY <1>1, AttemptsAssumption DEF Request, Steps
<1>3. req' = [req EXCEPT ![r] = q] /\ req[r].pc = "token"
  BY DEF Token, Goto
<1> HIDE DEF q
<1>4. RequestOK(q, done[r], r \in trail)
  BY <1>1, <1>2, <1>3, Open
     DEF RequestOK, AttemptsOK, OpOK, ReplyOK, RecordOK, OutcomeOK
<1> QED BY <1>2, <1>3, <1>4, QuietStep DEF Token

\* Whatever GitHub answers, its answer is so: either nothing was asked that
\* changes anything, or the attempt has done it.
LEMMA GitHubStep ==
    ASSUME IInv, NEW r \in Req, GitHub(r)
    PROVE  IInv'
<1>1. PICK reply \in Replies \ {"none"} : Reply(r, reply)
  BY DEF GitHub, Refuse, Redirect, Read, AppendOrSet, CreateOrMerge,
         AlreadyMerged, Remove, Query, Replies
<1> DEFINE q == [req[r] EXCEPT !.pc = "sent", !.reply = reply]
<1>2. /\ req[r] \in Request /\ RequestOK(req[r], done[r], r \in trail)
      /\ done[r] \in Nat /\ req[r].pc = "send" /\ trail' = trail
      /\ req[r].op \in Asked
  BY AttemptsAssumption
     DEF IInv, TypeOK, RequestOK, OpOK, GitHub, Refuse, Redirect, Read,
         AppendOrSet, CreateOrMerge, AlreadyMerged, Remove, Query
<1>3. /\ q \in Request /\ q.pc = "sent" /\ q.op = req[r].op
      /\ q.attempt = req[r].attempt /\ q.answer = req[r].answer
      /\ q.reply = reply /\ q.attempt \in Nat
  <2>1. /\ req[r].attempt \in 0..MaxAttempts - 1 /\ req[r].attempt \in Nat
        /\ "sent" \in Steps /\ reply \in Replies
    BY <1>2, AttemptsAssumption DEF Request, Steps
  <2> QED BY <2>1, <1>2 DEF Request
<1>4. req' = [req EXCEPT ![r] = q]
  BY <1>1 DEF Reply
<1>5. \E n \in {done[r], done[r] + 1} :
          /\ done' = [done EXCEPT ![r] = n]
          /\ reply = "done" /\ Mutates(req[r].op) => n = done[r] + 1
          /\ reply = "empty" => Effect(req[r].op) = "merge"
  <2>1. done = [done EXCEPT ![r] = done[r]]
    BY DEF IInv, TypeOK
  <2>2. reply = req'[r].reply
    BY <1>3, <1>4 DEF IInv, TypeOK
  <2>3. CASE Refuse(r)
    BY <2>1, <2>2, <2>3, <1>1 DEF Refuse, Reply, IInv, TypeOK
  <2>4. CASE Read(r)
    BY <2>1, <2>2, <2>4, <1>1 DEF Read, Reply, Mutates, IInv, TypeOK
  <2>5. CASE AppendOrSet(r) \/ CreateOrMerge(r) \/ Remove(r)
    <3>1. done' = [done EXCEPT ![r] = done[r] + 1]
      BY <2>5 DEF AppendOrSet, CreateOrMerge, Remove, Did
    <3>2. Reply(r, "done")
      BY <2>5 DEF AppendOrSet, CreateOrMerge, Remove
    <3>3. reply = "done"
      BY <3>2, <2>2 DEF Reply, IInv, TypeOK
    <3> QED BY <3>1, <3>3
  <2>6. CASE AlreadyMerged(r)
    BY <2>1, <2>2, <2>6, <1>1 DEF AlreadyMerged, Reply, IInv, TypeOK
  <2>7. CASE Query(r)
    <3>1. ~Mutates(req[r].op) /\ reply # "empty"
      BY <2>2, <2>7 DEF Query, Mutates, Reply, IInv, TypeOK
    <3> QED BY <3>1, <2>1, <2>7 DEF Query, Did
  <2>8. CASE Redirect(r)
    BY <2>1, <2>2, <2>8, <1>1 DEF Redirect, Reply, IInv, TypeOK
  <2> QED BY <2>3, <2>4, <2>5, <2>6, <2>7, <2>8 DEF GitHub
<1>6. PICK n \in {done[r], done[r] + 1} :
          /\ done' = [done EXCEPT ![r] = n]
          /\ reply = "done" /\ Mutates(req[r].op) => n = done[r] + 1
          /\ reply = "empty" => Effect(req[r].op) = "merge"
  BY <1>5
<1> HIDE DEF q
<1>7. n \in Nat /\ (n = done[r] + 1 => n > 0) /\ n <= q.attempt + 1
  BY <1>2, <1>3 DEF RequestOK, AttemptsOK
<1>8. RequestOK(q, n, r \in trail') /\ n \in 0..MaxAttempts
  <2>1. RequestOK(q, n, r \in trail')
    BY <1>1, <1>2, <1>3, <1>6, <1>7, Open
       DEF RequestOK, AttemptsOK, OpOK, ReplyOK, RecordOK, OutcomeOK
  <2>2. q.attempt \in 0..MaxAttempts - 1
    BY <1>3 DEF Request
  <2> QED BY <1>7, <2>1, <2>2, AttemptsAssumption
<1>9. present' \subseteq Things
  BY <1>2 DEF IInv, TypeOK, GitHub, Refuse, Redirect, Read, AppendOrSet,
     CreateOrMerge, AlreadyMerged, Remove, Query, Things
<1> QED BY <1>2, <1>3, <1>4, <1>6, <1>7, <1>8, <1>9, OneRequest

LEMMA LoseStep ==
    ASSUME IInv, NEW r \in Req, Lose(r)
    PROVE  IInv'
<1> DEFINE q == [req[r] EXCEPT !.pc = "again", !.reply = "none"]
<1>1. req[r] \in Request /\ RequestOK(req[r], done[r], r \in trail)
  BY DEF IInv, TypeOK
<1>2. /\ q \in Request /\ q.pc = "again" /\ q.op = req[r].op
      /\ q.attempt = req[r].attempt /\ q.answer = req[r].answer
  BY <1>1 DEF Request, Steps, Replies
<1>3. req' = [req EXCEPT ![r] = q] /\ req[r].pc \in {"send", "sent"}
  BY DEF Lose
<1> HIDE DEF q
<1>4. RequestOK(q, done[r], r \in trail)
  BY <1>1, <1>2, <1>3, Open
     DEF RequestOK, AttemptsOK, OpOK, ReplyOK, RecordOK, OutcomeOK
<1> QED BY <1>2, <1>3, <1>4, QuietStep DEF Lose

LEMMA AgainStep ==
    ASSUME IInv, NEW r \in Req, Again(r)
    PROVE  IInv'
<1> DEFINE q == [req[r] EXCEPT !.pc = "send", !.attempt = req[r].attempt + 1]
<1>1. req[r] \in Request /\ RequestOK(req[r], done[r], r \in trail)
  BY DEF IInv, TypeOK
<1>2. /\ req[r].attempt \in Nat
      /\ req[r].attempt + 1 \in 0..MaxAttempts - 1
  BY <1>1, AttemptsAssumption DEF Again, Request
<1>3. /\ q \in Request /\ q.pc = "send" /\ q.op = req[r].op
      /\ q.attempt = req[r].attempt + 1 /\ q.answer = req[r].answer
  BY <1>1, <1>2 DEF Request, Steps
<1>4. req' = [req EXCEPT ![r] = q] /\ req[r].pc = "again"
  BY DEF Again
<1>5. done[r] \in Nat
  BY AttemptsAssumption DEF IInv, TypeOK
<1> HIDE DEF q
<1>6. RequestOK(q, done[r], r \in trail)
  BY <1>1, <1>2, <1>3, <1>4, <1>5, Open
     DEF RequestOK, AttemptsOK, OpOK, ReplyOK, RecordOK, OutcomeOK
<1> QED BY <1>3, <1>4, <1>6, QuietStep DEF Again

LEMMA AnsweredStep ==
    ASSUME IInv, NEW r \in Req, Answered(r)
    PROVE  IInv'
<1>1. CASE req[r].reply = "refused"
  BY <1>1, EndStep DEF Answered
<1>2. CASE req[r].reply # "refused"
  <2> DEFINE q == [req[r] EXCEPT !.pc = "read"]
  <2>1. req[r] \in Request /\ RequestOK(req[r], done[r], r \in trail)
    BY DEF IInv, TypeOK
  <2>2. /\ q \in Request /\ q.pc = "read" /\ q.op = req[r].op
        /\ q.attempt = req[r].attempt /\ q.answer = req[r].answer
        /\ q.reply = req[r].reply
    BY <2>1 DEF Request, Steps
  <2>3. req' = [req EXCEPT ![r] = q] /\ req[r].pc = "sent"
    BY <1>2 DEF Answered, Goto
  <2> HIDE DEF q
  <2>4. RequestOK(q, done[r], r \in trail)
    BY <1>2, <2>1, <2>2, <2>3, Open
       DEF RequestOK, AttemptsOK, OpOK, ReplyOK, RecordOK, OutcomeOK
  <2> QED BY <2>2, <2>3, <2>4, QuietStep DEF Answered
<1> QED BY <1>1, <1>2

-----------------------------------------------------------------------------
(* RepositoryService and the commit *)

\* An answer that can be read is not the empty one of a merge; if it is not the
\* one that says done, it is a redirect that is misread.
LEMMA ParseStep ==
    ASSUME IInv, NEW r \in Req, Parse(r)
    PROVE  IInv'
<1>1. CASE Unreadable(r) /\ End(r, "error")
  BY <1>1, EndStep DEF Parse
<1>2. CASE Readable(r) /\ Goto(r, "audit")
  <2> DEFINE q == [req[r] EXCEPT !.pc = "audit"]
  <2>1. req[r] \in Request /\ RequestOK(req[r], done[r], r \in trail)
    BY DEF IInv, TypeOK
  <2>2. /\ q \in Request /\ q.pc = "audit" /\ q.op = req[r].op
        /\ q.attempt = req[r].attempt /\ q.answer = req[r].answer
        /\ q.reply = req[r].reply
    BY <2>1 DEF Request, Steps
  <2>3. req' = [req EXCEPT ![r] = q] /\ req[r].pc = "read"
    BY <1>2 DEF Parse, Goto
  <2> HIDE DEF q
  <2>4. req[r].op \in Op
    BY <2>1, <2>3, AskedAssumption DEF RequestOK, OpOK
  <2>5. req[r].reply = "done" \/ Misread(q)
    <3>1. req[r].reply \in {"done", "empty", "moved"}
      BY <2>1, <2>3 DEF RequestOK, ReplyOK, Request, Replies
    <3>2. req[r].reply = "empty" => Effect(req[r].op) = "merge"
      BY <2>1, <2>3 DEF RequestOK, ReplyOK
    <3> QED BY <3>1, <3>2, <2>2, <2>4, <1>2, RoutesAssumption
       DEF Readable, Reading, Misread
  <2>6. RequestOK(q, done[r], r \in trail)
    BY <2>1, <2>2, <2>3, <2>5, Open
       DEF RequestOK, AttemptsOK, OpOK, ReplyOK, RecordOK, OutcomeOK
  <2> QED BY <2>2, <2>3, <2>6, QuietStep DEF Parse
<1> QED BY <1>1, <1>2 DEF Parse

LEMMA AuditStep ==
    ASSUME IInv, NEW r \in Req, Audit(r)
    PROVE  IInv'
<1> DEFINE q == [req[r] EXCEPT !.pc = "commit",
                               !.recorded = Service[req[r].op] # "none"]
<1>1. req[r] \in Request /\ RequestOK(req[r], done[r], r \in trail)
  BY DEF IInv, TypeOK
<1>2. /\ q \in Request /\ q.pc = "commit" /\ q.op = req[r].op
      /\ q.attempt = req[r].attempt /\ q.answer = req[r].answer
      /\ q.recorded = (Service[req[r].op] # "none")
      /\ q.reply = req[r].reply
  BY <1>1 DEF Request, Steps
<1>3. req' = [req EXCEPT ![r] = q] /\ req[r].pc = "audit"
  BY DEF Audit
<1> HIDE DEF q
<1>4. RequestOK(q, done[r], r \in trail)
  BY <1>1, <1>2, <1>3, Open
     DEF RequestOK, AttemptsOK, OpOK, ReplyOK, RecordOK, OutcomeOK, Misread
<1> QED BY <1>2, <1>3, <1>4, QuietStep DEF Audit

\* What is recorded in a request that commits is a modification.
LEMMA CommitStep ==
    ASSUME IInv, NEW r \in Req, Commit(r)
    PROVE  IInv'
<1> DEFINE q == [Idle EXCEPT !.pc = "over", !.answer = "success",
                             !.op = req[r].op, !.reply = req[r].reply]
<1>1. req[r] \in Request /\ RequestOK(req[r], done[r], r \in trail)
  BY DEF IInv, TypeOK
<1>2. /\ q \in Request /\ q.pc = "over" /\ q.op = req[r].op
      /\ q.reply = req[r].reply /\ q.answer = "success"
  <2>1. /\ Idle \in Request /\ req[r].op \in Asked \cup {"none"}
        /\ req[r].reply \in Replies
    BY <1>1, IdleIsRequest DEF Request
  <2> QED BY <2>1 DEF Request, Steps
<1>3. req' = [req EXCEPT ![r] = q] /\ req[r].pc = "commit"
  BY DEF Commit, End
<1> HIDE DEF q
<1>4. req[r].op \in Op /\ req[r].op \in Asked
  BY <1>1, <1>3, AskedAssumption DEF RequestOK, OpOK
<1>5. /\ Mutates(req[r].op) => done[r] > 0 \/ Misread(q)
      /\ req[r].recorded = (Service[req[r].op] # "none")
  BY <1>1, <1>2, <1>3 DEF RequestOK, RecordOK, Misread
<1>6. r \notin trail
  BY <1>3, Open
<1>7. r \in trail' <=> Service[req[r].op] = "modify"
  BY <1>4, <1>5, <1>6, RoutesAssumption DEF Commit
<1>8. RequestOK(q, done[r], r \in trail')
  <2>1. AttemptsOK(q, done[r]) /\ OpOK(q)
    BY <1>1, <1>2, <1>4 DEF RequestOK, AttemptsOK, OpOK
  <2>2. ReplyOK(q, done[r]) /\ RecordOK(q, done[r])
    BY <1>2 DEF ReplyOK, RecordOK
  <2>3. OutcomeOK(q, done[r], r \in trail')
    BY <1>2, <1>4, <1>5, <1>7, RoutesAssumption DEF OutcomeOK
  <2> QED BY <2>1, <2>2, <2>3 DEF RequestOK
<1>9. done[r] \in 0..MaxAttempts /\ done' = [done EXCEPT ![r] = done[r]]
  BY DEF Commit, IInv, TypeOK
<1> QED BY <1>2, <1>3, <1>8, <1>9, OneRequest DEF Commit, IInv, TypeOK

LEMMA NextKeeps == IInv /\ [Next]_vars => IInv'
<1> SUFFICES ASSUME IInv, [Next]_vars PROVE IInv'
  OBVIOUS
<1>1. CASE UNCHANGED vars
  BY <1>1 DEF vars, IInv, TypeOK, RequestOK, AttemptsOK, OpOK, ReplyOK,
     RecordOK, OutcomeOK, Misread
<1>2. ASSUME NEW thing \in Things, Diverge(thing) PROVE IInv'
  BY <1>2 DEF Diverge, IInv, TypeOK, RequestOK, AttemptsOK, OpOK, ReplyOK,
     RecordOK, OutcomeOK, Misread
<1>3. ASSUME NEW r \in Req, NoToken(r) \/ GiveUp(r) \/ Fail(r) PROVE IInv'
  BY <1>3, EndStep DEF NoToken, GiveUp, Fail
<1>4. ASSUME NEW r \in Req, Start(r) \/ Proceed(r) \/ Fail(r) PROVE IInv'
  BY <1>3, <1>4, StartStep, TokenStep, GitHubStep, LoseStep, AgainStep,
     AnsweredStep, ParseStep, AuditStep, CommitStep DEF Proceed
<1> QED BY <1>1, <1>2, <1>4 DEF Next

-----------------------------------------------------------------------------
(* The theorems *)

\* IInv holds at first and is preserved by every step.
THEOREM Invariance == Spec => []IInv
<1>1. Init => IInv
  <2> SUFFICES ASSUME Init PROVE IInv
    OBVIOUS
  <2>1. Idle \in Request /\ 0 \in 0..MaxAttempts
    BY AttemptsAssumption DEF Idle, Request, Steps, Replies
  <2>2. RequestOK(Idle, 0, FALSE)
    BY DEF Idle, RequestOK, AttemptsOK, OpOK, ReplyOK, RecordOK, OutcomeOK
  <2>3. /\ done = [r \in Req |-> 0] /\ req = [r \in Req |-> Idle]
        /\ trail = {} /\ present \subseteq Things
    BY DEF Init
  <2>4. TypeOK
    BY <2>1, <2>3 DEF TypeOK
  <2>5. ASSUME NEW r \in Req PROVE RequestOK(req[r], done[r], r \in trail)
    <3>1. req[r] = Idle /\ done[r] = 0 /\ (r \in trail) = FALSE
      BY <2>3
    <3> QED BY <2>2, <3>1
  <2> QED BY <2>4, <2>5 DEF IInv
<1> QED BY <1>1, NextKeeps, PTL DEF Spec

\* The type invariant of RepositoryGateway: GitHub does what a request asks as
\* often as there are attempts at most.
THEOREM TypeCorrect == Spec => []TypeOK
<1>1. IInv => TypeOK
  BY DEF IInv
<1> QED BY <1>1, Invariance, PTL

\* An audit record that is committed stands for a change that its own request
\* made at GitHub, or for a redirect that nobody looked at.
THEOREM TrailIsFaithful == Spec => []TrailFaithful
<1>1. IInv => TrailFaithful
  <2> SUFFICES ASSUME IInv, NEW r \in trail
               PROVE  /\ Service[req[r].op] = "modify"
                      /\ \/ done[r] > 0
                         \/ req[r].reply = "moved" /\ Reading(r) = "ignored"
    BY DEF TrailFaithful
  <2>1. /\ Service[req[r].op] = "modify"
        /\ done[r] > 0 \/ Misread(req[r])
        /\ req[r].op \in Op
    BY AskedAssumption DEF IInv, TypeOK, RequestOK, OutcomeOK, OpOK
  <2> QED BY <2>1, RoutesAssumption DEF Misread, Reading
<1> QED BY <1>1, Invariance, PTL

\* Who is told of success has had it, or a redirect was taken for it; and it is
\* on record if the service records it.
THEOREM SuccessIsNoLie == Spec => []SuccessIsTrue
<1>1. IInv => SuccessIsTrue
  BY DEF IInv, SuccessIsTrue, RequestOK, OutcomeOK
<1> QED BY <1>1, Invariance, PTL

-----------------------------------------------------------------------------
(* The end of a request: how many steps it can still take                  *)

\* Three for every attempt that is left, and those from the answer to the
\* commit.
Remaining(q) ==
    IF q.pc = "token" THEN 3 * MaxAttempts + 4
    ELSE IF q.pc = "send" THEN 3 * (MaxAttempts - q.attempt) + 3
    ELSE IF q.pc = "sent" THEN 3 * (MaxAttempts - q.attempt) + 2
    ELSE IF q.pc = "again" THEN 3 * (MaxAttempts - q.attempt) + 1
    ELSE IF q.pc = "read" THEN 3
    ELSE IF q.pc = "audit" THEN 2
    ELSE IF q.pc = "commit" THEN 1 ELSE 0

LEMMA RemainingOK ==
    ASSUME NEW q \in Request
    PROVE  Remaining(q) \in 0..3 * MaxAttempts + 4
BY AttemptsAssumption DEF Remaining, Request

\* Every step of a request takes one at least of what is left.
LEMMA ProceedEnds ==
    ASSUME IInv, NEW r \in Req, Proceed(r)
    PROVE  /\ Remaining(req'[r]) < Remaining(req[r])
           /\ \A s \in Req : s # r => req'[s] = req[s]
<1>1. /\ req \in [Req -> Request] /\ req[r] \in Request
      /\ MaxAttempts \in Nat /\ MaxAttempts >= 1
      /\ req[r].attempt \in 0..MaxAttempts - 1
  BY AttemptsAssumption DEF IInv, TypeOK, Request
<1>2. ASSUME req[r].pc \in {"token", "sent", "again", "read", "commit"},
             \E answer \in {"success", "error"} : End(r, answer)
      PROVE  /\ Remaining(req'[r]) < Remaining(req[r])
             /\ \A s \in Req : s # r => req'[s] = req[s]
  <2>1. /\ req'[r].pc = "over" /\ \A s \in Req : s # r => req'[s] = req[s]
    BY <1>1, <1>2 DEF End, Idle
  <2> QED BY <1>1, <1>2, <2>1 DEF Remaining
<1>3. ASSUME NEW to \in Steps,
             \/ req[r].pc = "token" /\ to = "send"
             \/ req[r].pc = "sent" /\ to = "read"
             \/ req[r].pc = "read" /\ to = "audit",
             Goto(r, to)
      PROVE  /\ Remaining(req'[r]) < Remaining(req[r])
             /\ \A s \in Req : s # r => req'[s] = req[s]
  <2>1. /\ req'[r].pc = to /\ req'[r].attempt = req[r].attempt
        /\ \A s \in Req : s # r => req'[s] = req[s]
    BY <1>1, <1>3 DEF Goto, Request
  <2> QED BY <1>1, <1>3, <2>1 DEF Remaining
<1>4. CASE GitHub(r) \/ Lose(r) \/ Again(r) \/ Audit(r)
  <2>1. /\ \/ /\ req[r].pc = "send" /\ req'[r].pc = "sent"
              /\ req'[r].attempt = req[r].attempt
           \/ /\ req[r].pc \in {"send", "sent"} /\ req'[r].pc = "again"
              /\ req'[r].attempt = req[r].attempt
           \/ /\ req[r].pc = "again" /\ req'[r].pc = "send"
              /\ req'[r].attempt = req[r].attempt + 1
           \/ req[r].pc = "audit" /\ req'[r].pc = "commit"
        /\ \A s \in Req : s # r => req'[s] = req[s]
    <3>1. CASE GitHub(r)
      <4>1. req[r].pc = "send" /\ \E reply \in Replies : Reply(r, reply)
        BY <3>1 DEF GitHub, Refuse, Redirect, Read, AppendOrSet,
          CreateOrMerge, AlreadyMerged, Remove, Query, Replies
      <4> QED BY <1>1, <4>1 DEF Reply, Request
    <3>2. CASE Lose(r) \/ Again(r) \/ Audit(r)
      BY <1>1, <3>2 DEF Lose, Again, Audit, Request
    <3> QED BY <1>4, <3>1, <3>2
  <2> QED BY <1>1, <2>1 DEF Remaining
<1>5. CASE Token(r) \/ NoToken(r)
  BY <1>2, <1>3, <1>5 DEF Token, NoToken, Steps
<1>6. CASE GiveUp(r) \/ Answered(r)
  BY <1>2, <1>3, <1>6 DEF GiveUp, Answered, Steps
<1>7. CASE Parse(r) \/ Commit(r)
  BY <1>2, <1>3, <1>7 DEF Parse, Commit, Steps
<1> QED BY <1>4, <1>5, <1>6, <1>7 DEF Proceed

\* No step of others, of GitHub or of a failure adds to it.
LEMMA NextEnds ==
    ASSUME IInv, [Next]_vars, NEW r \in Req, req[r].pc # "idle"
    PROVE  Remaining(req'[r]) <= Remaining(req[r])
<1>1. /\ req \in [Req -> Request] /\ req[r] \in Request
      /\ Remaining(req[r]) \in Nat
  BY RemainingOK, AttemptsAssumption DEF IInv, TypeOK
<1>2. CASE req'[r] = req[r]
  BY <1>1, <1>2
<1>3. CASE Proceed(r)
  <2>1. req'[r] \in Request
    BY NextKeeps DEF IInv, TypeOK
  <2>2. Remaining(req'[r]) \in Nat
    BY <2>1, RemainingOK, AttemptsAssumption
  <2> QED BY <1>1, <1>3, <2>2, ProceedEnds
<1>4. CASE Fail(r)
  <2>1. req'[r].pc = "over"
    BY <1>1, <1>4 DEF Fail, End, Idle
  <2> QED BY <1>1, <2>1 DEF Remaining
<1>5. ASSUME NEW s \in Req, s # r, Start(s) \/ Proceed(s) \/ Fail(s)
      PROVE  req'[r] = req[r]
  BY <1>1, <1>5, ProceedEnds DEF Start, Fail, End
<1> QED
  BY <1>2, <1>3, <1>4, <1>5 DEF Next, Diverge, Start, vars

\* A request to the gateway takes no more than 3 * MaxAttempts + 4 steps: each
\* of them takes one of what is left, and whatever GitHub answers or loses,
\* other requests do or fails gives none back.
THEOREM RequestsAreBounded ==
    Spec => /\ [](\A r \in Req : Remaining(req[r]) \in 0..3 * MaxAttempts + 4)
            /\ [][\A r \in Req :
                    /\ Proceed(r) => Remaining(req'[r]) < Remaining(req[r])
                    /\ req[r].pc # "idle" =>
                          Remaining(req'[r]) <= Remaining(req[r])]_vars
<1>1. IInv => \A r \in Req : Remaining(req[r]) \in 0..3 * MaxAttempts + 4
  BY RemainingOK DEF IInv, TypeOK
<1>2. IInv /\ [Next]_vars =>
        [\A r \in Req :
            /\ Proceed(r) => Remaining(req'[r]) < Remaining(req[r])
            /\ req[r].pc # "idle" =>
                  Remaining(req'[r]) <= Remaining(req[r])]_vars
  BY NextEnds, ProceedEnds
<1> QED BY <1>1, <1>2, Invariance, PTL DEF Spec
=============================================================================
