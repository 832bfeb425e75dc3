-------------------------- MODULE RepositoryGateway --------------------------
(***************************************************************************)
(* One request to the repository gateway after another step: the token,    *)
(* the attempts of GitHubAPIClient.request, the answer, the audit record   *)
(* of RepositoryService and the commit of the endpoint.                    *)
(*                                                                         *)
(* The change is made at GitHub and the record of it in Postgres, and the  *)
(* answer of GitHub may be lost between: the client sends a POST again as  *)
(* it does a GET.  Requests in flight together meet at GitHub only.        *)
(***************************************************************************)
EXTENDS Integers, FiniteSets, GatewayRoutes

CONSTANTS
    Req,                \* the requests of a behaviour
    Asked,              \* operations they may be for
    MaxAttempts         \* GH_RETRY_MAX_ATTEMPTS

VARIABLES
    present,            \* GitHub: the things that are there, of those that
                        \* are made, merged or removed
    done,               \* done[r]: how often GitHub has done what r asks
    trail,              \* the audit records that are committed
    req                 \* req[r]: the request's step and local variables

vars == <<present, done, trail, req>>

ASSUME AskedAssumption == Asked \subseteq Op
ASSUME AttemptsAssumption == MaxAttempts \in Nat \ {0}

Steps == {"idle", "token", "send", "sent", "again", "read", "audit",
    "commit", "over"}

\* An answer that GitHub gives: what was asked for, a success without a body,
\* a redirect to where a renamed or transferred repository is now, or a status
\* of 400 and above that is final (in GraphQL: "errors").
Replies == {"none", "done", "empty", "moved", "refused"}

\* recorded: the audit record is in the request's transaction.
Request == [pc: Steps, op: Asked \cup {"none"}, attempt: 0..MaxAttempts - 1,
    reply: Replies, recorded: BOOLEAN, answer: {"none", "success", "error"}]

Idle == [pc |-> "idle", op |-> "none", attempt |-> 0, reply |-> "none",
    recorded |-> FALSE, answer |-> "none"]

Things == {Thing(op) :
    op \in {op \in Asked : Effect(op) \in {"create", "merge", "remove"}}}

Goto(r, step) == req' = [req EXCEPT ![r].pc = step]

\* The request is over and its local variables are gone; its transaction is
\* rolled back if it is still open.  What a success rests on is kept for the
\* properties.
End(r, answer) ==
    req' = [req EXCEPT ![r] =
        [Idle EXCEPT !.pc = "over", !.answer = answer, !.op = req[r].op,
            !.reply = IF answer = "success" THEN req[r].reply ELSE "none"]]

Init ==
    /\ present \in {{}, Things}
    /\ done = [r \in Req |-> 0]
    /\ trail = {}
    /\ req = [r \in Req |-> Idle]

-----------------------------------------------------------------------------
(* The endpoint and the token *)

Start(r) ==
    /\ req[r].pc = "idle"
    /\ \E op \in Asked :
        req' = [req EXCEPT ![r] = [Idle EXCEPT !.pc = "token", !.op = op]]
    /\ UNCHANGED <<present, done, trail>>

\* _token_for, _repo_token_for: the user's token or the installation's.
Token(r) ==
    /\ req[r].pc = "token"
    /\ Goto(r, "send")
    /\ UNCHANGED <<present, done, trail>>

NoToken(r) ==
    /\ req[r].pc = "token"
    /\ End(r, "error")
    /\ UNCHANGED <<present, done, trail>>

-----------------------------------------------------------------------------
(* External: GitHub answers an attempt *)

Reply(r, reply) ==
    req' = [req EXCEPT ![r].pc = "sent", ![r].reply = reply]

Did(r) == done' = [done EXCEPT ![r] = @ + 1]

\* No permission, a field that is not valid, a thing that is not there.
Refuse(r) ==
    /\ req[r].pc = "send"
    /\ Reply(r, "refused")
    /\ UNCHANGED <<present, done, trail>>

\* 301, 307, 308: nothing is done until the client asks there.  GitHub keeps it
\* open which requests it answers so.
Redirect(r) ==
    /\ req[r].pc = "send"
    /\ Reply(r, "moved")
    /\ UNCHANGED <<present, done, trail>>

Read(r) ==
    /\ req[r].pc = "send" /\ Effect(req[r].op) = "read"
    /\ Reply(r, "done")
    /\ UNCHANGED <<present, done, trail>>

AppendOrSet(r) ==
    /\ req[r].pc = "send" /\ Effect(req[r].op) \in {"append", "set"}
    /\ Did(r)
    /\ Reply(r, "done")
    /\ UNCHANGED <<present, trail>>

CreateOrMerge(r) ==
    /\ req[r].pc = "send" /\ Effect(req[r].op) \in {"create", "merge"}
    /\ Thing(req[r].op) \notin present
    /\ present' = present \cup {Thing(req[r].op)}
    /\ Did(r)
    /\ Reply(r, "done")
    /\ UNCHANGED trail

AlreadyMerged(r) ==
    /\ req[r].pc = "send" /\ Effect(req[r].op) = "merge"
    /\ Thing(req[r].op) \in present
    /\ Reply(r, "empty")
    /\ UNCHANGED <<present, done, trail>>

Remove(r) ==
    /\ req[r].pc = "send" /\ Effect(req[r].op) = "remove"
    /\ Thing(req[r].op) \in present
    /\ present' = present \ {Thing(req[r].op)}
    /\ Did(r)
    /\ Reply(r, "done")
    /\ UNCHANGED trail

\* A mutation in a query counts as done even where the answer has "errors".
Query(r) ==
    /\ req[r].pc = "send" /\ Effect(req[r].op) = "query"
    /\ Did(r) \/ UNCHANGED done
    /\ \E reply \in {"done", "refused"} : Reply(r, reply)
    /\ UNCHANGED <<present, trail>>

\* The next commit brings something to merge again.
Diverge(thing) ==
    /\ Effect(thing) = "merge" /\ thing \in present
    /\ present' = present \ {thing}
    /\ UNCHANGED <<done, trail, req>>

GitHub(r) ==
    \/ Refuse(r) \/ Redirect(r) \/ Read(r) \/ AppendOrSet(r)
    \/ CreateOrMerge(r) \/ AlreadyMerged(r) \/ Remove(r) \/ Query(r)

-----------------------------------------------------------------------------
(* GitHubAPIClient.request *)

\* A transport error or a status that is retried, before or after GitHub did
\* what it was asked.
Lose(r) ==
    /\ req[r].pc \in {"send", "sent"}
    /\ req' = [req EXCEPT ![r].pc = "again", ![r].reply = "none"]
    /\ UNCHANGED <<present, done, trail>>

\* One attempt more than the code allows.
AgainOnceMore(r) ==
    /\ req[r].pc = "again"
    /\ req[r].attempt < MaxAttempts
    /\ req' = [req EXCEPT ![r].pc = "send", ![r].attempt = @ + 1]
    /\ UNCHANGED <<present, done, trail>>

\* Whatever the method: once more, after a while.
Again(r) ==
    /\ req[r].pc = "again"
    /\ req[r].attempt + 1 < MaxAttempts
    /\ req' = [req EXCEPT ![r].pc = "send", ![r].attempt = @ + 1]
    /\ UNCHANGED <<present, done, trail>>

\* The last attempt is counted as if the first were not.
GiveUpLate(r) ==
    /\ req[r].pc = "again"
    /\ req[r].attempt = MaxAttempts
    /\ End(r, "error")
    /\ UNCHANGED <<present, done, trail>>

GiveUp(r) ==
    /\ req[r].pc = "again"
    /\ req[r].attempt + 1 = MaxAttempts
    /\ End(r, "error")
    /\ UNCHANGED <<present, done, trail>>

\* A refusal after a lost answer is taken for success: it is there, after all.
AnsweredLenient(r) ==
    /\ req[r].pc = "sent"
    /\ IF req[r].reply = "refused" /\ req[r].attempt = 0 THEN End(r, "error")
                                                       ELSE Goto(r, "read")
    /\ UNCHANGED <<present, done, trail>>

\* A final status of 400 and above is an error of the gateway's caller, whatever
\* an attempt whose answer was lost has done.  Anything below is a success, and
\* so is a redirect, which the httpx client is not told to follow.
Answered(r) ==
    /\ req[r].pc = "sent"
    /\ IF req[r].reply = "refused" THEN End(r, "error") ELSE Goto(r, "read")
    /\ UNCHANGED <<present, done, trail>>

-----------------------------------------------------------------------------
(* The typed helper, RepositoryService and the endpoint *)

\* The answer is read as the model that is expected: anything else raises an
\* error that neither the service nor the client knows.
Reading(r) == Client[req[r].op].reading

Readable(r) == Reading(r) \in {"ignored", "any"} \/ req[r].reply = "done"

Unreadable(r) ==
    \/ Reading(r) = "other model"
    \/ Reading(r) = "model" /\ req[r].reply # "done"

\* A redirect that was taken for success: q is the request.
Misread(q) ==
    q.reply = "moved" /\ Client[q.op].reading \in {"ignored", "any"}

\* An audit record that is committed at once, before the answer is read.
ParseAudited(r) ==
    /\ req[r].pc = "read"
    /\ \/ Readable(r) /\ Goto(r, "audit")
       \/ Unreadable(r) /\ End(r, "error")
    /\ trail' = trail \cup
          (IF Service[req[r].op] # "none" THEN {r} ELSE {})
    /\ UNCHANGED <<present, done>>

Parse(r) ==
    /\ req[r].pc = "read"
    /\ \/ Readable(r) /\ Goto(r, "audit")
       \/ Unreadable(r) /\ End(r, "error")
    /\ UNCHANGED <<present, done, trail>>

\* _audit_repo: the record is part of the request's transaction.
Audit(r) ==
    /\ req[r].pc = "audit"
    /\ req' = [req EXCEPT ![r].pc = "commit",
          ![r].recorded = Service[req[r].op] # "none"]
    /\ UNCHANGED <<present, done, trail>>

\* await services.db.commit(), in an endpoint that writes; the session of one
\* that reads is closed and rolls its record back.
Commit(r) ==
    /\ req[r].pc = "commit"
    /\ trail' = IF req[r].op \in Writes /\ req[r].recorded
                THEN trail \cup {r} ELSE trail
    /\ End(r, "success")
    /\ UNCHANGED <<present, done>>

\* Postgres fails, or the worker dies.
Fail(r) ==
    /\ req[r].pc \notin {"idle", "over"}
    /\ End(r, "error")
    /\ UNCHANGED <<present, done, trail>>

Proceed(r) ==
    \/ Token(r) \/ NoToken(r) \/ GitHub(r) \/ Lose(r) \/ Again(r)
    \/ GiveUp(r) \/ Answered(r) \/ Parse(r) \/ Audit(r) \/ Commit(r)

Next ==
    \/ \E thing \in Things : Diverge(thing)
    \/ \E r \in Req : Start(r) \/ Proceed(r) \/ Fail(r)

\* What the event loop goes on with: an attempt has an outcome, if only the
\* timeout of httpx.
Spec == Init /\ [][Next]_vars /\ \A r \in Req : WF_vars(Proceed(r))

-----------------------------------------------------------------------------
(* Properties *)

\* Every variable keeps its type.
TypeOK ==
    /\ present \subseteq Things
    /\ done \in [Req -> 0..MaxAttempts]
    /\ trail \subseteq Req
    /\ req \in [Req -> Request]

\* Whatever attempts are lost, repeated or refused, an audit record of the
\* gateway stands for a modification at GitHub that its own request caused, or
\* for a redirect in answer to an operation that does not look at its answer.
TrailFaithful ==
    \A r \in trail :
        /\ Service[req[r].op] = "modify"
        /\ \/ done[r] > 0
           \/ req[r].reply = "moved" /\ Reading(r) = "ignored"

\* Whoever is told of success has had it, unless a redirect was taken for it:
\* the change was made at GitHub, and if it is one the service records, the
\* record is committed.
SuccessIsTrue ==
    \A r \in Req : req[r].answer = "success" =>
        /\ Mutates(req[r].op) => done[r] > 0 \/ Misread(req[r])
        /\ Service[req[r].op] = "modify" => r \in trail

\* Every request ends, whatever GitHub does to its attempts.
RequestEnds == \A r \in Req : req[r].pc # "idle" ~> req[r].pc = "over"
=============================================================================
