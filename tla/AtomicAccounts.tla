---------------------------- MODULE AtomicAccounts ----------------------------
(***************************************************************************)
(* What the account endpoints promise: requests that overlap have the      *)
(* effect, and the success they report, of requests that were carried out  *)
(* one at a time, each in a single step between its arrival and its        *)
(* answer.  The answer may be lost, and with it who asked the word of what *)
(* was done; but a request that reports no success for another reason has  *)
(* done nothing.                                                           *)
(*                                                                         *)
(* Accounts.tla implements this specification: the step is the commit.     *)
(***************************************************************************)
CONSTANTS Req, Email, None

VARIABLES
    account,            \* account[e]: the account under email e, or None
    done                \* the requests that were carried out

Init == account = [e \in Email |-> None] /\ done = {}

\* A request is carried out once: what it did, to whose account, and whether
\* it is told so.
CarryOut(r, op, e, user) ==
    /\ \A d \in done : d.req # r
    /\ \E told \in BOOLEAN :
        done' = done \cup {[req |-> r, op |-> op, email |-> e, user |-> user,
                            told |-> told]}

\* An email has one account, made by one registration.
Register(r, e) ==
    /\ account[e] = None
    /\ account' = [account EXCEPT ![e] =
          [by |-> r, verified |-> FALSE, status |-> "pending_email"]]
    /\ CarryOut(r, "register", e, r)

\* A login and a new token leave the account as it is.
Use(r, op, e) ==
    /\ account[e] # None
    /\ CarryOut(r, op, e, account[e].by)
    /\ UNCHANGED account

\* The token was given out for this account, by a request that was told so.
Verify(r, e) ==
    /\ account[e] # None
    /\ \E d \in done : /\ d.op \in {"register", "resend"}
                       /\ d.email = e /\ d.user = account[e].by /\ d.told
    /\ account' = [account EXCEPT ![e].verified = TRUE, ![e].status = "active"]
    /\ CarryOut(r, "verify", e, account[e].by)

Next ==
    \E r \in Req, e \in Email :
        \/ Register(r, e)
        \/ \E op \in {"login", "resend"} : Use(r, op, e)
        \/ Verify(r, e)

Spec == Init /\ [][Next]_<<account, done>>
=============================================================================
