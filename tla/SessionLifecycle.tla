-------------------------- MODULE SessionLifecycle --------------------------
(***************************************************************************)
(* What the sessions table promises, without saying how: a session row is  *)
(* opened once, by a login, and once it has ended it never becomes active  *)
(* again.  An end by expiry or by "log out everywhere" applies to active   *)
(* rows only; an explicit revocation may also be recorded over another     *)
(* end, and is itself final.  One transaction may end many rows at once.   *)
(*                                                                         *)
(* Sessions.tla implements this specification with its committed rows.     *)
(***************************************************************************)
CONSTANT Sid                    \* identities of session rows

VARIABLE status                 \* status[s]: the committed status of row s

Status == {"absent", "active", "revoked", "expired", "terminated"}

Init == status = [s \in Sid |-> "absent"]

\* What one transaction may do to one row.
May(old, new) ==
    \/ new = old
    \/ old = "absent" /\ new = "active"
    \/ old = "active" /\ new \in {"expired", "terminated"}
    \/ old # "absent" /\ new = "revoked"

Next ==
    \E after \in [Sid -> Status] :
        /\ \A s \in Sid : May(status[s], after[s])
        /\ status' = after

Spec == Init /\ [][Next]_status
=============================================================================
