------------------------- MODULE IdentityOwnership --------------------------
(***************************************************************************)
(* What linking promises: a GitHub identity belongs to one user at most,   *)
(* and passes to another user only after it was unlinked from the first.   *)
(*                                                                         *)
(* OAuthFlow.tla implements this specification with the committed rows of  *)
(* github_accounts.                                                        *)
(***************************************************************************)
CONSTANTS Identity, User, None

VARIABLE owner                  \* owner[i]: the user identity i belongs to

Init == owner = [i \in Identity |-> None]

Attach(i, u) == owner[i] = None /\ owner' = [owner EXCEPT ![i] = u]

Detach(i) == owner[i] # None /\ owner' = [owner EXCEPT ![i] = None]

Next == \E i \in Identity : Detach(i) \/ \E u \in User : Attach(i, u)

Spec == Init /\ [][Next]_owner
=============================================================================
