------------------------------ MODULE AccountsMC ------------------------------
(***************************************************************************)
(* Small instances of Accounts: a few requests, for one email that is      *)
(* typed in two ways.                                                      *)
(***************************************************************************)
EXTENDS Accounts, TLC

Buckets == Address \cup {"auth"}

Lowered == [a \in Address |-> CHOOSE e \in Email : TRUE]

Symmetry == Permutations(Req) \cup Permutations(Address)
=============================================================================
