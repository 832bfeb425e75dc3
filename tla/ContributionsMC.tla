-------------------------- MODULE ContributionsMC ---------------------------
(***************************************************************************)
(* Small instances of Contributions: two days: the window of the current   *)
(* year shows both, the window of the year before one of them.             *)
(***************************************************************************)
EXTENDS Contributions, TLC

CONSTANTS shared, recent, current, past

Windows == (current :> {shared, recent}) @@ (past :> {shared})

Symmetry == Permutations(Worker) \cup Permutations(Req)
=============================================================================
