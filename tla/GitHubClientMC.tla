--------------------------- MODULE GitHubClientMC ---------------------------
(***************************************************************************)
(* Small instances of GitHubClient.  No symmetry: the runs check liveness. *)
(***************************************************************************)
EXTENDS GitHubClient
=============================================================================
