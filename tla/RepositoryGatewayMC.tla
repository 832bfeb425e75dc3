------------------------- MODULE RepositoryGatewayMC -------------------------
(***************************************************************************)
(* Small instances of RepositoryGateway: two requests, for any two of      *)
(* OneOfEach: an operation for each combination of entries the tables of   *)
(* GatewayRoutes hold.  There is no symmetry: the run checks liveness.     *)
(***************************************************************************)
EXTENDS RepositoryGateway

OneOfEach == {"get_repository", "get_issue", "list_issues",
    "create_repository", "delete_repository", "create_branch",
    "merge_branch", "merge_pull_request", "request_reviewers",
    "create_issue", "submit_review", "comment_on_issue", "create_label",
    "graphql"}

\* OneOfEach misses no combination, but that AppendOrSet does alike what it is
\* named for.
Row(op) ==
    <<IF Effect(op) = "set" THEN "append" ELSE Effect(op), Client[op].reading,
      Service[op], op \in Writes>>

ASSUME OneOfEachAssumption ==
    {Row(op) : op \in OneOfEach} = {Row(op) : op \in Op}
=============================================================================
