---------------------------- MODULE GatewayRoutes ----------------------------
(***************************************************************************)
(* What each operation of the repository gateway asks of GitHub, records   *)
(* and commits: the typed helpers of GitHubAPIClient, the methods of       *)
(* RepositoryService and the endpoints of /repositories, table by table.   *)
(* An operation has the name of its method in the service.                 *)
(***************************************************************************)
EXTENDS TLC

\* What a call does at GitHub, and what becomes of it if it is sent again:
\*   read     nothing is changed
\*   append   one more of what is asked for is added each time
\*   create   made once, and refused while it is there
\*   remove   taken away, and refused while it is not there
\*   set      brought to the state that is asked for, again and again
\*   merge    done once, and then answered without a body
\*   query    whatever the caller's GraphQL says
Effects == {"read", "append", "create", "remove", "set", "merge", "query"}

\* What the client makes of an answer below 400:
\*   ignored      it does not look at it
\*   any          it takes whatever is there: a list that is not there, or a
\*                field that is missing, is read as nothing
\*   model        it reads the model it expects
\*   other model  it expects the model of something else, which fails unless
\*                the answer happens to have its fields
Readings == {"ignored", "any", "model", "other model"}

\* No audit record; one of an access; one of a modification.
Records == {"none", "access", "modify"}

Call(effect, reading) == [effect |-> effect, reading |-> reading]

-----------------------------------------------------------------------------
(* GitHubAPIClient *)

\* paginate takes a page that is not answered with 200 for an empty one; a page
\* of repositories is read as it is.
ListingCalls ==
    [list_organizations          |-> Call("read", "any"),
     list_repositories_paginated |-> Call("read", "model")]

\* graphql raises an error if the answer has "errors", and takes an answer
\* without "data" for one that has nothing.
QueryCalls ==
    [graphql                   |-> Call("query", "any"),
     get_contributions_summary |-> Call("read", "any"),
     list_discussions          |-> Call("read", "any")]

RepositoryCalls ==
    [get_repository    |-> Call("read", "model"),
     create_repository |-> Call("create", "model"),
     delete_repository |-> Call("remove", "ignored"),
     fork_repository   |-> Call("set", "model")]

BranchCalls ==
    [list_branches |-> Call("read", "any"),
     create_branch |-> Call("create", "ignored"),
     list_commits  |-> Call("read", "any"),
     get_commit    |-> Call("read", "model"),
     merge_branch  |-> Call("merge", "model")]

\* The answer of a merge is read as a pull request, which GitHub does not say
\* it is; the tests' GitHub gives one.  A review is handed on as it comes.
PullRequestCalls ==
    [list_pull_requests  |-> Call("read", "any"),
     get_pull_request    |-> Call("read", "model"),
     create_pull_request |-> Call("create", "model"),
     merge_pull_request  |-> Call("create", "other model"),
     request_reviewers   |-> Call("set", "ignored"),
     submit_review       |-> Call("append", "any")]

IssueCalls ==
    [list_issues          |-> Call("read", "any"),
     list_assigned_issues |-> Call("read", "any"),
     get_issue            |-> Call("read", "model"),
     create_issue         |-> Call("append", "model"),
     update_issue         |-> Call("set", "model"),
     close_issue          |-> Call("set", "model"),
     comment_on_issue     |-> Call("append", "model")]

ReleaseCalls ==
    [list_releases    |-> Call("read", "any"),
     create_release   |-> Call("create", "model"),
     list_labels      |-> Call("read", "any"),
     create_label     |-> Call("create", "model"),
     list_milestones  |-> Call("read", "any"),
     create_milestone |-> Call("create", "model")]

ActionsCalls ==
    [list_workflows     |-> Call("read", "any"),
     dispatch_workflow  |-> Call("append", "ignored"),
     list_workflow_runs |-> Call("read", "any")]

OtherCalls ==
    [list_teams         |-> Call("read", "any"),
     list_collaborators |-> Call("read", "any")]

Client ==
    ListingCalls @@ QueryCalls @@ RepositoryCalls @@ BranchCalls
    @@ PullRequestCalls @@ IssueCalls @@ ReleaseCalls @@ ActionsCalls
    @@ OtherCalls

Op == DOMAIN Client

-----------------------------------------------------------------------------
(* RepositoryService: which audit record follows a successful call *)

RepositoryRecords ==
    [list_repositories_paginated |-> "access",
     get_contributions_summary   |-> "none",
     get_repository              |-> "access",
     create_repository           |-> "modify",
     delete_repository           |-> "modify",
     fork_repository             |-> "modify"]

BranchRecords ==
    [list_branches |-> "none",
     create_branch |-> "modify",
     list_commits  |-> "none",
     get_commit    |-> "none",
     merge_branch  |-> "modify"]

PullRequestRecords ==
    [list_pull_requests  |-> "none",
     get_pull_request    |-> "none",
     create_pull_request |-> "modify",
     merge_pull_request  |-> "modify",
     request_reviewers   |-> "modify",
     submit_review       |-> "none"]

IssueRecords ==
    [list_issues          |-> "none",
     list_assigned_issues |-> "none",
     get_issue            |-> "none",
     create_issue         |-> "modify",
     update_issue         |-> "modify",
     close_issue          |-> "modify",
     comment_on_issue     |-> "none"]

ReleaseRecords ==
    [list_releases    |-> "none",
     create_release   |-> "modify",
     list_labels      |-> "none",
     create_label     |-> "none",
     list_milestones  |-> "none",
     create_milestone |-> "none"]

ActionsRecords ==
    [list_workflows     |-> "none",
     dispatch_workflow  |-> "modify",
     list_workflow_runs |-> "none",
     list_teams         |-> "none",
     list_collaborators |-> "none",
     list_organizations |-> "none",
     list_discussions   |-> "none",
     graphql            |-> "none"]

Service ==
    RepositoryRecords @@ BranchRecords @@ PullRequestRecords @@ IssueRecords
    @@ ReleaseRecords @@ ActionsRecords

-----------------------------------------------------------------------------
(* The endpoints: a POST, PUT, PATCH or DELETE commits, a GET does not *)

RepositoryWrites == {"create_repository", "fork_repository",
    "delete_repository", "create_branch", "merge_branch"}

PullRequestWrites == {"create_pull_request", "merge_pull_request",
    "request_reviewers", "submit_review"}

IssueWrites == {"create_issue", "update_issue", "close_issue",
    "comment_on_issue"}

OtherWrites == {"create_release", "create_label", "create_milestone",
    "dispatch_workflow", "graphql"}

Writes == RepositoryWrites \cup PullRequestWrites \cup IssueWrites
              \cup OtherWrites

RepositoryGets == {"list_repositories_paginated",
    "get_contributions_summary", "get_repository", "list_branches",
    "list_commits", "get_commit", "list_pull_requests", "get_pull_request",
    "list_issues", "get_issue"}

OtherGets == {"list_releases", "list_labels", "list_milestones",
    "list_workflows", "list_workflow_runs", "list_collaborators",
    "list_teams", "list_discussions", "list_organizations"}

Gets == RepositoryGets \cup OtherGets \cup {"list_assigned_issues"}

-----------------------------------------------------------------------------
(* Names for what the tables say *)

Effect(op) == Client[op].effect

Mutates(op) == Effect(op) \notin {"read", "query"}

\* Every operation has its entry in each table; what is recorded as a
\* modification is one and is committed, and its answer is read or ignored;
\* only a merge is answered without a body, and the client reads that answer.
ASSUME RoutesAssumption ==
    /\ Client \in [Op -> [effect: Effects, reading: Readings]]
    /\ Service \in [Op -> Records]
    /\ Writes \cup Gets = Op /\ Writes \cap Gets = {}
    /\ \A op \in Op :
        /\ Service[op] = "modify" => Mutates(op)
        /\ Service[op] # "none" /\ op \in Writes => Service[op] = "modify"
        /\ Service[op] = "modify" => op \in Writes
        /\ Service[op] = "modify" => Client[op].reading # "any"
        /\ Effect(op) = "merge" => Client[op].reading = "model"

\* Two operations on one thing: a repository is what create_repository makes
\* and delete_repository takes away.
Thing(op) ==
    IF op = "delete_repository" THEN "create_repository" ELSE op
=============================================================================
