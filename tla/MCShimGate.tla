------------------------------- MODULE MCShimGate -------------------------------
(* A request of every gated tool, over two objects that may be moved, lost *)
(* and given away; updates with and without their own team and assignee;   *)
(* creations with a secret in their title; and the requests that never     *)
(* reach a gate.                                                           *)
EXTENDS ShimGate

CONSTANTS c1, o1, o2

MCFacts == {[owner |-> "us", scope |-> "in"], [owner |-> "us", scope |-> "out"],
            [owner |-> "them", scope |-> "in"], [owner |-> "none", scope |-> "in"]}

R(tool, targets, scope, owner, text) ==
  [shape |-> "call", tool |-> tool, targets |-> targets, items |-> <<>>,
   scope |-> scope, owner |-> owner, draft |-> FALSE, text |-> text]
Raw(shape) == [R("unmapped", <<>>, "absent", "absent", "plain") EXCEPT !.shape = shape]

MCRequests ==
  {Raw(s) : s \in {"self", "foreign", "method", "malformed"}}
  \cup {R("notion_update", <<o1>>, "absent", "absent", "plain"),
        R("linear_comment", <<o1>>, "absent", "absent", "secret"),
        R("linear_comment", <<>>, "absent", "absent", "plain"),
        R("linear_project", <<o1>>, "absent", "absent", "plain"),
        R("linear_project", <<o1>>, "in", "absent", "plain"),
        R("pagerduty_manage", <<o1, o2>>, "absent", "absent", "plain"),
        [R("pagerduty_manage", <<o1>>, "absent", "absent", "plain") EXCEPT !.items = <<o2>>],
        R("github_pr", <<o1>>, "in", "absent", "plain"),
        [R("gitlab_mr", <<o1>>, "absent", "absent", "plain") EXCEPT !.items = <<o2>>],
        [R("gitlab_mr", <<>>, "in", "absent", "plain") EXCEPT !.items = <<o2>>],
        R("gitlab_create", <<o1, o2>>, "absent", "absent", "plain"),
        R("alertmanager_delete", <<o1>>, "absent", "absent", "flagged"),
        R("jira_write", <<>>, "in", "absent", "plain"),
        R("unmapped", <<>>, "absent", "absent", "plain")}
  \cup {R("github_create", <<>>, "in", "absent", text) : text \in {"plain", "secret"}}
  \cup {[R("gitlab_create", <<o1>>, scope, "absent", "secret") EXCEPT !.draft = draft] :
          scope \in {"in", "out"}, draft \in BOOLEAN}
  \cup {R("linear_issue", <<o1>>, scope, owner, "plain") :
          scope \in {"absent", "in", "out"}, owner \in {"absent", "us", "them"}}
  \cup {R("jira_write", <<o1>>, "in", owner, "plain") : owner \in {"absent", "us"}}
==============================================================================
