-------------------------------- MODULE ShimGate --------------------------------
(***************************************************************************)
(* The shim's pre-forward gate (images/mcp-cerbos-shim, CheckRequest): one *)
(* goroutine per call the gateway asks about. A call is screened,          *)
(* moderated, mapped to a Cerbos resource, completed with what its live    *)
(* lookups say about the objects it names, decided by Cerbos, redacted,    *)
(* given the arguments its mapping forces, and forwarded. The objects      *)
(* belong to other systems, where people and the agent's own earlier calls *)
(* change them while the call is being decided; a lookup answers with a    *)
(* fact the result cache may have kept for a while.                        *)
(*                                                                         *)
(* What the policies tell apart about an object is a fact: whether it is   *)
(* in an allowed scope (team, service, folder, project) and whose it is    *)
(* (the operator's, somebody else's, nobody's).                            *)
(***************************************************************************)
EXTENDS Integers, Sequences

CONSTANTS
  Calls,          \* CheckRequest goroutines
  Requests,       \* what agents and the shim itself send
  Objects,        \* issues, projects, incidents, pages, pull requests...
  Facts,          \* [owner, scope]
  MaxChanges,     \* bound on what other people do to the objects
  DenyByDefault   \* the backend's defaultAction

Shapes  == {"call", "self", "foreign", "method", "malformed"}
Tools   == {"notion_update", "linear_comment", "linear_issue", "linear_project", "pagerduty_manage",
            "github_pr", "github_create", "gitlab_mr", "gitlab_create", "alertmanager_delete",
            "jira_write", "unmapped"}
GitlabTools == {"gitlab_mr", "gitlab_create"}
Texts   == {"plain", "secret", "flagged", "masked"}

(* Whatever an object is, it can be given to the operator and moved to an  *)
(* allowed scope. Only a call names a tool; only pages, incidents and the  *)
(* projects of a merge request are named several at a time; only an update *)
(* of an issue says whose it shall be. The targets of a GitLab call are    *)
(* the projects it names by their path, its scope is that of those it      *)
(* names by number, and its item is the merge request. The items of a call *)
(* about incidents are the ids it gives in a form that is not looked up. A *)
(* merge request that is opened has a title, as GitLab demands; it is a    *)
(* draft when that says so already.                                        *)
ASSUME FactsAssumption ==
  /\ Facts \subseteq [owner : {"us", "them", "none"}, scope : {"in", "out"}]
  /\ \A f \in Facts : {[f EXCEPT !.owner = "us"], [f EXCEPT !.scope = "in"]} \subseteq Facts
ASSUME RequestsAssumption ==
  /\ Requests \subseteq [shape : Shapes, tool : Tools, targets : Seq(Objects), items : Seq(Objects),
                         scope : {"absent", "in", "out"}, owner : {"absent", "us", "them"},
                         draft : BOOLEAN, text : Texts]
  /\ \A r \in Requests :
       /\ r.shape = "call" \/ r.tool = "unmapped"
       /\ Len(r.items) <= 1
       /\ Len(r.targets) <= 1 \/ r.tool \in {"notion_update", "pagerduty_manage"} \cup GitlabTools
       /\ r.owner = "absent" \/ r.tool \in {"linear_issue", "jira_write"}
ASSUME ChangesAssumption == MaxChanges \in Nat

VARIABLES
  world,    \* what is true of each object
  recent,   \* what a lookup may still answer about it
  changes,  \* how often other people changed an object
  calls     \* each goroutine's place in CheckRequest

vars == <<world, recent, changes, calls>>

When(cond, seq) == IF cond THEN seq ELSE <<>>
Ask(gate, objects) == [i \in DOMAIN objects |-> [gate |-> gate, of |-> objects[i]]]

(* The lookups of each gate, for the requests it fires on. A request that  *)
(* carries the answer itself is not looked up. An incident whose id is not *)
(* a non-empty string goes by unasked; every project of a merge request is *)
(* asked for, whatever the call says of another.                           *)
NotionGates(r) ==
  When(r.tool = "notion_update", Ask("ancestry", r.targets) \o Ask("author", r.targets))
LinearCommentGate(r) == When(r.tool = "linear_comment", Ask("issue", r.targets))
LinearIssueGate(r) ==
  When(r.tool = "linear_issue" /\ "absent" \in {r.scope, r.owner}, Ask("issue", r.targets))
LinearProjectGate(r) ==
  When(r.tool = "linear_project" /\ r.scope = "absent", Ask("project", r.targets))
(* Mutant: only the first incident of a batch is looked up.                *)
FirstIncidentOnly(r) ==
  When(r.tool = "pagerduty_manage", Ask("service", SubSeq(r.targets, 1, 1)))

PagerdutyGate(r) == When(r.tool = "pagerduty_manage", Ask("service", r.targets))
GithubGate(r) == When(r.tool = "github_pr", Ask("pr", r.targets))
GitlabProjectGate(r) == When(r.tool \in GitlabTools, Ask("canonical", r.targets))
GitlabMRGate(r) == When(r.tool = "gitlab_mr", Ask("mr", r.items))
AlertmanagerGate(r) == When(r.tool = "alertmanager_delete", Ask("silence", r.targets))
JiraGate(r) == When(r.tool = "jira_write" /\ r.owner = "absent", Ask("assignee", r.targets))

Lookups(r) ==
  NotionGates(r) \o LinearCommentGate(r) \o LinearIssueGate(r) \o LinearProjectGate(r)
    \o PagerdutyGate(r) \o GithubGate(r) \o GitlabProjectGate(r) \o GitlabMRGate(r)
    \o AlertmanagerGate(r) \o JiraGate(r)

(* The resource Cerbos would see from the call's own arguments.            *)
Eval(r) == [scopes |-> IF r.scope = "absent" THEN {} ELSE {r.scope},
            owner |-> r.owner, verified |-> FALSE]

AuthorGates == {"pr", "mr", "silence"}

(* An answer that denies by itself: a page outside the allowed folders, an *)
(* object whose author cannot be read.                                     *)
Refuses(gate, f) == \/ gate = "ancestry" /\ f.scope = "out"
                    \/ gate \in AuthorGates /\ f.owner = "none"

(* What an answer adds to the resource's attributes.                       *)
SaysScope(gate, r) == \/ gate = "canonical"
                      \/ gate \in {"issue", "project", "service"} /\ r.scope = "absent"
LearnScope(a, r, gate, f) ==
  IF SaysScope(gate, r) THEN [a EXCEPT !.scopes = @ \cup {f.scope}] ELSE a
(* Mutant: the assignee of the issue as it stands wins over the call's.    *)
LearnAnyAssignee(a, r, gate, f) ==
  IF gate \in {"issue", "assignee"}
  THEN [a EXCEPT !.verified = TRUE, !.owner = IF f.owner = "none" THEN @ ELSE f.owner] ELSE a

LearnAssignee(a, r, gate, f) ==
  IF gate \in {"issue", "assignee"} /\ r.owner = "absent"
  THEN [a EXCEPT !.verified = TRUE, !.owner = IF f.owner = "none" THEN @ ELSE f.owner] ELSE a
LearnAuthor(a, gate, f) ==
  IF gate \in AuthorGates THEN [a EXCEPT !.owner = f.owner]
  ELSE IF gate = "author" /\ f.owner # "us" THEN [a EXCEPT !.owner = "them"] ELSE a
Learn(a, r, gate, f) ==
  LearnAuthor(LearnAssignee(LearnScope(a, r, gate, f), r, gate, f), gate, f)

(* The policies' deny rules, for allowlists that name somebody. A write to *)
(* an issue that exists names a target; a creation names none.             *)
Foreign(a) == a.owner = "them"
OutOfScope(a) == "out" \in a.scopes
Unassigned(a) == a.verified /\ a.owner = "absent"
CreatedUnassigned(r, a) == r.targets = <<>> /\ a.owner = "absent"
LinearDenies(r, a) ==
  \/ OutOfScope(a) \/ Foreign(a) \/ Unassigned(a)
  \/ r.tool = "linear_issue" /\ CreatedUnassigned(r, a)
JiraDenies(r, a) ==
  OutOfScope(a) \/ Foreign(a) \/ Unassigned(a) \/ CreatedUnassigned(r, a)
PagerdutyDenies(a) == OutOfScope(a)
NotionDenies(a) == Foreign(a)
GithubDenies(a) == OutOfScope(a) \/ Foreign(a)
GitlabDenies(a) == a.scopes = {} \/ OutOfScope(a) \/ Foreign(a)
AlertmanagerDenies(a) == Foreign(a)

Denies(r, a) ==
  \/ r.tool \in {"linear_issue", "linear_comment", "linear_project"} /\ LinearDenies(r, a)
  \/ r.tool = "jira_write" /\ JiraDenies(r, a)
  \/ r.tool = "pagerduty_manage" /\ PagerdutyDenies(a)
  \/ r.tool = "notion_update" /\ NotionDenies(a)
  \/ r.tool \in {"github_pr", "github_create"} /\ GithubDenies(a)
  \/ r.tool \in GitlabTools /\ GitlabDenies(a)
  \/ r.tool = "alertmanager_delete" /\ AlertmanagerDenies(a)

Idle == [place |-> "idle"]
Active == {c \in Calls : calls[c] # Idle}
Goes(c, place) == calls' = [calls EXCEPT ![c].place = place]
Stays == UNCHANGED <<world, recent, changes>>

Init == /\ world \in [Objects -> Facts]
        /\ recent = [o \in Objects |-> {world[o]}]
        /\ changes = 0
        /\ calls = [c \in Calls |-> Idle]

Arrive(c, r) ==
  /\ calls[c] = Idle
  /\ calls' = [calls EXCEPT ![c] = [place |-> "screened", req |-> r, todo |-> <<>>,
                                    attr |-> Eval(r), text |-> r.text, forced |-> "none",
                                    seen |-> recent]]
  /\ Stays

(* The reserved internal backend, the backend's name, the method and the   *)
(* shape of the parameters.                                                *)
Screen(c) ==
  /\ calls[c].place = "screened"
  /\ LET shape == calls[c].req.shape
     IN Goes(c, IF shape = "call" THEN "unmoderated"
                ELSE IF shape = "self" \/ (shape = "method" /\ ~DenyByDefault) THEN "passed"
                ELSE "denied")
  /\ Stays

(* A write's text is shown to the moderation service, which may be down.   *)
Moderate(c) ==
  /\ calls[c].place = "unmoderated"
  /\ \/ Goes(c, "unmapped")
     \/ calls[c].req.text = "flagged" /\ Goes(c, "denied")
  /\ Stays

(* A tool with no mapping is the default's; a mapped one gets its lookups. *)
Map(c) ==
  /\ calls[c].place = "unmapped"
  /\ IF calls[c].req.tool = "unmapped" THEN Goes(c, IF DenyByDefault THEN "denied" ELSE "passed")
     ELSE \/ Goes(c, "denied")   \* the mapping's expressions fail
          \/ calls' = [calls EXCEPT ![c].place = "gated", ![c].todo = Lookups(calls[c].req)]
  /\ Stays

(* The next lookup answers, or fails, or cannot be asked.                  *)
LookUp(c) ==
  /\ calls[c].place = "gated" /\ calls[c].todo # <<>>
  /\ LET next == Head(calls[c].todo)
         r == calls[c].req
     IN \/ Goes(c, "denied")
        \/ \E f \in recent[next.of] :
             IF Refuses(next.gate, f) THEN Goes(c, "denied")
             ELSE calls' = [calls EXCEPT ![c].todo = Tail(@),
                                         ![c].attr = Learn(@, r, next.gate, f)]
  /\ Stays

(* Cerbos decides. It may be out of reach, and its policies have rules     *)
(* about the arguments alone.                                              *)
Decide(c) ==
  /\ calls[c].place = "gated" /\ calls[c].todo = <<>>
  /\ \/ Goes(c, "denied")
     \/ ~Denies(calls[c].req, calls[c].attr) /\ Goes(c, "allowed")
  /\ Stays

(* Secrets are masked in the arguments of every call that is allowed.      *)
Redact(c) ==
  /\ calls[c].place = "allowed"
  /\ calls' = [calls EXCEPT ![c].place = "redacted",
                            ![c].text = IF @ = "secret" THEN "masked" ELSE @]
  /\ Stays

(* What the mapping forces on a call's arguments: a fixed value (the draft *)
(* flag of a new pull request), or a title made of the call's own.         *)
ForceOverrides(r, text) ==
  IF r.tool = "github_create" THEN "fixed"
  ELSE IF r.tool = "gitlab_create" /\ ~r.draft THEN text ELSE "none"

(* Mutant: the overrides are made of the arguments as they came.           *)
ForceOriginal(c) ==
  /\ calls[c].place = "redacted"
  /\ LET r == calls[c].req
         forced == ForceOverrides(r, r.text)
         changed == forced # "none" \/ calls[c].text # r.text
     IN \/ ~changed /\ Goes(c, "passed")
        \/ changed /\ calls' = [calls EXCEPT ![c].place = "mutated", ![c].forced = forced]
        \/ (changed \/ r.tool = "gitlab_create") /\ Goes(c, "denied")
  /\ Stays

(* The forced arguments, made of the redacted ones. A call that neither    *)
(* step changed is passed as it came; the others are written anew, which   *)
(* may fail, as may the expression that makes an argument.                 *)
ForceArguments(c) ==
  /\ calls[c].place = "redacted"
  /\ LET r == calls[c].req
         forced == ForceOverrides(r, calls[c].text)
         changed == forced # "none" \/ calls[c].text # r.text
     IN \/ ~changed /\ Goes(c, "passed")
        \/ changed /\ calls' = [calls EXCEPT ![c].place = "mutated", ![c].forced = forced]
        \/ (changed \/ r.tool = "gitlab_create") /\ Goes(c, "denied")
  /\ Stays

Forwarded(c) == calls[c].place \in {"passed", "mutated"}

Becomes(o, f) ==
  /\ world' = [world EXCEPT ![o] = f]
  /\ recent' = [recent EXCEPT ![o] = @ \cup {f}]

(* The forwarded write reaches the object: an update that names a team or  *)
(* an assignee moves it there. Otherwise it leaves the fact alone.         *)
Land(c) ==
  /\ Forwarded(c)
  /\ LET r == calls[c].req
         moved(f) == [owner |-> IF r.owner = "absent" THEN f.owner ELSE r.owner,
                      scope |-> IF r.scope = "absent" THEN f.scope ELSE r.scope]
     IN IF r.tool \in {"linear_issue", "jira_write"} /\ r.targets # <<>>
        THEN LET o == r.targets[1] IN
             /\ Becomes(o, moved(world[o]))
             /\ calls' = [d \in Calls |->
                            IF d = c \/ calls[d] = Idle THEN Idle
                            ELSE [calls[d] EXCEPT !.seen[o] = @ \cup {moved(world[o])}]]
        ELSE calls' = [calls EXCEPT ![c] = Idle] /\ UNCHANGED <<world, recent>>
  /\ UNCHANGED changes

Refused(c) ==
  /\ calls[c].place = "denied"
  /\ calls' = [calls EXCEPT ![c] = Idle]
  /\ Stays

(* Somebody moves, reassigns or edits an object.                           *)
WorldChanges(o, f) ==
  /\ changes < MaxChanges /\ f # world[o]
  /\ changes' = changes + 1
  /\ Becomes(o, f)
  /\ calls' = [c \in Calls |-> IF calls[c] = Idle THEN Idle
                               ELSE [calls[c] EXCEPT !.seen[o] = @ \cup {f}]]

(* The cached answers about an object expire.                              *)
Expire(o) ==
  /\ recent[o] # {world[o]}
  /\ recent' = [recent EXCEPT ![o] = {world[o]}]
  /\ UNCHANGED <<world, changes, calls>>

Next ==
  \/ \E c \in Calls : \/ \E r \in Requests : Arrive(c, r)
                      \/ Screen(c) \/ Moderate(c) \/ Map(c) \/ LookUp(c) \/ Decide(c)
                      \/ Redact(c) \/ ForceArguments(c) \/ Land(c) \/ Refused(c)
  \/ \E o \in Objects : Expire(o) \/ \E f \in Facts : WorldChanges(o, f)

Spec == Init /\ [][Next]_vars
-------------------------------------------------------------------------------
(* A write is earned by what was true of its object: for every object it   *)
(* names, at some moment no older than the cache allows, the object was in *)
(* an allowed scope and was the operator's, unless the call itself says    *)
(* where to put it. One lookup that answers both must answer both of the   *)
(* same moment; a page's folder and its author are two lookups; and of two *)
(* projects the call names, neither answers for the other. Nothing is said *)
(* of an incident whose id is not a non-empty string.                      *)
ScopeEarned(r, seen, o) == r.scope = "in" \/ \E f \in seen[o] : f.scope = "in"
OwnerEarned(r, seen, o) == r.owner = "us" \/ \E f \in seen[o] : f.owner = "us"
IssueEarned(r, seen, o) ==
  \E f \in seen[o] : (r.scope = "in" \/ f.scope = "in") /\ (r.owner = "us" \/ f.owner = "us")
Earned(r, seen) ==
  /\ \A i \in DOMAIN r.targets :
       LET o == r.targets[i] IN
       /\ r.tool \in {"linear_issue", "linear_comment"} => IssueEarned(r, seen, o)
       /\ r.tool \in {"notion_update", "linear_project", "pagerduty_manage"} => ScopeEarned(r, seen, o)
       /\ r.tool \in GitlabTools => r.scope # "out" /\ \E f \in seen[o] : f.scope = "in"
       /\ r.tool \in {"notion_update", "github_pr", "alertmanager_delete", "jira_write"} =>
            OwnerEarned(r, seen, o)
  /\ r.tool = "gitlab_mr" => \A i \in DOMAIN r.items : OwnerEarned(r, seen, r.items[i])

WritesAreEarned ==
  \A c \in Active : calls[c].req.shape = "call" /\ Forwarded(c) =>
                      Earned(calls[c].req, calls[c].seen)

(* A team or an assignee that the call sets is what Cerbos judges: a       *)
(* lookup never overrides it. A project named by number is judged beside   *)
(* those that are looked up.                                               *)
Claimed(r, a) ==
  /\ r.scope # "absent" => IF r.tool \in GitlabTools THEN r.scope \in a.scopes
                                                     ELSE a.scopes = {r.scope}
  /\ r.owner # "absent" => a.owner = r.owner

ClaimsStand ==
  \A c \in Active : calls[c].place \in {"gated", "allowed"} => Claimed(calls[c].req, calls[c].attr)

(* What the gateway sends on: of a call that is passed, what came.         *)
Sent(s) == IF s.place = "passed" THEN [text |-> s.req.text, forced |-> "none"]
           ELSE [text |-> s.text, forced |-> s.forced]

(* No mapped call is sent on with a secret, neither in its own arguments   *)
(* nor in one that was forced on it; and one that opens a pull or a merge  *)
(* request opens a draft, whatever the agent sent.                         *)
MappedAreMasked ==
  \A c \in Active : calls[c].req.shape = "call" /\ calls[c].req.tool # "unmapped" /\ Forwarded(c) =>
    LET r == calls[c].req
        sent == Sent(calls[c])
    IN /\ "secret" \notin {sent.text, sent.forced}
       /\ r.tool = "github_create" => sent.forced = "fixed"
       /\ r.tool = "gitlab_create" => r.draft \/ sent.forced = sent.text

-------------------------------------------------------------------------------
(* What makes WritesAreEarned inductive.                                   *)

Places == {"screened", "unmoderated", "unmapped", "gated", "allowed", "redacted", "passed",
           "mutated", "denied"}
Gates  == {"ancestry", "author", "issue", "project", "service", "pr", "canonical", "mr", "silence",
           "assignee"}
Asked  == [gate : Gates, of : Objects]
Attributes == [scopes : SUBSET {"in", "out"}, owner : {"absent", "us", "them"}, verified : BOOLEAN]
CallStates == [place : Places, req : Requests, todo : Seq(Asked), attr : Attributes, text : Texts,
               forced : {"none", "fixed"} \cup Texts, seen : [Objects -> SUBSET Facts]]

(* The types of the state.                                                 *)
TypeOK ==
  /\ world \in [Objects -> Facts] /\ recent \in [Objects -> SUBSET Facts]
  /\ changes \in 0..MaxChanges
  /\ calls \in [Calls -> CallStates \cup {Idle}]

(* What a lookup may answer is what is true or was seen since the call came. *)
SeenInv ==
  \A o \in Objects : /\ world[o] \in recent[o]
                     /\ \A c \in Active : recent[o] \subseteq calls[c].seen[o]

(* A lookup has been answered by a fact that the attributes account for.   *)
Answered(l, r, a, seen) ==
  \E f \in seen[l.of] :
    /\ l.gate = "ancestry" => f.scope = "in"
    /\ l.gate = "author" => f.owner = "us" \/ a.owner = "them"
    /\ l.gate \in AuthorGates => a.owner = f.owner
    /\ SaysScope(l.gate, r) => f.scope \in a.scopes
    /\ l.gate \in {"issue", "assignee"} /\ r.owner = "absent"
         => a.verified /\ (a.owner = f.owner \/ a.owner = "absent")

\* Nobody has said whose the object is.
Unasked(l, r, a) == l.gate \in {"issue", "assignee"} /\ r.owner = "absent" => a.owner = "absent"

Elements(s) == {s[i] : i \in DOMAIN s}

(* While a call is gated each of its lookups is to come or accounted for;  *)
(* from the decision on all are, and no rule denies what they add up to.   *)
(* From the redaction on its text has no secret; a call is passed when its *)
(* text is what came and nothing is forced on it, and is mutated with what *)
(* is made of its text.                                                    *)
CallInv(s) ==
  /\ Claimed(s.req, s.attr)
  /\ s.place \in {"screened", "unmoderated", "unmapped"} => s.attr = Eval(s.req)
  /\ s.place = "gated" =>
       /\ Elements(s.todo) \subseteq Elements(Lookups(s.req))
       /\ \A l \in Elements(Lookups(s.req)) :
            \/ l \in Elements(s.todo) /\ Unasked(l, s.req, s.attr)
            \/ Answered(l, s.req, s.attr, s.seen)
  /\ s.place \in {"allowed", "redacted", "passed", "mutated"} /\ s.req.shape = "call" /\ s.req.tool # "unmapped" =>
       /\ ~Denies(s.req, s.attr)
       /\ \A l \in Elements(Lookups(s.req)) : Answered(l, s.req, s.attr, s.seen)
       /\ s.place # "allowed" => s.text # "secret"
       /\ s.place = "passed" => s.text = s.req.text /\ ForceOverrides(s.req, s.text) = "none"
       /\ s.place = "mutated" => s.forced = ForceOverrides(s.req, s.text)

GateInv == TypeOK /\ SeenInv /\ \A c \in Active : CallInv(calls[c])

==============================================================================
