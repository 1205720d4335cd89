----------------------------- MODULE ShimGateProofs -----------------------------
(***************************************************************************)
(* WritesAreEarned, ClaimsStand and MappedAreMasked for any number of      *)
(* calls, any requests and any objects, by the invariant GateInv.          *)
(***************************************************************************)
EXTENDS ShimGate, TLAPS

LEMMA ConcatElements ==
  ASSUME NEW S, NEW s \in Seq(S), NEW t \in Seq(S)
  PROVE  s \o t \in Seq(S) /\ Elements(s \o t) = Elements(s) \cup Elements(t)
<1>1. s \o t \in Seq(S) /\ DOMAIN (s \o t) = 1..Len(s) + Len(t) OBVIOUS
<1>2. \A i \in 1..Len(s) : (s \o t)[i] = s[i] OBVIOUS
<1>3. \A i \in 1..Len(t) : (s \o t)[Len(s) + i] = t[i] OBVIOUS
<1>4. DOMAIN s = 1..Len(s) /\ DOMAIN t = 1..Len(t) /\ Len(s) \in Nat /\ Len(t) \in Nat OBVIOUS
<1>5. ASSUME NEW x \in Elements(s \o t) PROVE x \in Elements(s) \cup Elements(t)
  <2>1. PICK i \in 1..Len(s) + Len(t) : x = (s \o t)[i] BY <1>1, <1>5 DEF Elements
  <2>2. CASE i <= Len(s) BY <2>1, <2>2, <1>2, <1>4 DEF Elements
  <2>3. CASE i > Len(s)
    <3>1. i - Len(s) \in 1..Len(t) /\ Len(s) + (i - Len(s)) = i BY <2>1, <2>3, <1>4
    <3>2. x = t[i - Len(s)] BY <2>1, <3>1, <1>3
    <3> QED BY <3>1, <3>2, <1>4 DEF Elements
  <2> QED BY <2>1, <2>2, <2>3, <1>4
<1>6. ASSUME NEW x \in Elements(s) PROVE x \in Elements(s \o t)
  <2>1. PICK i \in 1..Len(s) : x = s[i] BY <1>6, <1>4 DEF Elements
  <2>2. i \in DOMAIN (s \o t) /\ (s \o t)[i] = x BY <2>1, <1>1, <1>2, <1>4
  <2> QED BY <2>2 DEF Elements
<1>7. ASSUME NEW x \in Elements(t) PROVE x \in Elements(s \o t)
  <2>1. PICK i \in 1..Len(t) : x = t[i] BY <1>7, <1>4 DEF Elements
  <2>2. Len(s) + i \in DOMAIN (s \o t) /\ (s \o t)[Len(s) + i] = x BY <2>1, <1>1, <1>3, <1>4
  <2> QED BY <2>2 DEF Elements
<1> QED BY <1>1, <1>5, <1>6, <1>7

LEMMA TailElements ==
  ASSUME NEW S, NEW s \in Seq(S), s # <<>>
  PROVE  /\ Head(s) \in S /\ Tail(s) \in Seq(S)
         /\ Elements(s) = {Head(s)} \cup Elements(Tail(s))
<1>1. Len(s) \in Nat /\ Len(s) >= 1 /\ DOMAIN s = 1..Len(s) OBVIOUS
<1>2. Head(s) = s[1] /\ Head(s) \in S /\ Tail(s) \in Seq(S) BY <1>1
<1>3. DOMAIN Tail(s) = 1..(Len(s) - 1) BY <1>1
<1>4. \A i \in 1..(Len(s) - 1) : Tail(s)[i] = s[i + 1] BY <1>1
<1>5. ASSUME NEW x \in Elements(s) PROVE x \in {Head(s)} \cup Elements(Tail(s))
  <2>1. PICK i \in 1..Len(s) : x = s[i] BY <1>5, <1>1 DEF Elements
  <2>2. CASE i = 1 BY <2>1, <2>2, <1>2
  <2>3. CASE i # 1
    <3>1. i - 1 \in 1..(Len(s) - 1) /\ (i - 1) + 1 = i BY <2>1, <2>3, <1>1
    <3>2. x = Tail(s)[i - 1] BY <2>1, <3>1, <1>4
    <3> QED BY <3>1, <3>2, <1>3 DEF Elements
  <2> QED BY <2>2, <2>3
<1>6. ASSUME NEW x \in Elements(Tail(s)) PROVE x \in Elements(s)
  <2>1. PICK i \in 1..(Len(s) - 1) : x = Tail(s)[i] BY <1>6, <1>3 DEF Elements
  <2>2. i + 1 \in DOMAIN s /\ x = s[i + 1] BY <2>1, <1>1, <1>4
  <2> QED BY <2>2 DEF Elements
<1>7. Head(s) \in Elements(s) BY <1>1, <1>2 DEF Elements
<1> QED BY <1>2, <1>5, <1>6, <1>7

LEMMA EmptyElements == \A S : <<>> \in Seq(S) /\ Elements(<<>>) = {}
<1>1. \A S : <<>> \in Seq(S) OBVIOUS
<1>2. DOMAIN <<>> = {} OBVIOUS
<1> QED BY <1>1, <1>2 DEF Elements

-------------------------------------------------------------------------------
(* The lookups a request asks for.                                         *)

AskedOf(gate, objects) == {[gate |-> gate, of |-> objects[i]] : i \in DOMAIN objects}

LEMMA AskElements ==
  ASSUME NEW gate \in Gates, NEW objects \in Seq(Objects), NEW cond
  PROVE  /\ When(cond, Ask(gate, objects)) \in Seq(Asked)
         /\ Elements(When(cond, Ask(gate, objects))) = IF cond THEN AskedOf(gate, objects) ELSE {}
<1>1. DOMAIN objects = 1..Len(objects) /\ Len(objects) \in Nat OBVIOUS
<1>2. \A i \in DOMAIN objects : objects[i] \in Objects OBVIOUS
<1>3. Ask(gate, objects) \in [1..Len(objects) -> Asked] BY <1>1, <1>2 DEF Ask, Asked
<1>4. Ask(gate, objects) \in Seq(Asked) BY <1>1, <1>3
<1>5. Elements(Ask(gate, objects)) = AskedOf(gate, objects) BY DEF Elements, Ask, AskedOf
<1>6. CASE cond BY <1>4, <1>5, <1>6 DEF When
<1>7. CASE ~cond BY <1>7, EmptyElements DEF When
<1> QED BY <1>6, <1>7

LookupsOf(r) ==
  (IF r.tool = "notion_update" THEN AskedOf("ancestry", r.targets) \cup AskedOf("author", r.targets) ELSE {})
  \cup (IF r.tool = "linear_comment" THEN AskedOf("issue", r.targets) ELSE {})
  \cup (IF r.tool = "linear_issue" /\ "absent" \in {r.scope, r.owner}
        THEN AskedOf("issue", r.targets) ELSE {})
  \cup (IF r.tool = "linear_project" /\ r.scope = "absent" THEN AskedOf("project", r.targets) ELSE {})
  \cup (IF r.tool = "pagerduty_manage" THEN AskedOf("service", r.targets) ELSE {})
  \cup (IF r.tool = "github_pr" THEN AskedOf("pr", r.targets) ELSE {})
  \cup (IF r.tool \in GitlabTools THEN AskedOf("canonical", r.targets) ELSE {})
  \cup (IF r.tool = "gitlab_mr" THEN AskedOf("mr", r.items) ELSE {})
  \cup (IF r.tool = "alertmanager_delete" THEN AskedOf("silence", r.targets) ELSE {})
  \cup (IF r.tool = "jira_write" /\ r.owner = "absent" THEN AskedOf("assignee", r.targets) ELSE {})

LEMMA LookupsElements ==
  ASSUME NEW r \in Requests
  PROVE  Lookups(r) \in Seq(Asked) /\ Elements(Lookups(r)) = LookupsOf(r)
<1>1. r.targets \in Seq(Objects) /\ r.items \in Seq(Objects) BY RequestsAssumption
<1>2. {"ancestry", "author", "issue", "project", "service", "pr", "canonical", "mr", "silence",
       "assignee"} \subseteq Gates BY DEF Gates
<1> DEFINE A1 == NotionGates(r)
           A2 == LinearCommentGate(r)
           A3 == LinearIssueGate(r)
           A4 == LinearProjectGate(r)
           A5 == PagerdutyGate(r)
           A6 == GithubGate(r)
           A7 == GitlabProjectGate(r)
           A8 == GitlabMRGate(r)
           A9 == AlertmanagerGate(r)
           A10 == JiraGate(r)
<1>a1. /\ A1 \in Seq(Asked)
       /\ Elements(A1) = IF r.tool = "notion_update"
                         THEN AskedOf("ancestry", r.targets) \cup AskedOf("author", r.targets) ELSE {}
  <2>1. /\ Ask("ancestry", r.targets) \in Seq(Asked)
        /\ Elements(Ask("ancestry", r.targets)) = AskedOf("ancestry", r.targets)
    <3>1. When(TRUE, Ask("ancestry", r.targets)) = Ask("ancestry", r.targets) BY DEF When
    <3> QED BY <3>1, <1>1, <1>2, AskElements
  <2>2. /\ Ask("author", r.targets) \in Seq(Asked)
        /\ Elements(Ask("author", r.targets)) = AskedOf("author", r.targets)
    <3>1. When(TRUE, Ask("author", r.targets)) = Ask("author", r.targets) BY DEF When
    <3> QED BY <3>1, <1>1, <1>2, AskElements
  <2>3. CASE r.tool = "notion_update"
    BY <2>1, <2>2, <2>3, ConcatElements DEF NotionGates, When
  <2>4. CASE r.tool # "notion_update" BY <2>4, EmptyElements DEF NotionGates, When
  <2> QED BY <2>3, <2>4
<1>a2. /\ A2 \in Seq(Asked)
       /\ Elements(A2) = IF r.tool = "linear_comment" THEN AskedOf("issue", r.targets) ELSE {}
  BY <1>1, <1>2, AskElements DEF LinearCommentGate
<1>a3. /\ A3 \in Seq(Asked)
       /\ Elements(A3) = IF r.tool = "linear_issue" /\ "absent" \in {r.scope, r.owner}
                         THEN AskedOf("issue", r.targets) ELSE {}
  BY <1>1, <1>2, AskElements DEF LinearIssueGate
<1>a4. /\ A4 \in Seq(Asked)
       /\ Elements(A4) = IF r.tool = "linear_project" /\ r.scope = "absent"
                         THEN AskedOf("project", r.targets) ELSE {}
  BY <1>1, <1>2, AskElements DEF LinearProjectGate
<1>a5. /\ A5 \in Seq(Asked)
       /\ Elements(A5) = IF r.tool = "pagerduty_manage" THEN AskedOf("service", r.targets) ELSE {}
  BY <1>1, <1>2, AskElements DEF PagerdutyGate
<1>a6. /\ A6 \in Seq(Asked)
       /\ Elements(A6) = IF r.tool = "github_pr" THEN AskedOf("pr", r.targets) ELSE {}
  BY <1>1, <1>2, AskElements DEF GithubGate
<1>a7. /\ A7 \in Seq(Asked)
       /\ Elements(A7) = IF r.tool \in GitlabTools THEN AskedOf("canonical", r.targets) ELSE {}
  BY <1>1, <1>2, AskElements DEF GitlabProjectGate
<1>a8. /\ A8 \in Seq(Asked)
       /\ Elements(A8) = IF r.tool = "gitlab_mr" THEN AskedOf("mr", r.items) ELSE {}
  BY <1>1, <1>2, AskElements DEF GitlabMRGate
<1>a9. /\ A9 \in Seq(Asked)
       /\ Elements(A9) = IF r.tool = "alertmanager_delete" THEN AskedOf("silence", r.targets) ELSE {}
  BY <1>1, <1>2, AskElements DEF AlertmanagerGate
<1>a10. /\ A10 \in Seq(Asked)
        /\ Elements(A10) = IF r.tool = "jira_write" /\ r.owner = "absent"
                           THEN AskedOf("assignee", r.targets) ELSE {}
  BY <1>1, <1>2, AskElements DEF JiraGate
<1>3. Lookups(r) = A1 \o A2 \o A3 \o A4 \o A5 \o A6 \o A7 \o A8 \o A9 \o A10 BY DEF Lookups
<1> HIDE DEF A1, A2, A3, A4, A5, A6, A7, A8, A9, A10
<1>4. LookupsOf(r) = Elements(A1) \cup Elements(A2) \cup Elements(A3) \cup Elements(A4)
        \cup Elements(A5) \cup Elements(A6) \cup Elements(A7) \cup Elements(A8)
        \cup Elements(A9) \cup Elements(A10)
  BY <1>a1, <1>a2, <1>a3, <1>a4, <1>a5, <1>a6, <1>a7, <1>a8, <1>a9, <1>a10, Zenon DEF LookupsOf
<1> DEFINE B2 == A1 \o A2
           B3 == B2 \o A3
           B4 == B3 \o A4
           B5 == B4 \o A5
           B6 == B5 \o A6
           B7 == B6 \o A7
           B8 == B7 \o A8
           B9 == B8 \o A9
           B10 == B9 \o A10
<1>b2. B2 \in Seq(Asked) /\ Elements(B2) = Elements(A1) \cup Elements(A2)
  BY <1>a1, <1>a2, ConcatElements
<1>b3. B3 \in Seq(Asked) /\ Elements(B3) = Elements(B2) \cup Elements(A3)
  <2> HIDE DEF B2
  <2> QED BY <1>b2, <1>a3, ConcatElements
<1>b4. B4 \in Seq(Asked) /\ Elements(B4) = Elements(B3) \cup Elements(A4)
  <2> HIDE DEF B3
  <2> QED BY <1>b3, <1>a4, ConcatElements
<1>b5. B5 \in Seq(Asked) /\ Elements(B5) = Elements(B4) \cup Elements(A5)
  <2> HIDE DEF B4
  <2> QED BY <1>b4, <1>a5, ConcatElements
<1>b6. B6 \in Seq(Asked) /\ Elements(B6) = Elements(B5) \cup Elements(A6)
  <2> HIDE DEF B5
  <2> QED BY <1>b5, <1>a6, ConcatElements
<1>b7. B7 \in Seq(Asked) /\ Elements(B7) = Elements(B6) \cup Elements(A7)
  <2> HIDE DEF B6
  <2> QED BY <1>b6, <1>a7, ConcatElements
<1>b8. B8 \in Seq(Asked) /\ Elements(B8) = Elements(B7) \cup Elements(A8)
  <2> HIDE DEF B7
  <2> QED BY <1>b7, <1>a8, ConcatElements
<1>b9. B9 \in Seq(Asked) /\ Elements(B9) = Elements(B8) \cup Elements(A9)
  <2> HIDE DEF B8
  <2> QED BY <1>b8, <1>a9, ConcatElements
<1>b10. B10 \in Seq(Asked) /\ Elements(B10) = Elements(B9) \cup Elements(A10)
  <2> HIDE DEF B9
  <2> QED BY <1>b9, <1>a10, ConcatElements
<1>5. Lookups(r) = B10 BY <1>3
<1> HIDE DEF B2, B3, B4, B5, B6, B7, B8, B9, B10
<1> QED
  <2>1. Elements(B10) = LookupsOf(r)
    BY <1>4, <1>b2, <1>b3, <1>b4, <1>b5, <1>b6, <1>b7, <1>b8, <1>b9, <1>b10
  <2> QED BY <2>1, <1>5, <1>b10
-------------------------------------------------------------------------------
(* Which gates a request's lookups are for; those of a gate that decides   *)
(* by one object are one lookup.                                           *)
Fits(l, r) ==
  /\ l.gate \in {"ancestry", "author"} => r.tool = "notion_update"
  /\ l.gate = "issue" => r.tool \in {"linear_comment", "linear_issue"}
  /\ l.gate = "project" => r.tool = "linear_project"
  /\ l.gate = "service" => r.tool = "pagerduty_manage"
  /\ l.gate = "pr" => r.tool = "github_pr"
  /\ l.gate = "canonical" => r.tool \in GitlabTools
  /\ l.gate = "mr" => r.tool = "gitlab_mr"
  /\ l.gate = "silence" => r.tool = "alertmanager_delete"
  /\ l.gate = "assignee" => r.tool = "jira_write"

Many == {"ancestry", "author", "service", "canonical"}

LEMMA LookupsFit ==
  ASSUME NEW r \in Requests, NEW l \in Elements(Lookups(r))
  PROVE  l \in Asked /\ Fits(l, r)
<1>1. l \in LookupsOf(r) /\ Lookups(r) \in Seq(Asked) BY LookupsElements
<1>2. l \in Asked BY <1>1 DEF Elements
<1>3. Fits(l, r) BY <1>1 DEF LookupsOf, AskedOf, Fits
<1> QED BY <1>2, <1>3

LEMMA OneObject ==
  ASSUME NEW objects \in Seq(Objects), Len(objects) <= 1, NEW i \in DOMAIN objects
  PROVE  objects[i] = objects[1]
<1>1. DOMAIN objects = 1..Len(objects) /\ Len(objects) \in Nat OBVIOUS
<1> QED BY <1>1

LEMMA LookupsAlike ==
  ASSUME NEW r \in Requests,
         NEW l \in Elements(Lookups(r)), NEW m \in Elements(Lookups(r)),
         l.gate = m.gate, l.gate \notin Many
  PROVE  l = m
<1>1. l \in LookupsOf(r) /\ m \in LookupsOf(r) BY LookupsElements
<1>2. Fits(l, r) /\ l.gate \in Gates BY LookupsFit DEF Asked
<1>3. l.gate # "mr" => r.tool \notin {"notion_update", "pagerduty_manage"} \cup GitlabTools
  BY <1>2, <1>1 DEF Fits, Many, Gates, GitlabTools
<1>4. r.targets \in Seq(Objects) /\ r.items \in Seq(Objects) BY RequestsAssumption
<1>5. /\ l.gate # "mr" => Len(r.targets) <= 1
      /\ Len(r.items) <= 1
  BY <1>3, RequestsAssumption
<1>6. l.gate # "mr" => \A i \in DOMAIN r.targets : r.targets[i] = r.targets[1]
  BY <1>4, <1>5, OneObject
<1>7. \A i \in DOMAIN r.items : r.items[i] = r.items[1] BY <1>4, <1>5, OneObject
<1>8. ASSUME NEW n \in LookupsOf(r), n.gate = l.gate
      PROVE  n = [gate |-> l.gate, of |-> IF l.gate = "mr" THEN r.items[1] ELSE r.targets[1]]
  <2>1. CASE l.gate = "mr" BY <1>8, <1>7, <2>1 DEF LookupsOf, AskedOf
  <2>2. CASE l.gate # "mr" BY <1>8, <1>6, <2>2 DEF LookupsOf, AskedOf, Many
  <2> QED BY <2>1, <2>2
<1> QED BY <1>1, <1>8

-------------------------------------------------------------------------------
(* What an answer adds to the attributes, and that it takes nothing away.  *)

LEMMA LearnKeepsType ==
  ASSUME NEW r \in Requests, NEW a \in Attributes, NEW f \in Facts, NEW gate \in Gates,
         ~Refuses(gate, f)
  PROVE  Learn(a, r, gate, f) \in Attributes
<1>1. f.owner \in {"us", "them", "none"} /\ f.scope \in {"in", "out"} BY FactsAssumption
<1>2. LearnScope(a, r, gate, f) \in Attributes BY <1>1 DEF LearnScope, Attributes
<1> DEFINE b == LearnScope(a, r, gate, f)
<1> HIDE DEF b
<1>3. b \in Attributes BY <1>2 DEF b
<1>4. LearnAssignee(b, r, gate, f) \in Attributes BY <1>1, <1>3 DEF LearnAssignee, Attributes
<1> DEFINE d == LearnAssignee(b, r, gate, f)
<1> HIDE DEF d
<1>5. d \in Attributes BY <1>4 DEF d
<1>6. LearnAuthor(d, gate, f) \in Attributes BY <1>1, <1>5 DEF LearnAuthor, Attributes, Refuses, AuthorGates
<1>7. Learn(a, r, gate, f) = LearnAuthor(d, gate, f) BY DEF Learn, d, b
<1> QED BY <1>6, <1>7

Learned(b, a, r, gate, f) ==
  /\ b.scopes = IF SaysScope(gate, r) THEN a.scopes \cup {f.scope} ELSE a.scopes
  /\ b.verified = IF gate \in {"issue", "assignee"} /\ r.owner = "absent" THEN TRUE ELSE a.verified
  /\ b.owner = IF gate \in AuthorGates THEN f.owner
               ELSE IF gate = "author" /\ f.owner # "us" THEN "them"
               ELSE IF gate \in {"issue", "assignee"} /\ r.owner = "absent" /\ f.owner # "none"
                    THEN f.owner ELSE a.owner

LEMMA LearnFields ==
  ASSUME NEW r \in Requests, NEW a \in Attributes, NEW f \in Facts, NEW gate \in Gates
  PROVE  Learned(Learn(a, r, gate, f), a, r, gate, f)
<1> DEFINE b == LearnScope(a, r, gate, f)
           d == LearnAssignee(b, r, gate, f)
           e == LearnAuthor(d, gate, f)
<1>1. /\ b.scopes = IF SaysScope(gate, r) THEN a.scopes \cup {f.scope} ELSE a.scopes
      /\ b.verified = a.verified /\ b.owner = a.owner
      /\ b \in [scopes : {b.scopes}, owner : {b.owner}, verified : {b.verified}]
  BY DEF LearnScope, Attributes
<1> HIDE DEF b
<1>2. /\ d.scopes = b.scopes
      /\ d.verified = IF gate \in {"issue", "assignee"} /\ r.owner = "absent" THEN TRUE ELSE b.verified
      /\ d.owner = IF gate \in {"issue", "assignee"} /\ r.owner = "absent" /\ f.owner # "none"
                   THEN f.owner ELSE b.owner
      /\ d \in [scopes : {d.scopes}, owner : {d.owner}, verified : {d.verified}]
  BY <1>1 DEF LearnAssignee
<1> HIDE DEF d
<1>3. /\ e.scopes = d.scopes /\ e.verified = d.verified
      /\ e.owner = IF gate \in AuthorGates THEN f.owner
                   ELSE IF gate = "author" /\ f.owner # "us" THEN "them" ELSE d.owner
  BY <1>2 DEF LearnAuthor
<1>4. Learn(a, r, gate, f) = e BY DEF Learn, d, b
<1> HIDE DEF e
<1> QED BY <1>1, <1>2, <1>3, <1>4 DEF Learned, AuthorGates

LEMMA LearnKeepsClaims ==
  ASSUME NEW r \in Requests, NEW a \in Attributes, NEW f \in Facts,
         NEW l \in Elements(Lookups(r)), Claimed(r, a)
  PROVE  Claimed(r, Learn(a, r, l.gate, f))
<1>1. l.gate \in Gates /\ Fits(l, r) BY LookupsFit DEF Asked
<1>2. r.owner = "absent" \/ r.tool \in {"linear_issue", "jira_write"} BY RequestsAssumption
<1>3. r.owner # "absent" => l.gate \notin AuthorGates /\ l.gate # "author"
  BY <1>1, <1>2 DEF Fits, AuthorGates
<1>4. Learned(Learn(a, r, l.gate, f), a, r, l.gate, f) BY <1>1, LearnFields
<1>5. r.tool \notin GitlabTools /\ r.scope # "absent" => ~SaysScope(l.gate, r)
  BY <1>1 DEF Fits, SaysScope
<1> QED BY <1>3, <1>4, <1>5 DEF Claimed, Learned

(* The lookup that was answered is accounted for, *)
LEMMA LearnAnswers ==
  ASSUME NEW r \in Requests, NEW a \in Attributes,
         NEW seen \in [Objects -> SUBSET Facts], NEW l \in Asked,
         NEW f \in seen[l.of], ~Refuses(l.gate, f),
         Unasked(l, r, a) \/ Answered(l, r, a, seen)
  PROVE  Answered(l, r, Learn(a, r, l.gate, f), seen)
<1>1. l.gate \in Gates /\ l.of \in Objects /\ f \in Facts BY DEF Asked
<1>2. f.owner \in {"us", "them", "none"} /\ f.scope \in {"in", "out"} BY <1>1, FactsAssumption
<1>3. a.owner \in {"absent", "us", "them"} BY DEF Attributes
<1> DEFINE b == Learn(a, r, l.gate, f)
<1>0. Learned(b, a, r, l.gate, f) BY <1>1, LearnFields
<1> HIDE DEF b
<1>4. /\ l.gate = "ancestry" => f.scope = "in"
      /\ l.gate = "author" => f.owner = "us" \/ b.owner = "them"
      /\ l.gate \in AuthorGates => b.owner = f.owner
      /\ SaysScope(l.gate, r) => f.scope \in b.scopes
  BY <1>1, <1>2, <1>0 DEF Learned, AuthorGates, Refuses
<1>5. CASE l.gate \in {"issue", "assignee"} /\ r.owner = "absent" /\ f.owner # "none"
  <2>1. b.verified = TRUE /\ b.owner = f.owner BY <1>0, <1>5 DEF Learned, AuthorGates
  <2> QED BY <1>4, <2>1 DEF Answered, b
<1>6. CASE ~(l.gate \in {"issue", "assignee"} /\ r.owner = "absent")
  BY <1>4, <1>6 DEF Answered, b
<1>7. CASE l.gate \in {"issue", "assignee"} /\ r.owner = "absent" /\ f.owner = "none"
  <2>1. b.verified = TRUE /\ b.owner = a.owner BY <1>0, <1>7 DEF Learned, AuthorGates
  <2>2. CASE Unasked(l, r, a)
    <3>1. b.owner = "absent" BY <2>1, <2>2, <1>7 DEF Unasked
    <3> QED BY <1>4, <2>1, <3>1 DEF Answered, b
  <2>3. CASE Answered(l, r, a, seen)
    <3>1. PICK g \in seen[l.of] :
            /\ SaysScope(l.gate, r) => g.scope \in a.scopes
            /\ a.owner = g.owner \/ a.owner = "absent"
      BY <2>3, <1>7 DEF Answered
    <3>2. SaysScope(l.gate, r) => g.scope \in b.scopes
      BY <3>1, <1>0 DEF Learned
    <3> QED BY <3>1, <3>2, <2>1, <1>7 DEF Answered, AuthorGates, b
  <2> QED BY <2>2, <2>3
<1> QED BY <1>2, <1>5, <1>6, <1>7 DEF b

(* and those answered before still are.                                    *)
LEMMA LearnKeepsAnswers ==
  ASSUME NEW r \in Requests, NEW a \in Attributes, NEW seen \in [Objects -> SUBSET Facts],
         NEW l \in Elements(Lookups(r)), NEW f \in seen[l.of], ~Refuses(l.gate, f),
         NEW m \in Elements(Lookups(r)), m # l, Answered(m, r, a, seen)
  PROVE  Answered(m, r, Learn(a, r, l.gate, f), seen)
<1>1. l.gate \in Gates /\ m.gate \in Gates /\ Fits(l, r) /\ Fits(m, r) /\ f \in Facts
  BY LookupsFit DEF Asked
<1>2. l.gate = m.gate => l.gate \in Many BY LookupsAlike
<1> DEFINE b == Learn(a, r, l.gate, f)
<1>3. \/ l.gate \in {"ancestry", "author"} /\ m.gate \in {"ancestry", "author"}
      \/ l.gate = "service" /\ m.gate = "service"
      \/ l.gate \in {"canonical", "mr"} /\ m.gate \in {"canonical", "mr"} /\ l.gate # "mr"
      \/ l.gate = "mr" /\ m.gate = "canonical"
  BY <1>1, <1>2 DEF Fits, Gates, Many, GitlabTools
<1>4. PICK g \in seen[m.of] :
        /\ m.gate = "ancestry" => g.scope = "in"
        /\ m.gate = "author" => g.owner = "us" \/ a.owner = "them"
        /\ m.gate \in AuthorGates => a.owner = g.owner
        /\ SaysScope(m.gate, r) => g.scope \in a.scopes
  BY DEF Answered
<1>0. Learned(b, a, r, l.gate, f) BY <1>1, LearnFields
<1> HIDE DEF b
<1>5. /\ m.gate = "author" => g.owner = "us" \/ b.owner = "them"
      /\ m.gate \in AuthorGates => b.owner = g.owner
      /\ SaysScope(m.gate, r) => g.scope \in b.scopes
  BY <1>0, <1>3, <1>4 DEF Learned, AuthorGates
<1>6. m.gate \notin {"issue", "assignee"} BY <1>3
<1> QED BY <1>4, <1>5, <1>6 DEF Answered, b

-------------------------------------------------------------------------------
(* A call that no rule denies once all its lookups are accounted for.      *)

LEMMA ItsLookups ==
  ASSUME NEW r \in Requests, NEW i
  PROVE  /\ i \in DOMAIN r.targets =>
              /\ r.tool = "notion_update" =>
                   /\ [gate |-> "ancestry", of |-> r.targets[i]] \in Elements(Lookups(r))
                   /\ [gate |-> "author", of |-> r.targets[i]] \in Elements(Lookups(r))
              /\ r.tool = "linear_comment" \/ (r.tool = "linear_issue" /\ "absent" \in {r.scope, r.owner})
                   => [gate |-> "issue", of |-> r.targets[i]] \in Elements(Lookups(r))
              /\ r.tool = "linear_project" /\ r.scope = "absent"
                   => [gate |-> "project", of |-> r.targets[i]] \in Elements(Lookups(r))
              /\ r.tool = "pagerduty_manage"
                   => [gate |-> "service", of |-> r.targets[i]] \in Elements(Lookups(r))
              /\ r.tool = "github_pr"
                   => [gate |-> "pr", of |-> r.targets[i]] \in Elements(Lookups(r))
              /\ r.tool \in GitlabTools
                   => [gate |-> "canonical", of |-> r.targets[i]] \in Elements(Lookups(r))
              /\ r.tool = "alertmanager_delete"
                   => [gate |-> "silence", of |-> r.targets[i]] \in Elements(Lookups(r))
              /\ r.tool = "jira_write" /\ r.owner = "absent"
                   => [gate |-> "assignee", of |-> r.targets[i]] \in Elements(Lookups(r))
         /\ i \in DOMAIN r.items /\ r.tool = "gitlab_mr"
              => [gate |-> "mr", of |-> r.items[i]] \in Elements(Lookups(r))
<1>1. Elements(Lookups(r)) = LookupsOf(r) BY LookupsElements
<1>2. ASSUME i \in DOMAIN r.targets, NEW gate
      PROVE  [gate |-> gate, of |-> r.targets[i]] \in AskedOf(gate, r.targets)
  BY <1>2 DEF AskedOf
<1>3. ASSUME i \in DOMAIN r.items
      PROVE  [gate |-> "mr", of |-> r.items[i]] \in AskedOf("mr", r.items)
  BY <1>3 DEF AskedOf
<1> QED BY <1>1, <1>2, <1>3 DEF LookupsOf

LEMMA TargetIsObject ==
  ASSUME NEW r \in Requests
  PROVE  /\ \A i \in DOMAIN r.targets : r.targets[i] \in Objects
         /\ \A i \in DOMAIN r.items : r.items[i] \in Objects
<1>1. r.targets \in Seq(Objects) /\ r.items \in Seq(Objects) BY RequestsAssumption
<1> QED BY <1>1

LEMMA JudgedIsEarned ==
  ASSUME NEW r \in Requests, NEW a \in Attributes, NEW seen \in [Objects -> SUBSET Facts],
         \A o \in Objects : seen[o] # {},
         Claimed(r, a), ~Denies(r, a),
         \A l \in Elements(Lookups(r)) : Answered(l, r, a, seen)
  PROVE  Earned(r, seen)
<1>1. \A f \in Facts : f.owner \in {"us", "them", "none"} /\ f.scope \in {"in", "out"}
  BY FactsAssumption
<1>2. /\ a.owner \in {"absent", "us", "them"} /\ a.scopes \subseteq {"in", "out"}
      /\ r.scope \in {"absent", "in", "out"} /\ r.owner \in {"absent", "us", "them"}
  BY RequestsAssumption DEF Attributes
<1>3. ASSUME NEW i \in DOMAIN r.targets
      PROVE  LET o == r.targets[i] IN
             /\ r.tool \in {"linear_issue", "linear_comment"} => IssueEarned(r, seen, o)
             /\ r.tool \in {"notion_update", "linear_project", "pagerduty_manage"} =>
                  ScopeEarned(r, seen, o)
             /\ r.tool \in GitlabTools => r.scope # "out" /\ \E f \in seen[o] : f.scope = "in"
             /\ r.tool \in {"notion_update", "github_pr", "alertmanager_delete", "jira_write"} =>
                  OwnerEarned(r, seen, o)
  <2> DEFINE o == r.targets[i]
  <2>1. o \in Objects /\ seen[o] \subseteq Facts /\ seen[o] # {} BY TargetIsObject
  <2> DEFINE Ask1(gate) == [gate |-> gate, of |-> o]
  <2>3. ASSUME NEW gate, Ask1(gate) \in Elements(Lookups(r))
        PROVE  \E f \in seen[o] :
                 /\ gate = "ancestry" => f.scope = "in"
                 /\ gate = "author" => f.owner = "us" \/ a.owner = "them"
                 /\ gate \in AuthorGates => a.owner = f.owner
                 /\ SaysScope(gate, r) => f.scope \in a.scopes
                 /\ gate \in {"issue", "assignee"} /\ r.owner = "absent"
                      => a.verified /\ (a.owner = f.owner \/ a.owner = "absent")
    <3>1. Answered(Ask1(gate), r, a, seen) BY <2>3
    <3> QED BY <3>1 DEF Answered
  <2> HIDE DEF Ask1
  <2>4. /\ r.tool = "notion_update" => /\ Ask1("ancestry") \in Elements(Lookups(r))
                                       /\ Ask1("author") \in Elements(Lookups(r))
        /\ r.tool = "linear_comment" \/ (r.tool = "linear_issue" /\ "absent" \in {r.scope, r.owner})
             => Ask1("issue") \in Elements(Lookups(r))
        /\ r.tool = "linear_project" /\ r.scope = "absent"
             => Ask1("project") \in Elements(Lookups(r))
        /\ r.tool = "pagerduty_manage" => Ask1("service") \in Elements(Lookups(r))
        /\ r.tool = "github_pr" => Ask1("pr") \in Elements(Lookups(r))
        /\ r.tool \in GitlabTools => Ask1("canonical") \in Elements(Lookups(r))
        /\ r.tool = "alertmanager_delete" => Ask1("silence") \in Elements(Lookups(r))
        /\ r.tool = "jira_write" /\ r.owner = "absent" => Ask1("assignee") \in Elements(Lookups(r))
    BY ItsLookups DEF Ask1
  <2> HIDE DEF o
  <2>a. CASE r.tool \in {"linear_issue", "linear_comment"}
    <3>1. ~OutOfScope(a) /\ ~Foreign(a) /\ ~Unassigned(a) BY <2>a DEF Denies, LinearDenies
    <3>2. r.scope \in {"absent", "in"} /\ r.owner \in {"absent", "us"}
      BY <3>1, <1>2, <2>a DEF Claimed, OutOfScope, Foreign, GitlabTools
    <3>3. CASE Ask1("issue") \in Elements(Lookups(r))
      <4>1. PICK f \in seen[o] :
              /\ r.scope = "absent" => f.scope \in a.scopes
              /\ r.owner = "absent" => a.verified /\ (a.owner = f.owner \/ a.owner = "absent")
        BY <2>3, <3>3 DEF SaysScope
      <4>2. r.scope = "in" \/ f.scope = "in" BY <4>1, <3>1, <3>2, <1>1, <2>1 DEF OutOfScope
      <4>3. r.owner = "us" \/ f.owner = "us"
        BY <4>1, <3>1, <3>2, <1>1, <1>2, <2>1 DEF Foreign, Unassigned
      <4> QED BY <4>2, <4>3, <2>a DEF IssueEarned, o, GitlabTools
    <3>4. CASE Ask1("issue") \notin Elements(Lookups(r))
      <4>1. r.scope = "in" /\ r.owner = "us" BY <3>4, <3>2, <2>4, <2>a
      <4> QED BY <4>1, <2>1, <2>a DEF IssueEarned, o, GitlabTools
    <3> QED BY <3>3, <3>4
  <2>b. CASE r.tool = "notion_update"
    <3>1. ~Foreign(a) BY <2>b DEF Denies, NotionDenies
    <3>2. \E f \in seen[o] : f.scope = "in" BY <2>3, <2>4, <2>b
    <3>3. \E f \in seen[o] : f.owner = "us" BY <2>3, <2>4, <2>b, <3>1 DEF Foreign
    <3> QED BY <3>2, <3>3, <2>b DEF ScopeEarned, OwnerEarned, o, GitlabTools
  <2>c. CASE r.tool \in {"linear_project", "pagerduty_manage"}
    <3>1. ~OutOfScope(a) BY <2>c DEF Denies, LinearDenies, PagerdutyDenies
    <3>2. r.scope \in {"absent", "in"} BY <3>1, <1>2, <2>c DEF Claimed, OutOfScope, GitlabTools
    <3>3. CASE r.scope = "absent"
      <4>1. \E f \in seen[o] : f.scope \in a.scopes BY <2>3, <2>4, <2>c, <3>3 DEF SaysScope
      <4>2. \E f \in seen[o] : f.scope = "in" BY <4>1, <3>1, <1>1, <2>1 DEF OutOfScope
      <4> QED BY <4>2, <2>c DEF ScopeEarned, o, GitlabTools
    <3> QED BY <3>2, <3>3, <2>c DEF ScopeEarned, o, GitlabTools
  <2>f. CASE r.tool \in GitlabTools
    <3>1. ~OutOfScope(a) BY <2>f DEF Denies, GitlabDenies
    <3>2. r.scope # "out" BY <3>1, <1>2, <2>f DEF Claimed, OutOfScope
    <3>3. \E f \in seen[o] : f.scope \in a.scopes BY <2>3, <2>4, <2>f DEF SaysScope
    <3>4. \E f \in seen[o] : f.scope = "in" BY <3>1, <3>3, <1>1, <2>1 DEF OutOfScope
    <3> QED BY <3>2, <3>4, <2>f DEF GitlabTools, o
  <2>d. CASE r.tool \in {"github_pr", "alertmanager_delete"}
    <3>1. ~Foreign(a) BY <2>d DEF Denies, GithubDenies, AlertmanagerDenies
    <3>2. \E f \in seen[o] : a.owner = f.owner BY <2>3, <2>4, <2>d DEF AuthorGates
    <3>3. \E f \in seen[o] : f.owner = "us" BY <3>1, <3>2, <1>1, <1>2, <2>1 DEF Foreign
    <3> QED BY <3>3, <2>d DEF OwnerEarned, o, GitlabTools
  <2>e. CASE r.tool = "jira_write"
    <3>1. ~Foreign(a) /\ ~Unassigned(a) BY <2>e DEF Denies, JiraDenies
    <3>2. CASE r.owner = "absent"
      <4>1. \E f \in seen[o] : a.verified /\ (a.owner = f.owner \/ a.owner = "absent")
        BY <2>3, <2>4, <2>e, <3>2
      <4>2. \E f \in seen[o] : f.owner = "us"
        BY <4>1, <3>1, <1>1, <1>2, <2>1 DEF Foreign, Unassigned
      <4> QED BY <4>2, <2>e DEF OwnerEarned, o, GitlabTools
    <3>3. CASE r.owner # "absent"
      <4>1. r.owner = "us" BY <3>1, <3>3, <1>2 DEF Claimed, Foreign
      <4> QED BY <4>1, <2>e DEF OwnerEarned, GitlabTools
    <3> QED BY <3>2, <3>3
  <2> QED BY <2>a, <2>b, <2>c, <2>d, <2>e, <2>f
<1>4. ASSUME r.tool = "gitlab_mr", NEW i \in DOMAIN r.items
      PROVE  OwnerEarned(r, seen, r.items[i])
  <2> DEFINE l == [gate |-> "mr", of |-> r.items[i]]
  <2>1. Answered(l, r, a, seen) BY <1>4, ItsLookups
  <2>2. PICK f \in seen[r.items[i]] : a.owner = f.owner BY <2>1 DEF Answered, AuthorGates
  <2>3. r.items[i] \in Objects BY TargetIsObject
  <2>4. ~Foreign(a) BY <1>4 DEF Denies, GitlabDenies, GitlabTools
  <2>5. f.owner = "us" BY <2>2, <2>3, <2>4, <1>1, <1>2 DEF Foreign
  <2> QED BY <2>2, <2>5 DEF OwnerEarned
<1> QED BY <1>3, <1>4 DEF Earned

(* A fact seen later takes no answer away.                                 *)
LEMMA SeenMore ==
  ASSUME NEW l \in Asked, NEW r, NEW a, NEW seen, NEW more, seen[l.of] \subseteq more[l.of],
         Answered(l, r, a, seen)
  PROVE  Answered(l, r, a, more)
BY DEF Answered

-------------------------------------------------------------------------------
(* GateInv is inductive.                                                   *)

LEMMA IdleIsNoState == \A s \in CallStates : s # Idle /\ s.place # "idle"
BY DEF CallStates, Idle, Places

LEMMA GateInit == Init => GateInv
<1> SUFFICES ASSUME Init PROVE GateInv OBVIOUS
<1>1. TypeOK
  <2>1. world \in [Objects -> Facts] /\ recent \in [Objects -> SUBSET Facts] BY DEF Init
  <2>2. changes \in 0..MaxChanges BY ChangesAssumption DEF Init
  <2>3. calls \in [Calls -> CallStates \cup {Idle}] BY DEF Init
  <2> QED BY <2>1, <2>2, <2>3 DEF TypeOK
<1>2. Active = {} BY DEF Init, Active
<1>3. SeenInv BY <1>2 DEF Init, SeenInv
<1> QED BY <1>1, <1>2, <1>3 DEF GateInv

(* A step of one call that leaves the objects alone.                       *)
LEMMA OneStep ==
  ASSUME GateInv, NEW c \in Calls, Stays, NEW t, calls' = [calls EXCEPT ![c] = t],
         \/ t = Idle
         \/ /\ t \in CallStates /\ CallInv(t)
            /\ \A o \in Objects : recent[o] \subseteq t.seen[o]
  PROVE  GateInv'
<1>1. TypeOK /\ SeenInv /\ \A d \in Active : CallInv(calls[d]) BY DEF GateInv
<1>2. calls \in [Calls -> CallStates \cup {Idle}] BY <1>1 DEF TypeOK
<1>3. \A d \in Calls : calls'[d] = IF d = c THEN t ELSE calls[d] BY <1>2
<1>4. calls' \in [Calls -> CallStates \cup {Idle}] BY <1>2
<1>5. TypeOK' BY <1>1, <1>4 DEF TypeOK, Stays
<1>6. \A d \in Active' : \/ d = c /\ t # Idle /\ calls'[d] = t
                         \/ d \in Active /\ calls'[d] = calls[d]
  BY <1>3 DEF Active
<1>7. SeenInv'
  <2>1. \A o \in Objects : world'[o] \in recent'[o] BY <1>1 DEF SeenInv, Stays
  <2>2. ASSUME NEW o \in Objects, NEW d \in Active' PROVE recent'[o] \subseteq calls'[d].seen[o]
    BY <1>1, <1>6, <2>2 DEF SeenInv, Stays
  <2> QED BY <2>1, <2>2 DEF SeenInv
<1>8. \A d \in Active' : CallInv(calls'[d]) BY <1>1, <1>6
<1>9. (\A d \in Active : CallInv(calls[d]))' BY <1>8 DEF CallInv
<1> QED BY <1>5, <1>7, <1>9 DEF GateInv

(* What a call in CheckRequest is.                                         *)
LEMMA AtPlace ==
  ASSUME GateInv, NEW c \in Calls, calls[c].place # "idle"
  PROVE  /\ calls[c] \in CallStates /\ CallInv(calls[c])
         /\ \A o \in Objects : recent[o] \subseteq calls[c].seen[o]
<1>1. calls[c] \in CallStates BY DEF GateInv, TypeOK, Idle
<1>2. c \in Active BY DEF Active, Idle
<1> QED BY <1>1, <1>2 DEF GateInv, SeenInv

(* A call goes on to a place where nothing more is promised of it.         *)
LEMMA Going ==
  ASSUME GateInv, NEW c \in Calls, calls[c].place # "idle", NEW p \in Places, Stays, Goes(c, p),
         CallInv([calls[c] EXCEPT !.place = p])
  PROVE  GateInv'
<1> DEFINE t == [calls[c] EXCEPT !.place = p]
<1>1. calls' = [calls EXCEPT ![c] = t] BY DEF Goes
<1>2. calls[c] \in CallStates /\ \A o \in Objects : recent[o] \subseteq calls[c].seen[o] BY AtPlace
<1>3. t \in CallStates /\ t.seen = calls[c].seen BY <1>2 DEF CallStates
<1>4. CallInv(t) OBVIOUS
<1> HIDE DEF t
<1> QED BY <1>1, <1>2, <1>3, <1>4, OneStep

LEMMA Placed ==
  ASSUME NEW s \in CallStates, NEW p
  PROVE  LET t == [s EXCEPT !.place = p] IN
         /\ t.place = p /\ t.req = s.req /\ t.attr = s.attr /\ t.todo = s.todo
         /\ t.seen = s.seen /\ t.text = s.text /\ t.forced = s.forced
BY DEF CallStates

LEMMA DeniedInv ==
  ASSUME NEW s \in CallStates, CallInv(s) PROVE CallInv([s EXCEPT !.place = "denied"])
<1> DEFINE t == [s EXCEPT !.place = "denied"]
<1>1. t.place = "denied" /\ t.req = s.req /\ t.attr = s.attr BY Placed
<1> HIDE DEF t
<1>2. CallInv(t) BY <1>1 DEF CallInv
<1> QED BY <1>2 DEF t

(* A refusal ends every promise.                                           *)
LEMMA Denying ==
  ASSUME GateInv, NEW c \in Calls, calls[c].place # "idle", Stays, Goes(c, "denied")
  PROVE  GateInv'
<1>1. calls[c] \in CallStates /\ CallInv(calls[c]) BY AtPlace
<1>2. CallInv([calls[c] EXCEPT !.place = "denied"]) BY <1>1, DeniedInv
<1>3. "denied" \in Places BY DEF Places
<1> QED BY <1>2, <1>3, Going

LEMMA ArriveStep ==
  ASSUME GateInv, NEW c \in Calls, NEW r \in Requests, Arrive(c, r)
  PROVE  GateInv'
<1> DEFINE t == [place |-> "screened", req |-> r, todo |-> <<>>,
                 attr |-> Eval(r), text |-> r.text, forced |-> "none", seen |-> recent]
<1>1. r.scope \in {"absent", "in", "out"} /\ r.owner \in {"absent", "us", "them"} /\ r.text \in Texts
  BY RequestsAssumption
<1>2. Eval(r) \in Attributes BY <1>1 DEF Eval, Attributes
<1>3. recent \in [Objects -> SUBSET Facts] BY DEF GateInv, TypeOK
<1>4. <<>> \in Seq(Asked) OBVIOUS
<1>5. t \in CallStates BY <1>1, <1>2, <1>3, <1>4 DEF CallStates, Places
<1>6. Claimed(r, Eval(r)) BY DEF Claimed, Eval
<1>7. CallInv(t) BY <1>6 DEF CallInv
<1>8. calls' = [calls EXCEPT ![c] = t] /\ Stays BY DEF Arrive
<1>9. t.seen = recent OBVIOUS
<1> HIDE DEF t
<1> QED BY <1>5, <1>7, <1>8, <1>9, OneStep

LEMMA ScreenStep ==
  ASSUME GateInv, NEW c \in Calls, Screen(c)
  PROVE  GateInv'
<1>1. calls[c].place = "screened" /\ Stays BY DEF Screen
<1>2. calls[c] \in CallStates /\ CallInv(calls[c]) BY <1>1, AtPlace
<1>3. CASE Goes(c, "denied") BY <1>1, <1>3, Denying
<1>4. CASE Goes(c, "unmoderated")
  <2> DEFINE t == [calls[c] EXCEPT !.place = "unmoderated"]
  <2>1. t.place = "unmoderated" /\ t.req = calls[c].req /\ t.attr = calls[c].attr BY <1>2, Placed
  <2> HIDE DEF t
  <2>2. CallInv(t) BY <1>1, <1>2, <2>1 DEF CallInv
  <2>3. "unmoderated" \in Places BY DEF Places
  <2> QED BY <1>1, <1>4, <2>2, <2>3, Going DEF t
<1>5. CASE Goes(c, "passed") /\ calls[c].req.shape # "call"
  <2> DEFINE t == [calls[c] EXCEPT !.place = "passed"]
  <2>1. t.place = "passed" /\ t.req = calls[c].req /\ t.attr = calls[c].attr BY <1>2, Placed
  <2> HIDE DEF t
  <2>2. CallInv(t) BY <1>2, <1>5, <2>1 DEF CallInv
  <2>3. "passed" \in Places BY DEF Places
  <2> QED BY <1>1, <1>5, <2>2, <2>3, Going DEF t
<1> QED BY <1>3, <1>4, <1>5 DEF Screen

LEMMA ModerateStep ==
  ASSUME GateInv, NEW c \in Calls, Moderate(c)
  PROVE  GateInv'
<1>1. calls[c].place = "unmoderated" /\ Stays BY DEF Moderate
<1>2. calls[c] \in CallStates /\ CallInv(calls[c]) BY <1>1, AtPlace
<1>3. CASE Goes(c, "denied") BY <1>1, <1>3, Denying
<1>4. CASE Goes(c, "unmapped")
  <2> DEFINE t == [calls[c] EXCEPT !.place = "unmapped"]
  <2>1. t.place = "unmapped" /\ t.req = calls[c].req /\ t.attr = calls[c].attr BY <1>2, Placed
  <2> HIDE DEF t
  <2>2. CallInv(t) BY <1>1, <1>2, <2>1 DEF CallInv
  <2>3. "unmapped" \in Places BY DEF Places
  <2> QED BY <1>1, <1>4, <2>2, <2>3, Going DEF t
<1> QED BY <1>3, <1>4 DEF Moderate

LEMMA MapStep ==
  ASSUME GateInv, NEW c \in Calls, Map(c)
  PROVE  GateInv'
<1>1. calls[c].place = "unmapped" /\ Stays BY DEF Map
<1>2. /\ calls[c] \in CallStates /\ CallInv(calls[c])
      /\ \A o \in Objects : recent[o] \subseteq calls[c].seen[o]
  BY <1>1, AtPlace
<1> DEFINE r == calls[c].req
           a == calls[c].attr
<1>3. r \in Requests /\ a = Eval(r) /\ Claimed(r, a) BY <1>1, <1>2 DEF CallInv, CallStates
<1>4. CASE Goes(c, "denied") BY <1>1, <1>4, Denying
<1>5. CASE Goes(c, "passed") /\ r.tool = "unmapped"
  <2> DEFINE t == [calls[c] EXCEPT !.place = "passed"]
  <2>1. t.place = "passed" /\ t.req = calls[c].req /\ t.attr = calls[c].attr BY <1>2, Placed
  <2> HIDE DEF t
  <2>2. CallInv(t) BY <1>2, <1>5, <2>1 DEF CallInv
  <2>3. "passed" \in Places BY DEF Places
  <2> QED BY <1>1, <1>5, <2>2, <2>3, Going DEF t
<1>6. CASE calls' = [calls EXCEPT ![c].place = "gated", ![c].todo = Lookups(calls[c].req)]
  <2> DEFINE t == [calls[c] EXCEPT !.place = "gated", !.todo = Lookups(r)]
  <2>1. Lookups(r) \in Seq(Asked) BY <1>3, LookupsElements
  <2>2. /\ t.place = "gated" /\ t.req = r /\ t.attr = a /\ t.todo = Lookups(r)
        /\ t.seen = calls[c].seen
    BY <1>2 DEF CallStates
  <2>3. t \in CallStates BY <1>2, <2>1 DEF CallStates, Places
  <2>4. calls' = [calls EXCEPT ![c] = t]
    <3>1. calls \in [Calls -> CallStates \cup {Idle}] BY DEF GateInv, TypeOK
    <3> QED BY <1>6, <3>1
  <2> HIDE DEF t
  <2>5. \A l \in Elements(Lookups(r)) : Unasked(l, r, a) BY <1>3 DEF Unasked, Eval
  <2>6. CallInv(t) BY <1>3, <2>2, <2>5 DEF CallInv
  <2> QED BY <1>1, <1>2, <2>2, <2>3, <2>4, <2>6, OneStep
<1> QED BY <1>4, <1>5, <1>6 DEF Map

LEMMA LookUpStep ==
  ASSUME GateInv, NEW c \in Calls, LookUp(c)
  PROVE  GateInv'
<1>1. calls[c].place = "gated" /\ calls[c].todo # <<>> /\ Stays BY DEF LookUp
<1>2. /\ calls[c] \in CallStates /\ CallInv(calls[c])
      /\ \A o \in Objects : recent[o] \subseteq calls[c].seen[o]
  BY <1>1, AtPlace
<1> DEFINE s == calls[c]
           r == s.req
           a == s.attr
           l == Head(s.todo)
<1>3. CASE Goes(c, "denied") BY <1>1, <1>3, Denying
<1>4. ASSUME NEW f \in recent[l.of], ~Refuses(l.gate, f),
             calls' = [calls EXCEPT ![c].todo = Tail(@), ![c].attr = Learn(@, r, l.gate, f)]
      PROVE  GateInv'
  <2> DEFINE b == Learn(a, r, l.gate, f)
             t == [s EXCEPT !.todo = Tail(s.todo), !.attr = b]
  <2>1. /\ r \in Requests /\ a \in Attributes /\ s.todo \in Seq(Asked)
        /\ s.seen \in [Objects -> SUBSET Facts]
    BY <1>2 DEF CallStates
  <2>2. /\ l \in Asked /\ Tail(s.todo) \in Seq(Asked)
        /\ Elements(s.todo) = {l} \cup Elements(Tail(s.todo))
    BY <1>1, <2>1, TailElements
  <2>3. /\ Claimed(r, a)
        /\ Elements(s.todo) \subseteq Elements(Lookups(r))
        /\ \A m \in Elements(Lookups(r)) :
             (m \in Elements(s.todo) /\ Unasked(m, r, a)) \/ Answered(m, r, a, s.seen)
    BY <1>1, <1>2 DEF CallInv
  <2>4. l \in Elements(Lookups(r)) BY <2>2, <2>3
  <2>5. f \in s.seen[l.of] /\ f \in Facts /\ l.gate \in Gates BY <1>2, <1>4, <2>1, <2>2 DEF Asked
  <2>6. b \in Attributes BY <1>4, <2>1, <2>5, LearnKeepsType
  <2>7. Claimed(r, b) BY <2>1, <2>3, <2>4, <2>5, LearnKeepsClaims
  <2>8. Answered(l, r, b, s.seen)
    <3>1. Unasked(l, r, a) \/ Answered(l, r, a, s.seen) BY <2>3, <2>4
    <3> QED BY <1>4, <2>1, <2>2, <2>5, <3>1, LearnAnswers
  <2>9. ASSUME NEW m \in Elements(Lookups(r)), m # l
        PROVE  (m \in Elements(Tail(s.todo)) /\ Unasked(m, r, b)) \/ Answered(m, r, b, s.seen)
    <3>1. CASE Answered(m, r, a, s.seen)
      BY <1>4, <2>1, <2>4, <2>5, <2>9, <3>1, LearnKeepsAnswers
    <3>2. CASE m \in Elements(s.todo) /\ Unasked(m, r, a)
      <4>1. m \in Elements(Tail(s.todo)) BY <2>2, <2>9, <3>2
      <4>2. Fits(l, r) /\ Fits(m, r) BY <2>1, <2>4, LookupsFit
      <4>3. m.gate \in {"issue", "assignee"} => m.gate = l.gate
        BY <2>5, <4>2 DEF Fits, Gates, GitlabTools
      <4>4. m.gate \notin {"issue", "assignee"}
        BY <2>1, <2>4, <2>9, <4>3, LookupsAlike DEF Many
      <4> QED BY <4>1, <4>4 DEF Unasked
    <3> QED BY <2>3, <3>1, <3>2
  <2>10. /\ t.place = "gated" /\ t.req = r /\ t.attr = b /\ t.todo = Tail(s.todo) /\ t.seen = s.seen
         /\ t \in CallStates
    <3> HIDE DEF b
    <3> QED BY <1>1, <1>2, <2>2, <2>6 DEF CallStates
  <2>11. calls' = [calls EXCEPT ![c] = t]
    <3>1. calls \in [Calls -> CallStates \cup {Idle}] BY DEF GateInv, TypeOK
    <3> QED BY <1>4, <3>1
  <2> HIDE DEF t, b
  <2>12. CallInv(t)
    <3>1. Elements(Tail(s.todo)) \subseteq Elements(Lookups(r)) BY <2>2, <2>3
    <3> HIDE DEF l, s
    <3> QED BY <2>7, <2>8, <2>9, <2>10, <3>1 DEF CallInv
  <2> QED BY <1>1, <1>2, <2>10, <2>11, <2>12, OneStep
<1> QED BY <1>1, <1>3, <1>4 DEF LookUp

LEMMA DecideStep ==
  ASSUME GateInv, NEW c \in Calls, Decide(c)
  PROVE  GateInv'
<1>1. calls[c].place = "gated" /\ calls[c].todo = <<>> /\ Stays BY DEF Decide
<1>2. calls[c] \in CallStates /\ CallInv(calls[c]) BY <1>1, AtPlace
<1>3. CASE Goes(c, "denied") BY <1>1, <1>3, Denying
<1>4. CASE ~Denies(calls[c].req, calls[c].attr) /\ Goes(c, "allowed")
  <2> DEFINE t == [calls[c] EXCEPT !.place = "allowed"]
  <2>1. /\ t.place = "allowed" /\ t.req = calls[c].req /\ t.attr = calls[c].attr
        /\ t.seen = calls[c].seen
    BY <1>2, Placed
  <2> HIDE DEF t
  <2>2. Elements(calls[c].todo) = {} BY <1>1, EmptyElements
  <2>3. CallInv(t) BY <1>1, <1>2, <1>4, <2>1, <2>2 DEF CallInv
  <2>4. "allowed" \in Places BY DEF Places
  <2> QED BY <1>1, <1>4, <2>3, <2>4, Going DEF t
<1> QED BY <1>3, <1>4 DEF Decide

LEMMA RedactStep ==
  ASSUME GateInv, NEW c \in Calls, Redact(c)
  PROVE  GateInv'
<1>1. calls[c].place = "allowed" /\ Stays BY DEF Redact
<1>2. /\ calls[c] \in CallStates /\ CallInv(calls[c])
      /\ \A o \in Objects : recent[o] \subseteq calls[c].seen[o]
  BY <1>1, AtPlace
<1> DEFINE text == IF calls[c].text = "secret" THEN "masked" ELSE calls[c].text
           t == [calls[c] EXCEPT !.place = "redacted", !.text = text]
<1>3. text \in Texts /\ text # "secret" BY <1>2 DEF CallStates, Texts
<1>4. calls' = [calls EXCEPT ![c] = t]
  <2>1. calls \in [Calls -> CallStates \cup {Idle}] BY DEF GateInv, TypeOK
  <2> QED BY <1>2, <2>1 DEF Redact, CallStates
<1> HIDE DEF text
<1>5. /\ t.place = "redacted" /\ t.req = calls[c].req /\ t.attr = calls[c].attr
      /\ t.seen = calls[c].seen /\ t.text = text /\ t \in CallStates
  BY <1>2, <1>3 DEF CallStates, Places
<1> HIDE DEF t
<1>6. CallInv(t) BY <1>1, <1>2, <1>3, <1>5 DEF CallInv
<1> QED BY <1>1, <1>2, <1>4, <1>5, <1>6, OneStep

LEMMA ForceStep ==
  ASSUME GateInv, NEW c \in Calls, ForceArguments(c)
  PROVE  GateInv'
<1> DEFINE s == calls[c]
           forced == ForceOverrides(s.req, s.text)
           t == [s EXCEPT !.place = "mutated", !.forced = forced]
<1>1. s.place = "redacted" /\ Stays BY DEF ForceArguments
<1>2. /\ s \in CallStates /\ CallInv(s)
      /\ \A o \in Objects : recent[o] \subseteq s.seen[o]
  BY <1>1, AtPlace
<1>3. CASE Goes(c, "denied") BY <1>1, <1>3, Denying
<1>4. CASE forced = "none" /\ s.text = s.req.text /\ Goes(c, "passed")
  <2> DEFINE u == [s EXCEPT !.place = "passed"]
  <2>1. /\ u.place = "passed" /\ u.req = s.req /\ u.attr = s.attr
        /\ u.seen = s.seen /\ u.text = s.text
    BY <1>2, Placed
  <2> HIDE DEF u
  <2>2. CallInv(u) BY <1>1, <1>2, <1>4, <2>1 DEF CallInv
  <2>3. "passed" \in Places BY DEF Places
  <2> QED BY <1>1, <1>4, <2>2, <2>3, Going DEF u
<1>5. CASE calls' = [calls EXCEPT ![c].place = "mutated", ![c].forced = forced]
  <2>1. forced \in {"none", "fixed"} \cup Texts BY <1>2 DEF CallStates, ForceOverrides
  <2>2. calls' = [calls EXCEPT ![c] = t]
    <3>1. calls \in [Calls -> CallStates \cup {Idle}] BY DEF GateInv, TypeOK
    <3> QED BY <1>5, <3>1
  <2>3. /\ t.place = "mutated" /\ t.req = s.req /\ t.attr = s.attr
        /\ t.seen = s.seen /\ t.text = s.text /\ t.forced = forced /\ t \in CallStates
    <3> HIDE DEF forced
    <3> QED BY <1>2, <2>1 DEF CallStates, Places
  <2> HIDE DEF t
  <2>4. CallInv(t) BY <1>1, <1>2, <2>3 DEF CallInv
  <2> QED BY <1>1, <1>2, <2>2, <2>3, <2>4, OneStep
<1> QED BY <1>3, <1>4, <1>5 DEF ForceArguments

LEMMA LeaveStep ==
  ASSUME GateInv, NEW c \in Calls, Stays, calls' = [calls EXCEPT ![c] = Idle]
  PROVE  GateInv'
BY OneStep

(* An object changes, and every call under way may have seen it change.    *)
LEMMA ObjectStep ==
  ASSUME GateInv, NEW o \in Objects, NEW f \in Facts, Becomes(o, f), changes' \in 0..MaxChanges,
         NEW gone \in SUBSET Calls,
         calls' = [d \in Calls |-> calls'[d]],
         \A d \in Calls : calls'[d] = IF d \in gone \/ calls[d] = Idle THEN Idle
                                      ELSE [calls[d] EXCEPT !.seen[o] = @ \cup {f}]
  PROVE  GateInv'
<1> DEFINE Sees(s) == [s EXCEPT !.seen[o] = @ \cup {f}]
<1>0. \A d \in Calls : calls'[d] = IF d \in gone \/ calls[d] = Idle THEN Idle ELSE Sees(calls[d])
  OBVIOUS
<1>1. TypeOK /\ SeenInv BY DEF GateInv
<1>2. /\ world \in [Objects -> Facts] /\ recent \in [Objects -> SUBSET Facts]
      /\ calls \in [Calls -> CallStates \cup {Idle}]
  BY <1>1 DEF TypeOK
<1>3. /\ \A p \in Objects : world'[p] = IF p = o THEN f ELSE world[p]
      /\ \A p \in Objects : recent'[p] = IF p = o THEN recent[p] \cup {f} ELSE recent[p]
      /\ world' \in [Objects -> Facts] /\ recent' \in [Objects -> SUBSET Facts]
  BY <1>2 DEF Becomes
<1>4. ASSUME NEW s \in CallStates
      PROVE  /\ Sees(s) \in CallStates
             /\ Sees(s).place = s.place /\ Sees(s).req = s.req
             /\ Sees(s).attr = s.attr /\ Sees(s).todo = s.todo /\ Sees(s).text = s.text
             /\ Sees(s).forced = s.forced
             /\ \A p \in Objects : Sees(s).seen[p] = IF p = o THEN s.seen[p] \cup {f} ELSE s.seen[p]
  <2>1. s.seen \in [Objects -> SUBSET Facts] BY DEF CallStates
  <2>2. [s.seen EXCEPT ![o] = @ \cup {f}] \in [Objects -> SUBSET Facts] BY <2>1
  <2> QED BY <2>1, <2>2 DEF CallStates
<1> HIDE DEF Sees
<1>5. ASSUME NEW d \in Active'
      PROVE  calls[d] \in CallStates /\ d \in Active /\ calls'[d] = Sees(calls[d])
  BY <1>0, <1>2, <1>5 DEF Active
<1>6. calls' \in [Calls -> CallStates \cup {Idle}]
  <2>1. ASSUME NEW d \in Calls PROVE calls'[d] \in CallStates \cup {Idle}
    <3>1. CASE d \in gone \/ calls[d] = Idle BY <1>0, <3>1
    <3>2. CASE ~(d \in gone \/ calls[d] = Idle)
      <4>1. calls[d] \in CallStates BY <1>2, <3>2
      <4> QED BY <1>0, <1>4, <4>1, <3>2
    <3> QED BY <3>1, <3>2
  <2> QED BY <2>1
<1>7. TypeOK' BY <1>3, <1>6 DEF TypeOK
<1>8. SeenInv'
  <2>1. \A p \in Objects : world'[p] \in recent'[p] BY <1>1, <1>3 DEF SeenInv
  <2>2. ASSUME NEW p \in Objects, NEW d \in Active' PROVE recent'[p] \subseteq calls'[d].seen[p]
    <3>1. recent[p] \subseteq calls[d].seen[p] BY <1>1, <1>5 DEF SeenInv
    <3>2. Sees(calls[d]).seen[p] = IF p = o THEN calls[d].seen[p] \cup {f} ELSE calls[d].seen[p]
      BY <1>4, <1>5
    <3> QED BY <1>3, <1>5, <3>1, <3>2
  <2> QED BY <2>1, <2>2 DEF SeenInv
<1>9. ASSUME NEW d \in Active' PROVE CallInv(calls'[d])
  <2> DEFINE s == calls[d]
             t == calls'[d]
  <2>1. CallInv(s) /\ s \in CallStates /\ t = Sees(s) BY <1>5 DEF GateInv
  <2> HIDE DEF s, t
  <2>2. /\ t.place = s.place /\ t.req = s.req /\ t.attr = s.attr /\ t.todo = s.todo
        /\ t.text = s.text /\ t.forced = s.forced
        /\ \A p \in Objects : s.seen[p] \subseteq t.seen[p]
    BY <1>4, <2>1
  <2>3. s.req \in Requests BY <2>1 DEF CallStates
  <2>4. ASSUME NEW m \in Elements(Lookups(s.req)), Answered(m, s.req, s.attr, s.seen)
        PROVE  Answered(m, s.req, s.attr, t.seen)
    <3>1. m \in Asked BY <2>3, LookupsFit
    <3>2. s.seen[m.of] \subseteq t.seen[m.of] BY <2>2, <3>1 DEF Asked
    <3> QED BY <2>4, <3>1, <3>2, SeenMore
  <2>5. CallInv(t) BY <2>1, <2>2, <2>4 DEF CallInv
  <2> QED BY <2>5 DEF t
<1>10. (\A d \in Active : CallInv(calls[d]))' BY <1>9 DEF CallInv
<1> QED BY <1>7, <1>8, <1>10 DEF GateInv

LEMMA LandStep ==
  ASSUME GateInv, NEW c \in Calls, Land(c)
  PROVE  GateInv'
<1>1. Forwarded(c) /\ UNCHANGED changes BY DEF Land
<1>2. calls[c] \in CallStates BY <1>1, AtPlace DEF Forwarded
<1> DEFINE r == calls[c].req
           o == r.targets[1]
           f == [owner |-> IF r.owner = "absent" THEN world[o].owner ELSE r.owner,
                 scope |-> IF r.scope = "absent" THEN world[o].scope ELSE r.scope]
<1>3. CASE r.tool \in {"linear_issue", "jira_write"} /\ r.targets # <<>>
  <2>1. Becomes(o, f) BY <1>3 DEF Land
  <2>2. /\ calls' = [d \in Calls |-> calls'[d]]
        /\ \A d \in Calls : calls'[d] = IF d \in {c} \/ calls[d] = Idle THEN Idle
                                        ELSE [calls[d] EXCEPT !.seen[o] = @ \cup {f}]
    BY <1>3 DEF Land
  <2>3. o \in Objects
    <3>1. r \in Requests /\ r.targets \in Seq(Objects) BY <1>2, RequestsAssumption DEF CallStates
    <3> QED BY <1>3, <3>1
  <2>4. f \in Facts
    <3>1. CallInv(calls[c]) /\ r \in Requests /\ calls[c].attr \in Attributes
      BY <1>1, <1>2, AtPlace DEF Forwarded, CallStates
    <3>2. r.shape = "call" BY <1>3, <3>1, RequestsAssumption
    <3>3. Claimed(r, calls[c].attr) /\ ~Denies(r, calls[c].attr)
      BY <1>1, <1>3, <3>1, <3>2 DEF CallInv, Forwarded
    <3>4. ~OutOfScope(calls[c].attr) /\ ~Foreign(calls[c].attr)
      BY <1>3, <3>3 DEF Denies, LinearDenies, JiraDenies
    <3>5. r.scope \in {"absent", "in"} /\ r.owner \in {"absent", "us"}
      BY <1>3, <3>1, <3>3, <3>4, RequestsAssumption DEF Claimed, OutOfScope, Foreign, GitlabTools
    <3>6. world[o] \in Facts BY <2>3 DEF GateInv, TypeOK
    <3> DEFINE g == [owner |-> IF r.owner = "absent" THEN world[o].owner ELSE r.owner,
                     scope |-> world[o].scope]
    <3> HIDE DEF o
    <3>7. g \in Facts
      <4>1. CASE r.owner = "absent" BY <4>1, <3>6, FactsAssumption
      <4>2. CASE r.owner = "us"
        <5>1. [world[o] EXCEPT !.owner = "us"] \in Facts BY <3>6, FactsAssumption
        <5>2. g = [world[o] EXCEPT !.owner = "us"] BY <4>2, <3>6, FactsAssumption
        <5> QED BY <5>1, <5>2
      <4> QED BY <3>5, <4>1, <4>2
    <3>8. CASE r.scope = "absent"
      <4>1. f = g BY <3>8
      <4> QED BY <4>1, <3>7
    <3>9. CASE r.scope = "in"
      <4>1. [g EXCEPT !.scope = "in"] \in Facts BY <3>7, FactsAssumption
      <4>2. f = [g EXCEPT !.scope = "in"] BY <3>9
      <4> QED BY <4>1, <4>2
    <3> QED BY <3>5, <3>8, <3>9
  <2>5. changes' \in 0..MaxChanges BY <1>1 DEF GateInv, TypeOK
  <2> HIDE DEF f, o
  <2> QED BY <2>1, <2>2, <2>3, <2>4, <2>5, ObjectStep
<1>4. CASE ~(r.tool \in {"linear_issue", "jira_write"} /\ r.targets # <<>>)
  <2>1. Stays /\ calls' = [calls EXCEPT ![c] = Idle] BY <1>1, <1>4 DEF Land, Stays
  <2> QED BY <2>1, LeaveStep
<1> QED BY <1>3, <1>4

LEMMA ExpireStep ==
  ASSUME GateInv, NEW o \in Objects, Expire(o)
  PROVE  GateInv'
<1>1. TypeOK /\ SeenInv /\ UNCHANGED <<world, changes, calls>> BY DEF GateInv, Expire
<1>2. recent \in [Objects -> SUBSET Facts] /\ world \in [Objects -> Facts] BY <1>1 DEF TypeOK
<1>3. /\ recent' \in [Objects -> SUBSET Facts]
      /\ \A p \in Objects : recent'[p] = IF p = o THEN {world[p]} ELSE recent[p]
  BY <1>2 DEF Expire
<1>4. TypeOK' BY <1>1, <1>3 DEF TypeOK
<1>5. SeenInv' BY <1>1, <1>3 DEF SeenInv, Active
<1>6. (\A d \in Active : CallInv(calls[d]))' BY <1>1 DEF GateInv, Active, CallInv
<1> QED BY <1>4, <1>5, <1>6 DEF GateInv

LEMMA GateStep == GateInv /\ [Next]_vars => GateInv'
<1> SUFFICES ASSUME GateInv, [Next]_vars PROVE GateInv' OBVIOUS
<1>1. ASSUME NEW c \in Calls, NEW r \in Requests, Arrive(c, r) PROVE GateInv' BY <1>1, ArriveStep
<1>2. ASSUME NEW c \in Calls,
             \/ Screen(c) \/ Moderate(c) \/ Map(c) \/ LookUp(c) \/ Decide(c)
             \/ Redact(c) \/ ForceArguments(c) \/ Land(c)
      PROVE  GateInv'
  BY <1>2, ScreenStep, ModerateStep, MapStep, LookUpStep, DecideStep, RedactStep, ForceStep, LandStep
<1>3. ASSUME NEW c \in Calls, Refused(c) PROVE GateInv' BY <1>3, LeaveStep DEF Refused
<1>4. ASSUME NEW o \in Objects, Expire(o) PROVE GateInv' BY <1>4, ExpireStep
<1>5. ASSUME NEW o \in Objects, NEW f \in Facts, WorldChanges(o, f) PROVE GateInv'
  <2> DEFINE gone == {}
  <2>1. /\ calls' = [c \in Calls |-> calls'[c]]
        /\ \A c \in Calls : calls'[c] = IF c \in gone \/ calls[c] = Idle THEN Idle
                                        ELSE [calls[c] EXCEPT !.seen[o] = @ \cup {f}]
    BY <1>5 DEF WorldChanges
  <2>2. changes' \in 0..MaxChanges BY <1>5, ChangesAssumption DEF WorldChanges, GateInv, TypeOK
  <2>3. Becomes(o, f) /\ gone \in SUBSET Calls BY <1>5 DEF WorldChanges
  <2> HIDE DEF gone
  <2> QED BY <2>1, <2>2, <2>3, ObjectStep
<1>6. CASE UNCHANGED vars
  <2>1. Stays /\ UNCHANGED calls BY <1>6 DEF vars, Stays
  <2>2. UNCHANGED <<world, recent, changes, calls>> BY <1>6 DEF vars
  <2> QED BY <2>2 DEF GateInv, TypeOK, SeenInv, Active, CallInv
<1> QED BY <1>1, <1>2, <1>3, <1>4, <1>5, <1>6 DEF Next

-------------------------------------------------------------------------------
(* The invariant of the gate, for any number of calls: what a call knows   *)
(* of each object it names, from its arrival to its verdict.               *)
THEOREM GateInvariant == Spec => []GateInv
<1>1. Init => GateInv BY GateInit
<1>2. GateInv /\ [Next]_vars => GateInv' BY GateStep
<1> QED BY <1>1, <1>2, PTL DEF Spec

(* No write is forwarded that was not earned by what was true, while the   *)
(* call was decided or as long before as the cache allows, of every object *)
(* it names (CheckRequest, its lookups and the policies' deny rules).      *)
THEOREM EarnedWrites == Spec => []WritesAreEarned
<1>1. GateInv => WritesAreEarned
  <2> SUFFICES ASSUME GateInv, NEW c \in Active, calls[c].req.shape = "call", Forwarded(c)
               PROVE  Earned(calls[c].req, calls[c].seen)
    BY DEF WritesAreEarned
  <2> DEFINE s == calls[c]
  <2>1. c \in Calls /\ s \in CallStates /\ CallInv(s) BY DEF GateInv, TypeOK, Active
  <2>2. /\ s.req \in Requests /\ s.attr \in Attributes /\ s.seen \in [Objects -> SUBSET Facts]
        /\ s.place \in {"passed", "mutated"}
    BY <2>1 DEF CallStates, Forwarded
  <2>3. \A o \in Objects : s.seen[o] # {} BY DEF GateInv, SeenInv
  <2>4. s.req.shape = "call" OBVIOUS
  <2> HIDE DEF s
  <2>5. ASSUME s.req.tool = "unmapped" PROVE Earned(s.req, s.seen) BY <2>5 DEF Earned, GitlabTools
  <2>6. ASSUME s.req.tool # "unmapped" PROVE Earned(s.req, s.seen)
    <3>1. /\ Claimed(s.req, s.attr) /\ ~Denies(s.req, s.attr)
          /\ \A l \in Elements(Lookups(s.req)) : Answered(l, s.req, s.attr, s.seen)
      BY <2>1, <2>2, <2>4, <2>6 DEF CallInv
    <3> QED BY <2>2, <2>3, <3>1, JudgedIsEarned
  <2>7. Earned(s.req, s.seen) BY <2>5, <2>6
  <2> QED BY <2>7 DEF s
<1> QED BY <1>1, GateInvariant, PTL

(* A team or an assignee that a call sets is what Cerbos judges, whatever  *)
(* the lookups answer.                                                     *)
THEOREM ClaimsAlwaysStand == Spec => []ClaimsStand
<1>1. GateInv => ClaimsStand
  <2> SUFFICES ASSUME GateInv, NEW c \in Active
               PROVE  Claimed(calls[c].req, calls[c].attr)
    BY DEF ClaimsStand
  <2> QED BY DEF GateInv, CallInv
<1> QED BY <1>1, GateInvariant, PTL

(* What is sent on of a mapped call holds no secret, neither in its own    *)
(* arguments nor in one forced on it, and opens a draft: the redaction     *)
(* comes before the overrides are made, and a call that either changed is  *)
(* not passed as it came.                                                  *)
THEOREM MappedAreAlwaysMasked == Spec => []MappedAreMasked
<1>1. GateInv => MappedAreMasked
  <2> SUFFICES ASSUME GateInv, NEW c \in Active, calls[c].req.shape = "call",
                      calls[c].req.tool # "unmapped", Forwarded(c)
               PROVE  LET r == calls[c].req
                          sent == Sent(calls[c])
                      IN /\ "secret" \notin {sent.text, sent.forced}
                         /\ r.tool = "github_create" => sent.forced = "fixed"
                         /\ r.tool = "gitlab_create" => r.draft \/ sent.forced = sent.text
    BY DEF MappedAreMasked
  <2> DEFINE s == calls[c]
  <2>1. CallInv(s) BY DEF GateInv
  <2>2. s.place \in {"passed", "mutated"} /\ s.text # "secret" BY <2>1 DEF CallInv, Forwarded
  <2>3. CASE s.place = "passed"
    <3>1. s.text = s.req.text /\ ForceOverrides(s.req, s.text) = "none" BY <2>1, <2>3 DEF CallInv
    <3>2. s.req.tool # "github_create" BY <3>1 DEF ForceOverrides
    <3>3. Sent(s) = [text |-> s.text, forced |-> "none"] BY <2>3, <3>1 DEF Sent
    <3>4. s.req.tool = "gitlab_create" => s.req.draft \/ s.text = "none"
      BY <3>1 DEF ForceOverrides
    <3> QED BY <2>2, <3>2, <3>3, <3>4
  <2>4. CASE s.place = "mutated"
    <3>1. s.forced = ForceOverrides(s.req, s.text) BY <2>1, <2>4 DEF CallInv
    <3>2. Sent(s) = [text |-> s.text, forced |-> s.forced] BY <2>4 DEF Sent
    <3> QED BY <2>2, <3>1, <3>2 DEF ForceOverrides
  <2> QED BY <2>2, <2>3, <2>4
<1> QED BY <1>1, GateInvariant, PTL

================================================================================
