---------------------------- MODULE MCLookupCache ----------------------------
(* A small instance of LookupCache: a merge request by number (an identity *)
(* lookup), the same one by branch (a mutable lookup), and a lookup that is *)
(* never remembered; two goroutines race for them.                         *)
EXTENDS LookupCache, TLC

CONSTANTS c1, c2, v1, v2

ByNumber == [tool |-> "gitlab_get_merge_request", form |-> "iid", id |-> 1]
ByBranch == [tool |-> "gitlab_get_merge_request", form |-> "source_branch", id |-> 1]
Silences == [tool |-> "alertmanager_getSilences", form |-> "plain", id |-> 1]
MCLookups == {ByNumber, ByBranch, Silences}

(* The small answers of both remembered lookups fill the cache exactly; a  *)
(* large one fits only alone, or, under the longer key, not at all.        *)
MCKeySize == [l \in Lookups |-> IF l = ByBranch THEN 2 ELSE 1]
MCResultSize == [v \in Values |-> IF v = v1 THEN 1 ELSE 4]

(* Nothing reads when a value was last superseded while it is the answer   *)
(* again: LastTrue asks truth first, and TruthChanges overwrites it.       *)
MCView ==
  <<now, truth, [l \in Lookups |-> [v \in Values \ {truth[l]} |-> superseded[l][v]]],
    entries, totalBytes, calls>>

(* Callers are interchangeable, and the run checks no liveness.            *)
MCSymmetry == Permutations(Callers)
==============================================================================
