----------------------------- MODULE PatchBuild -----------------------------
(* The layer of the agent image that applies the patches                     *)
(* (src/images/agent/patches/apply-patches.sh).  The scripts run one after   *)
(* another over one source tree; each writes its files one at a time, so a    *)
(* run can stop between two of them, and a tree may be patched again.         *)
(*                                                                            *)
(* An upstream release may have dropped or doubled a fragment a script looks  *)
(* for, and an edit of order.txt may have moved or left out a line.           *)
EXTENDS AgentPatches, SequencesExt

CONSTANTS Drifts,   \* upstream fragments that may have drifted: {<<file, fragment>>}
          Orders,   \* the contents order.txt may have
          MaxKills, \* runs that are cut short
          MaxRuns   \* runs over one tree

VARIABLES order,  \* the lines of order.txt
          drift,  \* what upstream changed: [at, how], or NoDrift
          tree,   \* the source files
          at,     \* the patch the run is at
          edit,   \* and the edit within it
          phase,  \* "apply", "done", "failed" or "killed"
          kills, runs,
          built   \* the tree of the first run that finished, or Unbuilt

buildVars == <<order, drift, tree, at, edit, phase, kills, runs, built>>
Unbuilt == <<>>
NoDrift == [at |-> <<"", "">>, how |-> "none"]
-----------------------------------------------------------------------------
(* The edits of all patches, and the tree they find and leave: a fragment    *)
(* that some edit looks for and none introduces is upstream's.               *)
Edits == UNION {ToSet(Patch[p].edits) : p \in DOMAIN Patch}
Files == {e.file : e \in Edits}
Of(f) == {e \in Edits : e.file = f}
Introduced(f) == UNION {e.gives \ e.needs : e \in Of(f)}
Upstream == [f \in Files |-> (UNION {e.needs : e \in Of(f)}) \ Introduced(f)]
Patched  == [f \in Files |-> (Upstream[f] \cup Introduced(f))
                                \ UNION {e.needs \ e.gives : e \in Of(f)}]

(* The places upstream can drift at.                                         *)
Anchors == UNION {{f} \X Upstream[f] : f \in Files}

ASSUME BuildAssumption == /\ Drifts \subseteq Anchors
                          /\ \A o \in Orders : o \in Seq(STRING)
                          /\ MaxKills \in Nat /\ MaxRuns \in Nat

Drifted(d) == IF d.how = "missing"
              THEN [Upstream EXCEPT ![d.at[1]] = @ \ {d.at[2]}]
              ELSE Upstream

(* The patches that must follow others: what the head of order.txt says,     *)
(* and 0012, whose marker contains the marker of 0008.  (A patch moved        *)
(* before one whose text it looks for is refused.)                            *)
Follows == {<<"0016", "0014">>, <<"0020", "0014">>, <<"0039", "0028">>, <<"0039", "0036">>,
            <<"0052", "0046">>, <<"0012", "0008">>}

Respects(o) == \A pair \in Follows, i, j \in 1..Len(o) : o[i] = pair[1] /\ o[j] = pair[2] => j < i
-----------------------------------------------------------------------------
(* How a script finds a file and what it looks for in it.                   *)
Found(e) == e.via = "tools" => "stray tools" \notin tree["site-packages"]
Applied(e) == e.seen \subseteq tree[e.file] /\ e.unseen \cap tree[e.file] = {}
Exact(e) == \A x \in e.needs : x \in tree[e.file] /\ drift.at # <<e.file, x>>

Now == Patch[order[at]]
LastEdit == edit = Len(Now.edits)

(* The script exits with an error, or goes on to the next edit or script.   *)
Refuse == phase' = "failed" /\ UNCHANGED <<tree, at, edit>>
Onward == /\ phase' = phase
          /\ IF LastEdit THEN at' = at + 1 /\ edit' = 1 ELSE at' = at /\ edit' = edit + 1

(* Mutant: one marked file is enough to take such a patch as applied.        *)
AnyApplied(p) == \E i \in 1..Len(p.edits) : Applied(p.edits[i])

(* A patch that takes its files together is refused or skipped as a whole,   *)
(* at its first edit.                                                        *)
EachApplied(p) == \A i \in 1..Len(p.edits) : Applied(p.edits[i])
EachExact(p) == \A i \in 1..Len(p.edits) : Exact(p.edits[i])

Write(e) == tree' = [tree EXCEPT ![e.file] = (@ \ e.needs) \cup e.gives] /\ Onward

Steps(e) ==
    \/ ~Found(e) /\ Refuse
    \/ Found(e) /\ Applied(e) /\ UNCHANGED tree /\ Onward
    \/ Found(e) /\ ~Applied(e) /\ Exact(e) /\ Write(e)
    \/ Found(e) /\ ~Applied(e) /\ ~Exact(e) /\ Refuse

Begins(p) ==
    \/ EachApplied(p) /\ at' = at + 1 /\ UNCHANGED <<tree, edit, phase>>
    \/ ~EachApplied(p) /\ EachExact(p) /\ Write(p.edits[1])
    \/ ~EachApplied(p) /\ ~EachExact(p) /\ Refuse

(* The loop over order.txt: a name without a file ends it.                   *)
RunScript ==
    /\ phase = "apply" /\ at <= Len(order)
    /\ \/ order[at] \notin DOMAIN Patch /\ Refuse
       \/ /\ order[at] \in DOMAIN Patch
          /\ IF Now.whole
             THEN IF edit = 1 THEN Begins(Now) ELSE Write(Now.edits[edit])
             ELSE Steps(Now.edits[edit])
    /\ UNCHANGED <<order, drift, kills, runs, built>>

(* After the loop, every patch file must have been listed.                   *)
AllListed == DOMAIN Patch \subseteq ToSet(order)

Finish == /\ phase = "apply" /\ at > Len(order)
          /\ phase' = IF AllListed THEN "done" ELSE "failed"
          /\ built' = IF AllListed /\ built = Unbuilt THEN tree ELSE built
          /\ UNCHANGED <<order, drift, tree, at, edit, kills, runs>>

(* The build is cut short between two steps.                                 *)
Kill == /\ phase = "apply" /\ kills < MaxKills
        /\ phase' = "killed" /\ kills' = kills + 1
        /\ UNCHANGED <<order, drift, tree, at, edit, runs, built>>

(* The scripts are run again over the tree as it is.                         *)
Again == /\ phase \in {"done", "killed"} /\ runs < MaxRuns
         /\ phase' = "apply" /\ at' = 1 /\ edit' = 1 /\ runs' = runs + 1
         /\ UNCHANGED <<order, drift, tree, kills, built>>

BuildInit ==
    /\ \/ order = OrderTxt /\ drift \in {NoDrift} \cup [at : Drifts, how : {"missing", "repeated"}]
       \/ order \in Orders /\ drift = NoDrift
    /\ tree = Drifted(drift)
    /\ at = 1 /\ edit = 1 /\ phase = "apply" /\ kills = 0 /\ runs = 1 /\ built = Unbuilt

BuildNext == RunScript \/ Finish \/ Kill \/ Again

BuildSpec == BuildInit /\ [][BuildNext]_buildVars
-----------------------------------------------------------------------------
(* An image that is built has every patch in it: whatever fragment upstream  *)
(* dropped or doubled, whichever line of order.txt was moved (against none   *)
(* of the orders it must keep) or left out, wherever an earlier run over the  *)
(* same tree was cut short.  (Exact counts and refusals of every script, the  *)
(* both-or-neither patches and the coverage check of apply-patches.sh.)       *)
BuiltIsPatched == phase = "done" /\ Respects(order) => tree = Patched

(* The patches as they are listed fit the release they were written for: no   *)
(* script finds what it looks for gone, taken by an earlier one or not yet    *)
(* written by a later one.  (order.txt.)                                      *)
OrderFits == order = OrderTxt /\ drift = NoDrift /\ kills = 0 => phase # "failed"

(* A tree that is patched stays as it is when the patches are run again: no   *)
(* script mistakes what a later one made of its text for an unpatched or a    *)
(* drifted file.  (The markers; 0046 and 0052 rename each other's text.)       *)
AgainIsNothing == built # Unbuilt => tree = built /\ phase # "failed"

(* A build cut short and run again finishes, unless it was cut short inside a *)
(* patch that takes its files together.  (0047, 0051 and 0052 report a        *)
(* partial application; every other script resumes at its unmarked file.)     *)
ResumesUnlessWhole ==
    order = OrderTxt /\ drift = NoDrift /\ phase = "failed" =>
        \E p \in DOMAIN Patch : Patch[p].whole /\ order[at] = p /\ AnyApplied(Patch[p])
                                  /\ ~EachApplied(Patch[p])
=============================================================================
