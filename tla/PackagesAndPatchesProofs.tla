----------------------- MODULE PackagesAndPatchesProofs -----------------------
(***************************************************************************)
(* What the two ways upstream's software comes in keep: the packages of    *)
(* the host, which apply installs from the formula tap, and the agent      *)
(* image, which the patch scripts are run over.                            *)
(*                                                                         *)
(* Packages, for any of them, any versions and any order of the manifest.  *)
(* A step of the generator is taken only between applies, so the proof has *)
(* two halves: what a step of the generator does to the tap, and what a    *)
(* step of an apply does to the host while the tap stands still.           *)
(*                                                                         *)
(* Patches, for any drifted fragments, any orders, any number of runs and  *)
(* of interruptions.  What the scripts are is looked at once, script by    *)
(* script and, where two edit one file, pair by pair (ScriptEdits,         *)
(* EditsAgree).  The rest of the proof is about edits that agree: there    *)
(* are some of them, D, of which the tree is what upstream and D make it.  *)
(***************************************************************************)
EXTENDS HostPackages, PatchBuild, TLAPS, SequenceTheorems

USE MissingAssumption, CollisionAssumption, FloatAssumption

-----------------------------------------------------------------------------
(* The tap.                                                                *)

LEMMA ReleaseInitial == ReleaseInit => ReleaseInv
<1> SUFFICES ASSUME ReleaseInit PROVE ReleaseInv  OBVIOUS
<1>1. ReleaseTypeOK  BY DEF ReleaseInit, ReleaseTypeOK, Idle
<1>2. ASSUME NEW p \in Packages PROVE formulae[p][version[p]] = 0
  BY DEF ReleaseInit
<1>3. NamedExist  BY <1>2 DEF ReleaseInit, NamedExist, Exists, Idle
<1>4. ASSUME NEW c \in Collides
      PROVE  formulae[c[1]][c[2]] = Missing \/ formulae[c[1]][c[3]] = Missing
  <2>1. c[1] \in Packages /\ c[2] \in Versions /\ c[3] \in Versions /\ c[2] # c[3]  OBVIOUS
  <2>2. /\ formulae[c[1]][c[2]] = IF c[2] = version[c[1]] THEN 0 ELSE Missing
        /\ formulae[c[1]][c[3]] = IF c[3] = version[c[1]] THEN 0 ELSE Missing
    BY <2>1 DEF ReleaseInit
  <2> QED  BY <2>1, <2>2
<1> QED  BY <1>1, <1>3, <1>4 DEF ReleaseInv, ClassesDiffer

FormulaeKept ==
  \A p \in Packages, v \in Versions : formulae[p][v] # Missing => formulae'[p][v] = formulae[p][v]

(* Writing the formula of one package: the only step that changes the tap. *)
LEMMA FormulaWritten ==
  ASSUME ReleaseInv, NEW p \in Packages, GeneratePackage(p)
  PROVE  /\ ReleaseInv'
         /\ FormulaeKept
<1> DEFINE v == version[p]
<1>1. v \in Versions /\ upstream[p][v] \in {0, 1}  BY DEF ReleaseInv, ReleaseTypeOK
<1>2. /\ UNCHANGED <<version, reference, upstream>>
      /\ renames' = [renames EXCEPT ![p] = reference[p] # v]
  BY DEF GeneratePackage
<1>3. /\ formulae' \in [Packages -> [Versions -> {0, 1, Missing}]]
      /\ \A q \in Packages, w \in Versions :
           q # p \/ w # v => formulae'[q][w] = formulae[q][w]
      /\ formulae'[p][v] # Missing
      /\ Exists(p, v) => formulae'[p][v] = formulae[p][v]
  <2>1. CASE Current(p)
    BY <1>1, <2>1 DEF GeneratePackage, Current, Exists, ReleaseInv, ReleaseTypeOK
  <2>2. CASE ~Current(p)
    <3>1. formulae' = [formulae EXCEPT ![p][v] = upstream[p][v]]
      BY <2>2 DEF GeneratePackage
    <3>2. Exists(p, v) => formulae[p][v] = upstream[p][v]
      BY <2>2 DEF GeneratePackage, Renders
    <3>3. formulae \in [Packages -> [Versions -> {0, 1, Missing}]]
      BY DEF ReleaseInv, ReleaseTypeOK
    <3> QED  BY <1>1, <3>1, <3>2, <3>3
  <2> QED  BY <2>1, <2>2
<1>4. ReleaseTypeOK'  BY <1>2, <1>3 DEF ReleaseInv, ReleaseTypeOK
<1>5. NamedExist'
  <2> SUFFICES ASSUME NEW q \in Packages
               PROVE  Exists(q, reference[q])' /\ (renames'[q] => Exists(q, version[q])')
    BY DEF NamedExist
  <2>1. reference[q] \in Versions /\ version[q] \in Versions
    BY DEF ReleaseInv, ReleaseTypeOK
  <2>2. Exists(q, reference[q]) /\ (renames[q] => Exists(q, version[q]))
    BY DEF ReleaseInv, NamedExist
  <2>3. \A w \in Versions : Exists(q, w) => formulae'[q][w] # Missing
    BY <1>1, <1>3 DEF Exists
  <2>4. q # p => renames'[q] = renames[q]
    BY <1>2 DEF ReleaseInv, ReleaseTypeOK
  <2> QED  BY <1>2, <1>3, <2>1, <2>2, <2>3, <2>4 DEF Exists
<1>6. ClassesDiffer'
  <2> SUFFICES ASSUME NEW c \in Collides
               PROVE  formulae'[c[1]][c[2]] = Missing \/ formulae'[c[1]][c[3]] = Missing
    BY DEF ClassesDiffer
  <2> DEFINE q == c[1]
             a == c[2]
             b == c[3]
  <2>1. q \in Packages /\ a \in Versions /\ b \in Versions /\ a # b /\ c = <<q, a, b>>
    OBVIOUS
  <2>2. formulae[q][a] = Missing \/ formulae[q][b] = Missing
    BY DEF ReleaseInv, ClassesDiffer
  <2>3. CASE q # p \/ (a # v /\ b # v)
    BY <1>1, <1>3, <2>1, <2>2, <2>3
  <2>4. FreeClass(p, v)  BY DEF GeneratePackage, Renders
  <2>5. CASE q = p /\ a = v
    <3>1. ~Exists(p, b)
      BY <2>1, <2>4, <2>5 DEF FreeClass
    <3> QED  BY <1>3, <2>1, <2>5, <3>1 DEF Exists
  <2>6. CASE q = p /\ b = v
    <3>1. ~Exists(p, a)
      BY <2>1, <2>4, <2>6 DEF FreeClass
    <3> QED  BY <1>3, <2>1, <2>6, <3>1 DEF Exists
  <2> QED  BY <2>3, <2>5, <2>6
<1>7. FormulaeKept
  BY <1>3 DEF Exists, FormulaeKept
<1> QED  BY <1>4, <1>5, <1>6, <1>7 DEF ReleaseInv

(* Every step of the generator and of its surroundings.                    *)
LEMMA ReleaseStep ==
  ASSUME ReleaseInv, [ReleaseNext]_releaseVars
  PROVE  /\ ReleaseInv'
         /\ FormulaeKept
<1> USE DEF ReleaseInv, ReleaseTypeOK, NamedExist, ClassesDiffer, Exists, FormulaeKept
<1>1. CASE \E p \in Packages : GeneratePackage(p)
  BY <1>1, FormulaWritten
<1>2. ASSUME NEW p \in Packages, NEW v \in Versions, Renovate(p, v)
      PROVE  ReleaseInv' /\ UNCHANGED formulae
  <2>1. renames = Idle  BY <1>2 DEF Renovate, Generating
  <2> QED  BY <1>2, <2>1 DEF Renovate, Idle
<1>3. ASSUME NEW p \in Packages, NEW v \in Versions, Retag(p, v)
      PROVE  ReleaseInv' /\ UNCHANGED formulae
  BY <1>3 DEF Retag
<1>4. CASE Generate  BY <1>4 DEF Generate
<1>5. CASE WriteManifest
  <2>1. /\ UNCHANGED <<version, upstream, formulae>> /\ renames' = Idle
        /\ reference' \in [Packages -> Versions]
    BY <1>5 DEF WriteManifest
  <2>2. \A p \in Packages : Exists(p, reference'[p])  BY <1>5 DEF WriteManifest
  <2> QED  BY <2>1, <2>2 DEF Idle
<1>6. CASE Stop  BY <1>6 DEF Stop, Idle
<1>7. CASE UNCHANGED releaseVars  BY <1>7 DEF releaseVars
<1> QED  BY <1>1, <1>2, <1>3, <1>4, <1>5, <1>6, <1>7 DEF ReleaseNext

(* Only a release changes the tap, and only between applies.               *)
LEMMA TapStep == Next => [ReleaseNext]_releaseVars
BY DEF Next, Tamper, Release, Apply, Sync, Install, Probe, Unlink, Link, Pin, Uninstall, Fail,
       Rollback, Crash, Replace, Settle, FailBuild, Check, Still

-----------------------------------------------------------------------------
(* The host.                                                               *)

LEMMA HostInitial == Init => HostInv
<1> SUFFICES ASSUME Init PROVE HostInv  OBVIOUS
<1>1. ReleaseInv  BY ReleaseInitial DEF Init
<1>2. HostTypeOK  BY DEF Init, HostTypeOK, Installed
<1> QED  BY <1>1, <1>2 DEF Init, HostInv, StepsFollow, Installed

(* A step of an apply leaves the host as the next step needs it.           *)
LEMMA MigrationStep ==
  ASSUME HostInv, [Next]_vars, UNCHANGED releaseVars
  PROVE  HostTypeOK' /\ StepsFollow'
<1> USE DEF HostInv, ReleaseInv, ReleaseTypeOK, HostTypeOK, StepsFollow, Installed, Wanted,
            releaseVars
<1>1. ASSUME NEW p \in Packages, Tamper(p) PROVE HostTypeOK' /\ StepsFollow'
  <2>1. pc = "idle" /\ pc' = "idle"  BY <1>1 DEF Tamper
  <2>2. UNCHANGED left  BY <1>1 DEF Tamper
  <2>3. kegs' \in [Packages -> SUBSET (Versions \union {Float})]  BY <1>1 DEF Tamper
  <2>4. linked' \in [Packages -> Versions \union {Float, None}]  BY <1>1 DEF Tamper
  <2>5. pinned' \in [Packages -> SUBSET (Versions \union {Float})]  BY <1>1 DEF Tamper
  <2> QED  BY <2>1, <2>2, <2>3, <2>4, <2>5
<1>2. CASE Release  BY <1>2 DEF Release, brewVars, runVars
<1>3. CASE Apply  BY <1>3 DEF Apply, brewVars
<1>4. CASE Sync  BY <1>4 DEF Sync, Proceed, brewVars
<1>5. CASE Install
  <2>1. pc = "install" /\ pc' = "probe" /\ UNCHANGED <<this, left, pinned, version>>
    BY <1>5 DEF Install, Go, Still
  <2>2. this \in Packages /\ version[this] \in Versions  BY <2>1
  <2>3. kegs' = [kegs EXCEPT ![this] = @ \union {version[this]}]  BY <1>5 DEF Install
  <2>4. linked' = linked \/ linked' = [linked EXCEPT ![this] = version[this]]
    BY <1>5 DEF Install
  <2>5. linked' \in [Packages -> Versions \union {Float, None}]  BY <2>2, <2>4
  <2> QED  BY <2>1, <2>2, <2>3, <2>5
<1>6. CASE Probe  BY <1>6 DEF Probe, Go, Still, brewVars
<1>7. CASE Unlink  BY <1>7 DEF Unlink, Go, Still
<1>8. CASE Link  BY <1>8 DEF Link, Go, Still
<1>9. CASE Pin  BY <1>9 DEF Pin, Go, Still
<1>10. CASE Uninstall  BY <1>10 DEF Uninstall, Proceed
<1>11. CASE Fail  BY <1>11 DEF Fail, Proceed, Raise
<1>12. CASE Rollback  BY <1>12 DEF Rollback
<1>13. CASE Crash  BY <1>13 DEF Crash, Raise, brewVars
<1>14. CASE Replace  BY <1>14 DEF Replace, Go, brewVars
<1>15. CASE Settle  BY <1>15 DEF Settle, brewVars
<1>16. CASE FailBuild  BY <1>16 DEF FailBuild, Raise, brewVars
<1>17. CASE Check  BY <1>17 DEF Check, brewVars
<1>18. CASE UNCHANGED vars  BY <1>18 DEF vars, brewVars, runVars
<1> QED
  BY <1>1, <1>2, <1>3, <1>4, <1>5, <1>6, <1>7, <1>8, <1>9, <1>10, <1>11, <1>12, <1>13,
     <1>14, <1>15, <1>16, <1>17, <1>18 DEF Next

(* A release happens only between applies, where no step has a demand.     *)
LEMMA HostStep ==
  ASSUME HostInv, [Next]_vars
  PROVE  HostInv'
<1>1. [ReleaseNext]_releaseVars
  BY TapStep DEF vars
<1>2. ReleaseInv'  BY <1>1, ReleaseStep DEF HostInv
<1>3. CASE Release
  <2>1. pc = "idle" /\ UNCHANGED <<brewVars, runVars>>  BY <1>3 DEF Release
  <2> QED  BY <1>2, <2>1 DEF HostInv, HostTypeOK, StepsFollow, Installed, brewVars, runVars
<1>4. CASE ~Release
  <2>1. UNCHANGED releaseVars
    BY <1>4 DEF vars, Next, Tamper, Apply, Sync, Install, Probe, Unlink, Link, Pin, Uninstall,
                Fail, Rollback, Crash, Replace, Settle, FailBuild, Check, Still
  <2> QED  BY <1>2, <2>1, MigrationStep DEF HostInv
<1> QED  BY <1>3, <1>4

(* Every reachable state has its formulae, its types, and its migration in *)
(* the order reconcile_package takes it.                                   *)
THEOREM HostInvariant == Spec => []HostInv
<1>1. Init => HostInv  BY HostInitial
<1>2. HostInv /\ [Next]_vars => HostInv'  BY HostStep
<1> QED  BY <1>1, <1>2, PTL DEF Spec

(* A manifest that loads names only formulae that are in the tap.          *)
THEOREM ReleasedWhenLoadable == Spec => []LoadableIsReleased
<1>1. HostInv => LoadableIsReleased
  BY DEF HostInv, ReleaseInv, NamedExist, LoadableIsReleased, Loads, Validates
<1> QED  BY <1>1, HostInvariant, PTL

(* A released formula never changes, and no two share a class.             *)
THEOREM FormulaeStay == Spec => FormulaeAreImmutable
<1> DEFINE Act == /\ \A p \in Packages, v \in Versions :
                        formulae[p][v] # Missing => formulae'[p][v] = formulae[p][v]
                  /\ \A c \in Collides :
                        ~(formulae'[c[1]][c[2]] # Missing /\ formulae'[c[1]][c[3]] # Missing)
<1>1. HostInv /\ [Next]_vars => [Act]_releaseVars
  <2> SUFFICES ASSUME HostInv, [Next]_vars PROVE Act  OBVIOUS
  <2>1. ReleaseInv' /\ FormulaeKept
    BY TapStep, ReleaseStep DEF HostInv, vars
  <2> QED  BY <2>1 DEF FormulaeKept, ReleaseInv, ClassesDiffer
<1> QED  BY <1>1, HostInvariant, PTL DEF Spec, FormulaeAreImmutable

(* What a clean apply has done stays done: its steps touch one package.    *)
LEMMA CleanStep ==
  ASSUME HostInv, CleanSoFar, [Next]_vars
  PROVE  CleanSoFar'
<1> USE DEF HostInv, ReleaseInv, ReleaseTypeOK, HostTypeOK, StepsFollow, Installed, Wanted,
            CleanSoFar, PackageOk, NotifierOk
<1>1. ASSUME NEW p \in Packages, Tamper(p) PROVE pc' = "idle" /\ UNCHANGED <<pc, outcome, failed>>
  BY <1>1 DEF Tamper
<1>2. CASE Release  BY <1>2 DEF Release, runVars
<1>3. CASE Apply  BY <1>3 DEF Apply, releaseVars, brewVars, noteVars
<1>4. CASE Sync  BY <1>4 DEF Sync, Proceed, releaseVars, brewVars, noteVars
<1>5. CASE Install
  <2>1. /\ pc = "install" /\ pc' = "probe" /\ this \in Packages
        /\ UNCHANGED <<this, left, pinned, version, failed, redo, bundle, settled>>
    BY <1>5 DEF Install, Go, Still, releaseVars, noteVars
  <2>2. kegs' = [kegs EXCEPT ![this] = @ \union {version[this]}]  BY <1>5 DEF Install
  <2>3. linked' = linked \/ linked' = [linked EXCEPT ![this] = version[this]]
    BY <1>5 DEF Install
  <2>4. \A p \in Packages \ {this} : kegs'[p] = kegs[p] /\ linked'[p] = linked[p]
    BY <2>1, <2>2, <2>3
  <2> QED  BY <2>1, <2>4
<1>6. CASE Probe  BY <1>6 DEF Probe, Go, Still, releaseVars, brewVars, noteVars
<1>7. CASE Unlink  BY <1>7 DEF Unlink, Go, Still, releaseVars, noteVars
<1>8. CASE Link  BY <1>8 DEF Link, Go, Still, releaseVars, noteVars
<1>9. CASE Pin  BY <1>9 DEF Pin, Go, Still, releaseVars, noteVars
<1>10. CASE Uninstall  BY <1>10, FloatAssumption DEF Uninstall, Proceed, releaseVars, noteVars
<1>11. CASE Fail \/ Rollback \/ Crash \/ FailBuild
  <2>1. failed'  BY <1>11 DEF Fail, Rollback, Crash, FailBuild, Trouble
  <2> QED  BY <2>1
<1>12. CASE Replace  BY <1>12 DEF Replace, Go, releaseVars, brewVars
<1>13. CASE Settle  BY <1>13 DEF Settle, Trouble, releaseVars, brewVars
<1>14. CASE Check  BY <1>14 DEF Check
<1>15. CASE UNCHANGED vars  BY <1>15 DEF vars, releaseVars, brewVars, noteVars, runVars
<1> QED
  BY <1>1, <1>2, <1>3, <1>4, <1>5, <1>6, <1>7, <1>8, <1>9, <1>10, <1>11, <1>12, <1>13,
     <1>14, <1>15 DEF Next

(* An apply in which nothing fails ends with the host as it should be.     *)
THEOREM CleanApplies == Spec => CleanApplyConverges
<1> DEFINE Act == (pc # "idle" /\ pc' = "idle" /\ ~failed') =>
                    outcome' = "ok" /\ NotifierOk' /\ \A p \in Packages : PackageOk(p)'
<1>1. Init => CleanSoFar  BY DEF Init, CleanSoFar
<1>2. HostInv /\ CleanSoFar /\ [Next]_vars => CleanSoFar'  BY CleanStep
<1>3. HostInv /\ CleanSoFar /\ [Next]_vars => [Act]_vars
  <2> SUFFICES ASSUME HostInv, CleanSoFar, [Next]_vars, pc # "idle", pc' = "idle", ~failed'
               PROVE  outcome' = "ok" /\ NotifierOk' /\ \A p \in Packages : PackageOk(p)'
    OBVIOUS
  <2>1. Check
    BY DEF Next, Tamper, Release, Apply, Sync, Install, Probe, Unlink, Link, Pin, Uninstall,
           Proceed, Go, Fail, Rollback, Crash, Replace, Settle, FailBuild, Trouble, vars, runVars
  <2>2. NotifierOk /\ \A p \in Packages : PackageOk(p)
    BY <2>1 DEF Check, CleanSoFar, NotifierOk, Installed
  <2>3. UNCHANGED <<releaseVars, brewVars, noteVars>> /\ outcome' = "ok"
    BY <2>1, <2>2, RequiredAssumption DEF Check
  <2> QED  BY <2>2, <2>3 DEF NotifierOk, PackageOk, Wanted, releaseVars, brewVars, noteVars
<1> QED  BY <1>1, <1>2, <1>3, HostInvariant, PTL DEF Spec, CleanApplyConverges

(* A binary is taken away only for one that is ready to replace it.        *)
THEOREM SuccessorFirst == Spec => OutageHasASuccessor
<1> DEFINE Act == \A p \in Packages : pc # "idle" =>
                    /\ (linked[p] # None /\ linked'[p] # linked[p]) => Wanted(p) \in kegs'[p]
                    /\ (Float \in kegs[p] /\ Float \notin kegs'[p])
                          => linked[p] = Wanted(p) /\ Wanted(p) \in pinned[p]
<1>1. HostInv /\ [Next]_vars => [Act]_vars
  <2> SUFFICES ASSUME HostInv, [Next]_vars PROVE Act  OBVIOUS
  <2> SUFFICES ASSUME NEW p \in Packages, pc # "idle"
               PROVE  /\ (linked[p] # None /\ linked'[p] # linked[p]) => Wanted(p) \in kegs'[p]
                      /\ (Float \in kegs[p] /\ Float \notin kegs'[p])
                            => linked[p] = Wanted(p) /\ Wanted(p) \in pinned[p]
    OBVIOUS
  <2> USE DEF HostInv, HostTypeOK, StepsFollow, Installed, Wanted
  <2>1. CASE Install  BY <2>1 DEF Install, Go
  <2>2. CASE Unlink  BY <2>2 DEF Unlink, Go
  <2>3. CASE Link  BY <2>3 DEF Link, Go
  <2>4. CASE Uninstall  BY <2>4 DEF Uninstall
  <2>5. CASE Rollback  BY <2>5 DEF Rollback
  <2>6. CASE Pin  BY <2>6 DEF Pin
  <2>7. CASE UNCHANGED <<kegs, linked>>  BY <2>7
  <2> QED
    BY <2>1, <2>2, <2>3, <2>4, <2>5, <2>6, <2>7
    DEF Next, Tamper, Release, Apply, Sync, Probe, Fail, Crash, Replace, Settle, FailBuild,
        Check, brewVars, vars
<1> QED  BY <1>1, HostInvariant, PTL DEF Spec, OutageHasASuccessor

-----------------------------------------------------------------------------
(* The scripts: what each edit looks for and writes.                         *)
(* The edits of the scripts, each as the script it is in and its place       *)
(* there; what an edit introduces into its file and what it takes away.      *)
Slots == {s \in Scripts \X Nat : s[2] \in 1..Len(Patch[s[1]].edits)}
EditAt(s) == Patch[s[1]].edits[s[2]]

Made(e)     == e.gives \ e.needs
Consumed(e) == e.needs \ e.gives

(* The three kinds of edit: one whose marker is text that it introduces, a   *)
(* check that changes nothing, and a removal.                                *)
Marked(e)  == e.seen # {} /\ e.seen \subseteq Made(e) /\ e.unseen \subseteq Consumed(e)
Checked(e)   == e.seen = {"never"} /\ e.unseen = {} /\ e.gives = e.needs
Removal(e) == e.seen = {} /\ e.gives = {} /\ e.unseen = e.needs

Fits(e) == /\ Marked(e) \/ Checked(e) \/ Removal(e)
           /\ e.file # ""
           /\ ReadSilence \notin e.needs /\ "never" \notin e.needs
           /\ "never" \notin e.gives /\ "stray tools" \notin e.gives

(* Where order.txt has a script, and which of two edits it has earlier.      *)
Position(p)   == CHOOSE i \in 1..35 : OrderTxt[i] = p
Earlier(s, t) == Position(s[1]) < Position(t[1]) \/ (s[1] = t[1] /\ s[2] < t[2])

(* Two edits of one file agree: neither takes the marker of the other away   *)
(* or writes what the other has removed; the one that writes what marks the  *)
(* other must follow it; no two introduce one fragment, except the marker    *)
(* 0008 shares with 0012, which nobody looks for; and of two of which one    *)
(* needs what the other introduces or takes, order.txt has the giver earlier  *)
(* and the taker later.  (e and g are the edits at s and t.)                 *)
Agree(e, g, s, t) ==
  /\ \A x \in e.seen : x \notin Consumed(g) /\ (x \in Made(g) => <<t[1], s[1]>> \in Follows)
  /\ \A x \in e.unseen : x \notin g.gives
  /\ \A x \in Made(e) : x \in Made(g) => x = ReadSilence
  /\ Checked(e) => \A x \in e.needs : x \notin Consumed(g)
  /\ \A x \in e.needs : (x \in Made(g) => Earlier(t, s)) /\ (x \in Consumed(g) => Earlier(s, t))

(* The edits and their files.                                                *)
Table == {<<"0004", 1, "adapters/hermes.py">>,
  <<"0007", 1, "slack_sdk/proxy_env_variable_loader.py">>, <<"0007", 2, "slack/adapter.py">>,
  <<"0007", 3, "slack/adapter.py">>, <<"0007", 4, "tools/send_message_tool.py">>,
  <<"0007", 5, "slack/adapter.py">>, <<"0007", 6, "tools/send_message_tool.py">>,
  <<"0008", 1, "tools/approval.py">>,
  <<"0009", 1, "tools/mcp_tool.py">>, <<"0011", 1, "tools/web_tools.py">>,
  <<"0012", 1, "tools/approval.py">>, <<"0014", 1, "agent/auxiliary_client.py">>,
  <<"0014", 2, "hermes_cli/runtime_provider.py">>, <<"0016", 1, "agent/credential_pool.py">>,
  <<"0016", 2, "run_agent.py">>, <<"0018", 1, "tools/registry.py">>,
  <<"0019", 1, "site-packages">>, <<"0020", 1, "hermes_cli/runtime_provider.py">>,
  <<"0022", 1, "tools/mcp_tool.py">>, <<"0023", 1, "tools/mcp_tool.py">>,
  <<"0025", 1, "tools/skill_manager_tool.py">>, <<"0027", 1, "tools/mcp_tool.py">>,
  <<"0028", 1, "gateway/runtime_footer.py">>, <<"0028", 2, "gateway/run.py">>,
  <<"0030", 1, "run_agent.py">>, <<"0030", 2, "gateway/run.py">>,
  <<"0034", 1, "agentburn/model.py">>, <<"0034", 2, "adapters/hermes.py">>,
  <<"0034", 3, "agentburn/analyze.py">>, <<"0036", 1, "gateway/run.py">>,
  <<"0037", 1, "agent/conversation_loop.py">>, <<"0037", 2, "run_agent.py">>,
  <<"0039", 1, "gateway/runtime_footer.py">>, <<"0039", 2, "gateway/run.py">>,
  <<"0040", 1, "custom/__init__.py">>, <<"0041", 1, "hermes_cli/commands.py">>,
  <<"0041", 2, "gateway/run.py">>, <<"0041", 3, "gateway/slash_commands.py">>,
  <<"0041", 4, "locales/en.yaml">>, <<"0042", 1, "slack_sdk/socket_mode.py">>,
  <<"0042", 2, "slack/adapter.py">>, <<"0043", 1, "agent/usage_pricing.py">>,
  <<"0043", 2, "agentburn/prices.py">>, <<"0044", 1, "hermes_cli/main.py">>,
  <<"0045", 1, "hermes_cli/hooks.py">>, <<"0046", 1, "stage2-hook.sh">>,
  <<"0047", 1, "agent/agent_runtime_helpers.py">>, <<"0047", 2, "hermes_state.py">>,
  <<"0048", 1, "cron/lifecycle_guard.py">>, <<"0049", 1, "agent/shell_hooks.py">>,
  <<"0050", 1, "agent/prompt_builder.py">>, <<"0050", 2, "agent/agent_init.py">>,
  <<"0050", 3, "agent/system_prompt.py">>, <<"0051", 1, "agent/tool_dispatch_helpers.py">>,
  <<"0051", 2, "tools/mcp_tool.py">>, <<"0052", 1, "015-supervise-perms">>,
  <<"0052", 2, "02-reconcile-profiles">>, <<"0052", 3, "hermes-exec-shim.sh">>,
  <<"0052", 4, "main-wrapper.sh">>, <<"0052", 5, "dashboard/run">>,
  <<"0052", 6, "stage2-hook.sh">>, <<"0052", 7, "service_manager.py">>,
  <<"0053", 1, "platforms/webhook.py">>}

(* Each script as the list of its edits: one step per script.               *)
LEMMA ScriptEdits ==
  ASSUME NEW p \in Scripts
  PROVE  LET edits == Patch[p].edits
         IN  /\ Len(edits) \in Nat \ {0} /\ DOMAIN edits = 1..Len(edits)
             /\ \A i \in 1..Len(edits) : <<p, i, edits[i].file>> \in Table /\ Fits(edits[i])
             /\ Patch[p].whole => p \in {"0047", "0051", "0052"}
<1> USE DEF Edit, Tool, Swap, Verify, ReadSilence
<1>1. CASE p = "0004"
  <2>1. Patch[p] = P0004  BY <1>1 DEF Patch
  <2>2. /\ Len(P0004.edits) = 1 /\ DOMAIN P0004.edits = 1..1 /\ ~P0004.whole
    BY DEF P0004, InTurn
  <2>3. /\ P0004.edits[1].file = "adapters/hermes.py"
    BY DEF InTurn, P0004
  <2>4. Fits(P0004.edits[1])  BY DEF Fits, Marked, Checked, Removal, Made, Consumed, InTurn, P0004
  <2> QED  BY <1>1, <2>1, <2>2, <2>3, <2>4 DEF Table
<1>2. CASE p = "0007"
  <2>1. Patch[p] = P0007  BY <1>2 DEF Patch
  <2>2. /\ Len(P0007.edits) = 6 /\ DOMAIN P0007.edits = 1..6 /\ ~P0007.whole
    BY DEF P0007, InTurn
  <2>3. /\ P0007.edits[1].file = "slack_sdk/proxy_env_variable_loader.py"
        /\ P0007.edits[2].file = "slack/adapter.py"
        /\ P0007.edits[3].file = "slack/adapter.py"
        /\ P0007.edits[4].file = "tools/send_message_tool.py"
        /\ P0007.edits[5].file = "slack/adapter.py"
        /\ P0007.edits[6].file = "tools/send_message_tool.py"
    BY DEF InTurn, P0007
  <2>4. Fits(P0007.edits[1])  BY DEF Fits, Marked, Checked, Removal, Made, Consumed, InTurn, P0007
  <2>5. Fits(P0007.edits[2])  BY DEF Fits, Marked, Checked, Removal, Made, Consumed, InTurn, P0007
  <2>6. Fits(P0007.edits[3])  BY DEF Fits, Marked, Checked, Removal, Made, Consumed, InTurn, P0007
  <2>7. Fits(P0007.edits[4])  BY DEF Fits, Marked, Checked, Removal, Made, Consumed, InTurn, P0007
  <2>8. Fits(P0007.edits[5])  BY DEF Fits, Marked, Checked, Removal, Made, Consumed, InTurn, P0007
  <2>9. Fits(P0007.edits[6])  BY DEF Fits, Marked, Checked, Removal, Made, Consumed, InTurn, P0007
  <2> QED  BY <1>2, <2>1, <2>2, <2>3, <2>4, <2>5, <2>6, <2>7, <2>8, <2>9 DEF Table
<1>3. CASE p = "0008"
  <2>1. Patch[p] = P0008  BY <1>3 DEF Patch
  <2>2. /\ Len(P0008.edits) = 1 /\ DOMAIN P0008.edits = 1..1 /\ ~P0008.whole
    BY DEF P0008, InTurn
  <2>3. /\ P0008.edits[1].file = "tools/approval.py"
    BY DEF InTurn, P0008
  <2>4. Fits(P0008.edits[1])  BY DEF Fits, Marked, Checked, Removal, Made, Consumed, InTurn, P0008
  <2> QED  BY <1>3, <2>1, <2>2, <2>3, <2>4 DEF Table
<1>4. CASE p = "0009"
  <2>1. Patch[p] = P0009  BY <1>4 DEF Patch
  <2>2. /\ Len(P0009.edits) = 1 /\ DOMAIN P0009.edits = 1..1 /\ ~P0009.whole
    BY DEF P0009, InTurn
  <2>3. /\ P0009.edits[1].file = "tools/mcp_tool.py"
    BY DEF InTurn, P0009, ToolHandlerDef
  <2>4. Fits(P0009.edits[1])  BY DEF Fits, Marked, Checked, Removal, Made, Consumed, InTurn, P0009,
      ToolHandlerDef
  <2> QED  BY <1>4, <2>1, <2>2, <2>3, <2>4 DEF Table
<1>5. CASE p = "0011"
  <2>1. Patch[p] = P0011  BY <1>5 DEF Patch
  <2>2. /\ Len(P0011.edits) = 1 /\ DOMAIN P0011.edits = 1..1 /\ ~P0011.whole
    BY DEF P0011, InTurn
  <2>3. /\ P0011.edits[1].file = "tools/web_tools.py"
    BY DEF InTurn, P0011
  <2>4. Fits(P0011.edits[1])  BY DEF Fits, Marked, Checked, Removal, Made, Consumed, InTurn, P0011
  <2> QED  BY <1>5, <2>1, <2>2, <2>3, <2>4 DEF Table
<1>6. CASE p = "0012"
  <2>1. Patch[p] = P0012  BY <1>6 DEF Patch
  <2>2. /\ Len(P0012.edits) = 1 /\ DOMAIN P0012.edits = 1..1 /\ ~P0012.whole
    BY DEF P0012, InTurn
  <2>3. /\ P0012.edits[1].file = "tools/approval.py"
    BY DEF InTurn, P0012, ReadCodeSilence
  <2>4. Fits(P0012.edits[1])  BY DEF Fits, Marked, Checked, Removal, Made, Consumed, InTurn, P0012,
      ReadCodeSilence
  <2> QED  BY <1>6, <2>1, <2>2, <2>3, <2>4 DEF Table
<1>7. CASE p = "0014"
  <2>1. Patch[p] = P0014  BY <1>7 DEF Patch
  <2>2. /\ Len(P0014.edits) = 2 /\ DOMAIN P0014.edits = 1..2 /\ ~P0014.whole
    BY DEF P0014, InTurn
  <2>3. /\ P0014.edits[1].file = "agent/auxiliary_client.py"
        /\ P0014.edits[2].file = "hermes_cli/runtime_provider.py"
    BY DEF InTurn, P0014, Auxiliary0014, Provider0014, Pool
  <2>4. Fits(P0014.edits[1])  BY DEF Fits, Marked, Checked, Removal, Made, Consumed, InTurn, P0014,
      Auxiliary0014, Provider0014, Pool
  <2>5. Fits(P0014.edits[2])  BY DEF Fits, Marked, Checked, Removal, Made, Consumed, InTurn, P0014,
      Auxiliary0014, Provider0014, Pool
  <2> QED  BY <1>7, <2>1, <2>2, <2>3, <2>4, <2>5 DEF Table
<1>8. CASE p = "0016"
  <2>1. Patch[p] = P0016  BY <1>8 DEF Patch
  <2>2. /\ Len(P0016.edits) = 2 /\ DOMAIN P0016.edits = 1..2 /\ ~P0016.whole
    BY DEF P0016, InTurn
  <2>3. /\ P0016.edits[1].file = "agent/credential_pool.py"
        /\ P0016.edits[2].file = "run_agent.py"
    BY DEF InTurn, P0016
  <2>4. Fits(P0016.edits[1])  BY DEF Fits, Marked, Checked, Removal, Made, Consumed, InTurn, P0016
  <2>5. Fits(P0016.edits[2])  BY DEF Fits, Marked, Checked, Removal, Made, Consumed, InTurn, P0016
  <2> QED  BY <1>8, <2>1, <2>2, <2>3, <2>4, <2>5 DEF Table
<1>9. CASE p = "0018"
  <2>1. Patch[p] = P0018  BY <1>9 DEF Patch
  <2>2. /\ Len(P0018.edits) = 1 /\ DOMAIN P0018.edits = 1..1 /\ ~P0018.whole
    BY DEF P0018, InTurn
  <2>3. /\ P0018.edits[1].file = "tools/registry.py"
    BY DEF InTurn, P0018
  <2>4. Fits(P0018.edits[1])  BY DEF Fits, Marked, Checked, Removal, Made, Consumed, InTurn, P0018
  <2> QED  BY <1>9, <2>1, <2>2, <2>3, <2>4 DEF Table
<1>10. CASE p = "0019"
  <2>1. Patch[p] = P0019  BY <1>10 DEF Patch
  <2>2. /\ Len(P0019.edits) = 1 /\ DOMAIN P0019.edits = 1..1 /\ ~P0019.whole
    BY DEF P0019, InTurn
  <2>3. /\ P0019.edits[1].file = "site-packages"
    BY DEF InTurn, P0019
  <2>4. Fits(P0019.edits[1])  BY DEF Fits, Marked, Checked, Removal, Made, Consumed, InTurn, P0019
  <2> QED  BY <1>10, <2>1, <2>2, <2>3, <2>4 DEF Table
<1>11. CASE p = "0020"
  <2>1. Patch[p] = P0020  BY <1>11 DEF Patch
  <2>2. /\ Len(P0020.edits) = 1 /\ DOMAIN P0020.edits = 1..1 /\ ~P0020.whole
    BY DEF P0020, InTurn
  <2>3. /\ P0020.edits[1].file = "hermes_cli/runtime_provider.py"
    BY DEF InTurn, P0020
  <2>4. Fits(P0020.edits[1])  BY DEF Fits, Marked, Checked, Removal, Made, Consumed, InTurn, P0020
  <2> QED  BY <1>11, <2>1, <2>2, <2>3, <2>4 DEF Table
<1>12. CASE p = "0022"
  <2>1. Patch[p] = P0022  BY <1>12 DEF Patch
  <2>2. /\ Len(P0022.edits) = 1 /\ DOMAIN P0022.edits = 1..1 /\ ~P0022.whole
    BY DEF P0022, InTurn
  <2>3. /\ P0022.edits[1].file = "tools/mcp_tool.py"
    BY DEF InTurn, P0022
  <2>4. Fits(P0022.edits[1])  BY DEF Fits, Marked, Checked, Removal, Made, Consumed, InTurn, P0022
  <2> QED  BY <1>12, <2>1, <2>2, <2>3, <2>4 DEF Table
<1>13. CASE p = "0023"
  <2>1. Patch[p] = P0023  BY <1>13 DEF Patch
  <2>2. /\ Len(P0023.edits) = 1 /\ DOMAIN P0023.edits = 1..1 /\ ~P0023.whole
    BY DEF P0023, InTurn
  <2>3. /\ P0023.edits[1].file = "tools/mcp_tool.py"
    BY DEF InTurn, P0023
  <2>4. Fits(P0023.edits[1])  BY DEF Fits, Marked, Checked, Removal, Made, Consumed, InTurn, P0023
  <2> QED  BY <1>13, <2>1, <2>2, <2>3, <2>4 DEF Table
<1>14. CASE p = "0025"
  <2>1. Patch[p] = P0025  BY <1>14 DEF Patch
  <2>2. /\ Len(P0025.edits) = 1 /\ DOMAIN P0025.edits = 1..1 /\ ~P0025.whole
    BY DEF P0025, InTurn
  <2>3. /\ P0025.edits[1].file = "tools/skill_manager_tool.py"
    BY DEF InTurn, P0025
  <2>4. Fits(P0025.edits[1])  BY DEF Fits, Marked, Checked, Removal, Made, Consumed, InTurn, P0025
  <2> QED  BY <1>14, <2>1, <2>2, <2>3, <2>4 DEF Table
<1>15. CASE p = "0027"
  <2>1. Patch[p] = P0027  BY <1>15 DEF Patch
  <2>2. /\ Len(P0027.edits) = 1 /\ DOMAIN P0027.edits = 1..1 /\ ~P0027.whole
    BY DEF P0027, InTurn
  <2>3. /\ P0027.edits[1].file = "tools/mcp_tool.py"
    BY DEF InTurn, P0027
  <2>4. Fits(P0027.edits[1])  BY DEF Fits, Marked, Checked, Removal, Made, Consumed, InTurn, P0027
  <2> QED  BY <1>15, <2>1, <2>2, <2>3, <2>4 DEF Table
<1>16. CASE p = "0028"
  <2>1. Patch[p] = P0028  BY <1>16 DEF Patch
  <2>2. /\ Len(P0028.edits) = 2 /\ DOMAIN P0028.edits = 1..2 /\ ~P0028.whole
    BY DEF P0028, InTurn
  <2>3. /\ P0028.edits[1].file = "gateway/runtime_footer.py"
        /\ P0028.edits[2].file = "gateway/run.py"
    BY DEF InTurn, P0028, Footer0028, EffortSignature, EffortField, EffortBuild, Run0028,
      EarlyEffort, FinalEffort
  <2>4. Fits(P0028.edits[1])  BY DEF Fits, Marked, Checked, Removal, Made, Consumed, InTurn, P0028,
      Footer0028, EffortSignature, EffortField, EffortBuild, Run0028, EarlyEffort, FinalEffort
  <2>5. Fits(P0028.edits[2])  BY DEF Fits, Marked, Checked, Removal, Made, Consumed, InTurn, P0028,
      Footer0028, EffortSignature, EffortField, EffortBuild, Run0028, EarlyEffort, FinalEffort
  <2> QED  BY <1>16, <2>1, <2>2, <2>3, <2>4, <2>5 DEF Table
<1>17. CASE p = "0030"
  <2>1. Patch[p] = P0030  BY <1>17 DEF Patch
  <2>2. /\ Len(P0030.edits) = 2 /\ DOMAIN P0030.edits = 1..2 /\ ~P0030.whole
    BY DEF P0030, InTurn
  <2>3. /\ P0030.edits[1].file = "run_agent.py"
        /\ P0030.edits[2].file = "gateway/run.py"
    BY DEF InTurn, P0030, Agent0030, Run0030
  <2>4. Fits(P0030.edits[1])  BY DEF Fits, Marked, Checked, Removal, Made, Consumed, InTurn, P0030,
      Agent0030, Run0030
  <2>5. Fits(P0030.edits[2])  BY DEF Fits, Marked, Checked, Removal, Made, Consumed, InTurn, P0030,
      Agent0030, Run0030
  <2> QED  BY <1>17, <2>1, <2>2, <2>3, <2>4, <2>5 DEF Table
<1>18. CASE p = "0034"
  <2>1. Patch[p] = P0034  BY <1>18 DEF Patch
  <2>2. /\ Len(P0034.edits) = 3 /\ DOMAIN P0034.edits = 1..3 /\ ~P0034.whole
    BY DEF P0034, InTurn
  <2>3. /\ P0034.edits[1].file = "agentburn/model.py"
        /\ P0034.edits[2].file = "adapters/hermes.py"
        /\ P0034.edits[3].file = "agentburn/analyze.py"
    BY DEF InTurn, P0034, Model0034, Adapter0034, Analyze0034
  <2>4. Fits(P0034.edits[1])  BY DEF Fits, Marked, Checked, Removal, Made, Consumed, InTurn, P0034,
      Model0034, Adapter0034, Analyze0034
  <2>5. Fits(P0034.edits[2])  BY DEF Fits, Marked, Checked, Removal, Made, Consumed, InTurn, P0034,
      Model0034, Adapter0034, Analyze0034
  <2>6. Fits(P0034.edits[3])  BY DEF Fits, Marked, Checked, Removal, Made, Consumed, InTurn, P0034,
      Model0034, Adapter0034, Analyze0034
  <2> QED  BY <1>18, <2>1, <2>2, <2>3, <2>4, <2>5, <2>6 DEF Table
<1>19. CASE p = "0036"
  <2>1. Patch[p] = P0036  BY <1>19 DEF Patch
  <2>2. /\ Len(P0036.edits) = 1 /\ DOMAIN P0036.edits = 1..1 /\ ~P0036.whole
    BY DEF P0036, InTurn
  <2>3. /\ P0036.edits[1].file = "gateway/run.py"
    BY DEF InTurn, P0036
  <2>4. Fits(P0036.edits[1])  BY DEF Fits, Marked, Checked, Removal, Made, Consumed, InTurn, P0036
  <2> QED  BY <1>19, <2>1, <2>2, <2>3, <2>4 DEF Table
<1>20. CASE p = "0037"
  <2>1. Patch[p] = P0037  BY <1>20 DEF Patch
  <2>2. /\ Len(P0037.edits) = 2 /\ DOMAIN P0037.edits = 1..2 /\ ~P0037.whole
    BY DEF P0037, InTurn
  <2>3. /\ P0037.edits[1].file = "agent/conversation_loop.py"
        /\ P0037.edits[2].file = "run_agent.py"
    BY DEF InTurn, P0037
  <2>4. Fits(P0037.edits[1])  BY DEF Fits, Marked, Checked, Removal, Made, Consumed, InTurn, P0037
  <2>5. Fits(P0037.edits[2])  BY DEF Fits, Marked, Checked, Removal, Made, Consumed, InTurn, P0037
  <2> QED  BY <1>20, <2>1, <2>2, <2>3, <2>4, <2>5 DEF Table
<1>21. CASE p = "0039"
  <2>1. Patch[p] = P0039  BY <1>21 DEF Patch
  <2>2. /\ Len(P0039.edits) = 2 /\ DOMAIN P0039.edits = 1..2 /\ ~P0039.whole
    BY DEF P0039, InTurn
  <2>3. /\ P0039.edits[1].file = "gateway/runtime_footer.py"
        /\ P0039.edits[2].file = "gateway/run.py"
    BY DEF InTurn, P0039, Footer0039, EffortSignature, EffortField, EffortBuild, Run0039,
      EarlyEffort, FinalEffort
  <2>4. Fits(P0039.edits[1])  BY DEF Fits, Marked, Checked, Removal, Made, Consumed, InTurn, P0039,
      Footer0039, EffortSignature, EffortField, EffortBuild, Run0039, EarlyEffort, FinalEffort
  <2>5. Fits(P0039.edits[2])  BY DEF Fits, Marked, Checked, Removal, Made, Consumed, InTurn, P0039,
      Footer0039, EffortSignature, EffortField, EffortBuild, Run0039, EarlyEffort, FinalEffort
  <2> QED  BY <1>21, <2>1, <2>2, <2>3, <2>4, <2>5 DEF Table
<1>22. CASE p = "0040"
  <2>1. Patch[p] = P0040  BY <1>22 DEF Patch
  <2>2. /\ Len(P0040.edits) = 1 /\ DOMAIN P0040.edits = 1..1 /\ ~P0040.whole
    BY DEF P0040, InTurn
  <2>3. /\ P0040.edits[1].file = "custom/__init__.py"
    BY DEF InTurn, P0040
  <2>4. Fits(P0040.edits[1])  BY DEF Fits, Marked, Checked, Removal, Made, Consumed, InTurn, P0040
  <2> QED  BY <1>22, <2>1, <2>2, <2>3, <2>4 DEF Table
<1>23. CASE p = "0041"
  <2>1. Patch[p] = P0041  BY <1>23 DEF Patch
  <2>2. /\ Len(P0041.edits) = 4 /\ DOMAIN P0041.edits = 1..4 /\ ~P0041.whole
    BY DEF P0041, InTurn
  <2>3. /\ P0041.edits[1].file = "hermes_cli/commands.py"
        /\ P0041.edits[2].file = "gateway/run.py"
        /\ P0041.edits[3].file = "gateway/slash_commands.py"
        /\ P0041.edits[4].file = "locales/en.yaml"
    BY DEF InTurn, P0041, Commands0041, Run0041, Slash0041, Locale0041
  <2>4. Fits(P0041.edits[1])  BY DEF Fits, Marked, Checked, Removal, Made, Consumed, InTurn, P0041,
      Commands0041, Run0041, Slash0041, Locale0041
  <2>5. Fits(P0041.edits[2])  BY DEF Fits, Marked, Checked, Removal, Made, Consumed, InTurn, P0041,
      Commands0041, Run0041, Slash0041, Locale0041
  <2>6. Fits(P0041.edits[3])  BY DEF Fits, Marked, Checked, Removal, Made, Consumed, InTurn, P0041,
      Commands0041, Run0041, Slash0041, Locale0041
  <2>7. Fits(P0041.edits[4])  BY DEF Fits, Marked, Checked, Removal, Made, Consumed, InTurn, P0041,
      Commands0041, Run0041, Slash0041, Locale0041
  <2> QED  BY <1>23, <2>1, <2>2, <2>3, <2>4, <2>5, <2>6, <2>7 DEF Table
<1>24. CASE p = "0042"
  <2>1. Patch[p] = P0042  BY <1>24 DEF Patch
  <2>2. /\ Len(P0042.edits) = 2 /\ DOMAIN P0042.edits = 1..2 /\ ~P0042.whole
    BY DEF P0042, InTurn
  <2>3. /\ P0042.edits[1].file = "slack_sdk/socket_mode.py"
        /\ P0042.edits[2].file = "slack/adapter.py"
    BY DEF InTurn, P0042
  <2>4. Fits(P0042.edits[1])  BY DEF Fits, Marked, Checked, Removal, Made, Consumed, InTurn, P0042
  <2>5. Fits(P0042.edits[2])  BY DEF Fits, Marked, Checked, Removal, Made, Consumed, InTurn, P0042
  <2> QED  BY <1>24, <2>1, <2>2, <2>3, <2>4, <2>5 DEF Table
<1>25. CASE p = "0043"
  <2>1. Patch[p] = P0043  BY <1>25 DEF Patch
  <2>2. /\ Len(P0043.edits) = 2 /\ DOMAIN P0043.edits = 1..2 /\ ~P0043.whole
    BY DEF P0043, InTurn
  <2>3. /\ P0043.edits[1].file = "agent/usage_pricing.py"
        /\ P0043.edits[2].file = "agentburn/prices.py"
    BY DEF InTurn, P0043, Usage0043, Rates, Agentburn0043
  <2>4. Fits(P0043.edits[1])  BY DEF Fits, Marked, Checked, Removal, Made, Consumed, InTurn, P0043,
      Usage0043, Rates, Agentburn0043
  <2>5. Fits(P0043.edits[2])  BY DEF Fits, Marked, Checked, Removal, Made, Consumed, InTurn, P0043,
      Usage0043, Rates, Agentburn0043
  <2> QED  BY <1>25, <2>1, <2>2, <2>3, <2>4, <2>5 DEF Table
<1>26. CASE p = "0044"
  <2>1. Patch[p] = P0044  BY <1>26 DEF Patch
  <2>2. /\ Len(P0044.edits) = 1 /\ DOMAIN P0044.edits = 1..1 /\ ~P0044.whole
    BY DEF P0044, InTurn
  <2>3. /\ P0044.edits[1].file = "hermes_cli/main.py"
    BY DEF InTurn, P0044
  <2>4. Fits(P0044.edits[1])  BY DEF Fits, Marked, Checked, Removal, Made, Consumed, InTurn, P0044
  <2> QED  BY <1>26, <2>1, <2>2, <2>3, <2>4 DEF Table
<1>27. CASE p = "0045"
  <2>1. Patch[p] = P0045  BY <1>27 DEF Patch
  <2>2. /\ Len(P0045.edits) = 1 /\ DOMAIN P0045.edits = 1..1 /\ ~P0045.whole
    BY DEF P0045, InTurn
  <2>3. /\ P0045.edits[1].file = "hermes_cli/hooks.py"
    BY DEF InTurn, P0045
  <2>4. Fits(P0045.edits[1])  BY DEF Fits, Marked, Checked, Removal, Made, Consumed, InTurn, P0045
  <2> QED  BY <1>27, <2>1, <2>2, <2>3, <2>4 DEF Table
<1>28. CASE p = "0046"
  <2>1. Patch[p] = P0046  BY <1>28 DEF Patch
  <2>2. /\ Len(P0046.edits) = 1 /\ DOMAIN P0046.edits = 1..1 /\ ~P0046.whole
    BY DEF P0046, InTurn
  <2>3. /\ P0046.edits[1].file = "stage2-hook.sh"
    BY DEF InTurn, P0046
  <2>4. Fits(P0046.edits[1])  BY DEF Fits, Marked, Checked, Removal, Made, Consumed, InTurn, P0046
  <2> QED  BY <1>28, <2>1, <2>2, <2>3, <2>4 DEF Table
<1>29. CASE p = "0047"
  <2>1. Patch[p] = P0047  BY <1>29 DEF Patch
  <2>2. /\ Len(P0047.edits) = 2 /\ DOMAIN P0047.edits = 1..2
    BY DEF P0047, Whole
  <2>3. /\ P0047.edits[1].file = "agent/agent_runtime_helpers.py"
        /\ P0047.edits[2].file = "hermes_state.py"
    BY DEF Whole, P0047
  <2>4. Fits(P0047.edits[1])  BY DEF Fits, Marked, Checked, Removal, Made, Consumed, Whole, P0047
  <2>5. Fits(P0047.edits[2])  BY DEF Fits, Marked, Checked, Removal, Made, Consumed, Whole, P0047
  <2> QED  BY <1>29, <2>1, <2>2, <2>3, <2>4, <2>5 DEF Table
<1>30. CASE p = "0048"
  <2>1. Patch[p] = P0048  BY <1>30 DEF Patch
  <2>2. /\ Len(P0048.edits) = 1 /\ DOMAIN P0048.edits = 1..1 /\ ~P0048.whole
    BY DEF P0048, InTurn
  <2>3. /\ P0048.edits[1].file = "cron/lifecycle_guard.py"
    BY DEF InTurn, P0048
  <2>4. Fits(P0048.edits[1])  BY DEF Fits, Marked, Checked, Removal, Made, Consumed, InTurn, P0048
  <2> QED  BY <1>30, <2>1, <2>2, <2>3, <2>4 DEF Table
<1>31. CASE p = "0049"
  <2>1. Patch[p] = P0049  BY <1>31 DEF Patch
  <2>2. /\ Len(P0049.edits) = 1 /\ DOMAIN P0049.edits = 1..1 /\ ~P0049.whole
    BY DEF P0049, InTurn
  <2>3. /\ P0049.edits[1].file = "agent/shell_hooks.py"
    BY DEF InTurn, P0049
  <2>4. Fits(P0049.edits[1])  BY DEF Fits, Marked, Checked, Removal, Made, Consumed, InTurn, P0049
  <2> QED  BY <1>31, <2>1, <2>2, <2>3, <2>4 DEF Table
<1>32. CASE p = "0050"
  <2>1. Patch[p] = P0050  BY <1>32 DEF Patch
  <2>2. /\ Len(P0050.edits) = 3 /\ DOMAIN P0050.edits = 1..3 /\ ~P0050.whole
    BY DEF P0050, InTurn
  <2>3. /\ P0050.edits[1].file = "agent/prompt_builder.py"
        /\ P0050.edits[2].file = "agent/agent_init.py"
        /\ P0050.edits[3].file = "agent/system_prompt.py"
    BY DEF InTurn, P0050
  <2>4. Fits(P0050.edits[1])  BY DEF Fits, Marked, Checked, Removal, Made, Consumed, InTurn, P0050
  <2>5. Fits(P0050.edits[2])  BY DEF Fits, Marked, Checked, Removal, Made, Consumed, InTurn, P0050
  <2>6. Fits(P0050.edits[3])  BY DEF Fits, Marked, Checked, Removal, Made, Consumed, InTurn, P0050
  <2> QED  BY <1>32, <2>1, <2>2, <2>3, <2>4, <2>5, <2>6 DEF Table
<1>33. CASE p = "0051"
  <2>1. Patch[p] = P0051  BY <1>33 DEF Patch
  <2>2. /\ Len(P0051.edits) = 2 /\ DOMAIN P0051.edits = 1..2
    BY DEF P0051, Whole
  <2>3. /\ P0051.edits[1].file = "agent/tool_dispatch_helpers.py"
        /\ P0051.edits[2].file = "tools/mcp_tool.py"
    BY DEF Whole, P0051, Dispatch0051, Gate0051, ToolHandlerDef
  <2>4. Fits(P0051.edits[1])  BY DEF Fits, Marked, Checked, Removal, Made, Consumed, Whole, P0051,
      Dispatch0051, Gate0051, ToolHandlerDef
  <2>5. Fits(P0051.edits[2])  BY DEF Fits, Marked, Checked, Removal, Made, Consumed, Whole, P0051,
      Dispatch0051, Gate0051, ToolHandlerDef
  <2> QED  BY <1>33, <2>1, <2>2, <2>3, <2>4, <2>5 DEF Table
<1>34. CASE p = "0052"
  <2>1. Patch[p] = P0052  BY <1>34 DEF Patch
  <2>2. /\ Len(P0052.edits) = 7 /\ DOMAIN P0052.edits = 1..7
    BY DEF P0052, Whole
  <2>3. /\ P0052.edits[1].file = "015-supervise-perms"
        /\ P0052.edits[2].file = "02-reconcile-profiles"
        /\ P0052.edits[3].file = "hermes-exec-shim.sh"
        /\ P0052.edits[4].file = "main-wrapper.sh"
        /\ P0052.edits[5].file = "dashboard/run"
        /\ P0052.edits[6].file = "stage2-hook.sh"
        /\ P0052.edits[7].file = "service_manager.py"
    BY DEF Whole, P0052, Renamed, Stage2
  <2>4. Fits(P0052.edits[1])  BY DEF Fits, Marked, Checked, Removal, Made, Consumed, Whole, P0052,
      Renamed, Stage2
  <2>5. Fits(P0052.edits[2])  BY DEF Fits, Marked, Checked, Removal, Made, Consumed, Whole, P0052,
      Renamed, Stage2
  <2>6. Fits(P0052.edits[3])  BY DEF Fits, Marked, Checked, Removal, Made, Consumed, Whole, P0052,
      Renamed, Stage2
  <2>7. Fits(P0052.edits[4])  BY DEF Fits, Marked, Checked, Removal, Made, Consumed, Whole, P0052,
      Renamed, Stage2
  <2>8. Fits(P0052.edits[5])  BY DEF Fits, Marked, Checked, Removal, Made, Consumed, Whole, P0052,
      Renamed, Stage2
  <2>9. Fits(P0052.edits[6])  BY DEF Fits, Marked, Checked, Removal, Made, Consumed, Whole, P0052,
      Renamed, Stage2
  <2>10. Fits(P0052.edits[7])  BY DEF Fits, Marked, Checked, Removal, Made, Consumed, Whole, P0052,
      Renamed, Stage2
  <2> QED  BY <1>34, <2>1, <2>2, <2>3, <2>4, <2>5, <2>6, <2>7, <2>8, <2>9, <2>10 DEF Table
<1>35. CASE p = "0053"
  <2>1. Patch[p] = P0053  BY <1>35 DEF Patch
  <2>2. /\ Len(P0053.edits) = 1 /\ DOMAIN P0053.edits = 1..1 /\ ~P0053.whole
    BY DEF P0053, InTurn
  <2>3. /\ P0053.edits[1].file = "platforms/webhook.py"
    BY DEF InTurn, P0053
  <2>4. Fits(P0053.edits[1])  BY DEF Fits, Marked, Checked, Removal, Made, Consumed, InTurn, P0053
  <2> QED  BY <1>35, <2>1, <2>2, <2>3, <2>4 DEF Table
<1> QED  BY <1>1, <1>2, <1>3, <1>4, <1>5, <1>6, <1>7, <1>8, <1>9, <1>10, <1>11, <1>12, <1>13,
  <1>14, <1>15, <1>16, <1>17, <1>18, <1>19, <1>20, <1>21, <1>22, <1>23, <1>24, <1>25, <1>26,
  <1>27, <1>28, <1>29, <1>30, <1>31, <1>32, <1>33, <1>34, <1>35 DEF Scripts

(* The files that more than one edit is made in, each with its edits.       *)
Sharing ==
  {{<<"0004", 1>>, <<"0034", 2>>},
   {<<"0007", 2>>, <<"0007", 3>>, <<"0007", 5>>, <<"0042", 2>>},
   {<<"0007", 4>>, <<"0007", 6>>},
   {<<"0008", 1>>, <<"0012", 1>>},
   {<<"0009", 1>>, <<"0022", 1>>, <<"0023", 1>>, <<"0027", 1>>, <<"0051", 2>>},
   {<<"0014", 2>>, <<"0020", 1>>},
   {<<"0016", 2>>, <<"0030", 1>>, <<"0037", 2>>},
   {<<"0028", 1>>, <<"0039", 1>>},
   {<<"0028", 2>>, <<"0030", 2>>, <<"0036", 1>>, <<"0039", 2>>, <<"0041", 2>>},
   {<<"0046", 1>>, <<"0052", 6>>}}

(* Two edits of one file are in one of these groups.                         *)
LEMMA SharedFiles ==
  ASSUME NEW s \in Slots, NEW t \in Slots, EditAt(s).file = EditAt(t).file, s # t
  PROVE  \E S \in Sharing : s \in S /\ t \in S
<1> DEFINE f == EditAt(s).file
<1>1. s = <<s[1], s[2]>> /\ t = <<t[1], t[2]>>  BY DEF Slots
<1>2. <<s[1], s[2], f>> \in Table /\ <<t[1], t[2], f>> \in Table  BY ScriptEdits DEF Slots, EditAt
<1> HIDE DEF f
<1> QED  BY <1>1, <1>2 DEF Table, Sharing

(* A script comes once in order.txt, at its position.                        *)
LEMMA PositionInOrder == \A i \in 1..35 : Position(OrderTxt[i]) = i
<1>1. \A i, j \in 1..35 : OrderTxt[i] = OrderTxt[j] => i = j  BY DEF OrderTxt
<1> QED  BY <1>1 DEF Position

LEMMA Positions ==
  /\ Position("0019") = 1 /\ Position("0004") = 2 /\ Position("0007") = 3
  /\ Position("0008") = 4 /\ Position("0009") = 5 /\ Position("0011") = 6 /\ Position("0012") = 7
  /\ Position("0014") = 8 /\ Position("0016") = 9 /\ Position("0020") = 10
  /\ Position("0018") = 11 /\ Position("0022") = 12 /\ Position("0023") = 13
  /\ Position("0025") = 14 /\ Position("0027") = 15 /\ Position("0028") = 16
  /\ Position("0030") = 17 /\ Position("0034") = 18 /\ Position("0036") = 19
  /\ Position("0037") = 20 /\ Position("0039") = 21 /\ Position("0040") = 22
  /\ Position("0041") = 23 /\ Position("0042") = 24 /\ Position("0043") = 25
  /\ Position("0044") = 26 /\ Position("0045") = 27 /\ Position("0046") = 28
  /\ Position("0047") = 29 /\ Position("0048") = 30 /\ Position("0049") = 31
  /\ Position("0050") = 32 /\ Position("0051") = 33 /\ Position("0052") = 34
  /\ Position("0053") = 35
BY PositionInOrder DEF OrderTxt

(* Edits of one file agree: one step per file, and in it first the pairs of  *)
(* which one needs the text of the other.                                   *)
LEMMA EditsAgree ==
  ASSUME NEW s \in Slots, NEW t \in Slots, EditAt(s).file = EditAt(t).file, s # t
  PROVE  Agree(EditAt(s), EditAt(t), s, t)
<1> SUFFICES ASSUME NEW S \in Sharing, s \in S, t \in S
             PROVE  Agree(EditAt(s), EditAt(t), s, t)
  BY SharedFiles
<1> USE DEF Edit, Tool, Swap, Verify, InTurn, Whole, ReadSilence
<1>1. CASE S = {<<"0004", 1>>, <<"0034", 2>>}
  <2>1. /\ EditAt(<<"0004", 1>>) = P0004.edits[1]
        /\ EditAt(<<"0034", 2>>) = P0034.edits[2]
    BY DEF EditAt, Patch, Scripts
  <2>2. /\ Agree(P0004.edits[1], P0034.edits[2], <<"0004", 1>>, <<"0034", 2>>)
        /\ Agree(P0034.edits[2], P0004.edits[1], <<"0034", 2>>, <<"0004", 1>>)
    BY DEF Agree, Checked, Made, Consumed, P0004, P0034, Model0034, Adapter0034, Analyze0034
  <2> QED  BY <1>1, <2>1, <2>2
<1>2. CASE S = {<<"0007", 2>>, <<"0007", 3>>, <<"0007", 5>>, <<"0042", 2>>}
  <2>1. /\ EditAt(<<"0007", 2>>) = P0007.edits[2]
        /\ EditAt(<<"0007", 3>>) = P0007.edits[3]
        /\ EditAt(<<"0007", 5>>) = P0007.edits[5]
        /\ EditAt(<<"0042", 2>>) = P0042.edits[2]
    BY DEF EditAt, Patch, Scripts
  <2>2. /\ Agree(P0007.edits[2], P0007.edits[5], <<"0007", 2>>, <<"0007", 5>>)
        /\ Agree(P0007.edits[5], P0007.edits[2], <<"0007", 5>>, <<"0007", 2>>)
    <3>1. Earlier(<<"0007", 2>>, <<"0007", 5>>)  BY Positions DEF Earlier
    <3> QED  BY <3>1 DEF Agree, Checked, Made, Consumed, P0007, Follows
  <2>3. /\ Agree(P0007.edits[3], P0007.edits[5], <<"0007", 3>>, <<"0007", 5>>)
        /\ Agree(P0007.edits[5], P0007.edits[3], <<"0007", 5>>, <<"0007", 3>>)
    <3>1. Earlier(<<"0007", 3>>, <<"0007", 5>>)  BY Positions DEF Earlier
    <3> QED  BY <3>1 DEF Agree, Checked, Made, Consumed, P0007, Follows
  <2>4. /\ Agree(P0007.edits[2], P0007.edits[3], <<"0007", 2>>, <<"0007", 3>>)
        /\ Agree(P0007.edits[3], P0007.edits[2], <<"0007", 3>>, <<"0007", 2>>)
        /\ Agree(P0007.edits[2], P0042.edits[2], <<"0007", 2>>, <<"0042", 2>>)
        /\ Agree(P0042.edits[2], P0007.edits[2], <<"0042", 2>>, <<"0007", 2>>)
        /\ Agree(P0007.edits[3], P0042.edits[2], <<"0007", 3>>, <<"0042", 2>>)
        /\ Agree(P0042.edits[2], P0007.edits[3], <<"0042", 2>>, <<"0007", 3>>)
        /\ Agree(P0007.edits[5], P0042.edits[2], <<"0007", 5>>, <<"0042", 2>>)
        /\ Agree(P0042.edits[2], P0007.edits[5], <<"0042", 2>>, <<"0007", 5>>)
    BY DEF Agree, Checked, Made, Consumed, P0007, P0042
  <2> QED  BY <1>2, <2>1, <2>2, <2>3, <2>4
<1>3. CASE S = {<<"0008", 1>>, <<"0012", 1>>}
  <2>1. /\ EditAt(<<"0008", 1>>) = P0008.edits[1]
        /\ EditAt(<<"0012", 1>>) = P0012.edits[1]
    BY DEF EditAt, Patch, Scripts
  <2>2. /\ Agree(P0008.edits[1], P0012.edits[1], <<"0008", 1>>, <<"0012", 1>>)
        /\ Agree(P0012.edits[1], P0008.edits[1], <<"0012", 1>>, <<"0008", 1>>)
    <3>1. Earlier(<<"0008", 1>>, <<"0012", 1>>)  BY Positions DEF Earlier
    <3> QED  BY <3>1 DEF Agree, Checked, Made, Consumed, P0008, P0012, ReadCodeSilence, Follows
  <2> QED  BY <1>3, <2>1, <2>2
<1>4. CASE S = {<<"0009", 1>>, <<"0022", 1>>, <<"0023", 1>>, <<"0027", 1>>, <<"0051", 2>>}
  <2>1. /\ EditAt(<<"0009", 1>>) = P0009.edits[1]
        /\ EditAt(<<"0022", 1>>) = P0022.edits[1]
        /\ EditAt(<<"0023", 1>>) = P0023.edits[1]
        /\ EditAt(<<"0027", 1>>) = P0027.edits[1]
        /\ EditAt(<<"0051", 2>>) = P0051.edits[2]
    BY DEF EditAt, Patch, Scripts
  <2>2. /\ Agree(P0009.edits[1], P0027.edits[1], <<"0009", 1>>, <<"0027", 1>>)
        /\ Agree(P0027.edits[1], P0009.edits[1], <<"0027", 1>>, <<"0009", 1>>)
    <3>1. Earlier(<<"0009", 1>>, <<"0027", 1>>)  BY Positions DEF Earlier
    <3> QED  BY <3>1 DEF Agree, Checked, Made, Consumed, P0009, ToolHandlerDef, P0027, Follows
  <2>3. /\ Agree(P0009.edits[1], P0022.edits[1], <<"0009", 1>>, <<"0022", 1>>)
        /\ Agree(P0022.edits[1], P0009.edits[1], <<"0022", 1>>, <<"0009", 1>>)
    BY DEF Agree, Checked, Made, Consumed, P0009, ToolHandlerDef, P0022
  <2>4. /\ Agree(P0009.edits[1], P0023.edits[1], <<"0009", 1>>, <<"0023", 1>>)
        /\ Agree(P0023.edits[1], P0009.edits[1], <<"0023", 1>>, <<"0009", 1>>)
        /\ Agree(P0022.edits[1], P0023.edits[1], <<"0022", 1>>, <<"0023", 1>>)
        /\ Agree(P0023.edits[1], P0022.edits[1], <<"0023", 1>>, <<"0022", 1>>)
    BY DEF Agree, Checked, Made, Consumed, P0009, ToolHandlerDef, P0022, P0023
  <2>5. /\ Agree(P0022.edits[1], P0027.edits[1], <<"0022", 1>>, <<"0027", 1>>)
        /\ Agree(P0027.edits[1], P0022.edits[1], <<"0027", 1>>, <<"0022", 1>>)
        /\ Agree(P0023.edits[1], P0027.edits[1], <<"0023", 1>>, <<"0027", 1>>)
        /\ Agree(P0027.edits[1], P0023.edits[1], <<"0027", 1>>, <<"0023", 1>>)
    BY DEF Agree, Checked, Made, Consumed, P0022, P0023, P0027
  <2>6. /\ Agree(P0009.edits[1], P0051.edits[2], <<"0009", 1>>, <<"0051", 2>>)
        /\ Agree(P0051.edits[2], P0009.edits[1], <<"0051", 2>>, <<"0009", 1>>)
        /\ Agree(P0022.edits[1], P0051.edits[2], <<"0022", 1>>, <<"0051", 2>>)
        /\ Agree(P0051.edits[2], P0022.edits[1], <<"0051", 2>>, <<"0022", 1>>)
    BY DEF Agree, Checked, Made, Consumed, P0009, ToolHandlerDef, P0022, P0051, Dispatch0051,
      Gate0051
  <2>7. /\ Agree(P0023.edits[1], P0051.edits[2], <<"0023", 1>>, <<"0051", 2>>)
        /\ Agree(P0051.edits[2], P0023.edits[1], <<"0051", 2>>, <<"0023", 1>>)
    BY DEF Agree, Checked, Made, Consumed, P0023, P0051, Dispatch0051, Gate0051, ToolHandlerDef
  <2>8. /\ Agree(P0027.edits[1], P0051.edits[2], <<"0027", 1>>, <<"0051", 2>>)
        /\ Agree(P0051.edits[2], P0027.edits[1], <<"0051", 2>>, <<"0027", 1>>)
    BY DEF Agree, Checked, Made, Consumed, P0027, P0051, Dispatch0051, Gate0051, ToolHandlerDef
  <2> QED  BY <1>4, <2>1, <2>2, <2>3, <2>4, <2>5, <2>6, <2>7, <2>8
<1>5. CASE S = {<<"0014", 2>>, <<"0020", 1>>}
  <2>1. /\ EditAt(<<"0014", 2>>) = P0014.edits[2]
        /\ EditAt(<<"0020", 1>>) = P0020.edits[1]
    BY DEF EditAt, Patch, Scripts
  <2>2. /\ Agree(P0014.edits[2], P0020.edits[1], <<"0014", 2>>, <<"0020", 1>>)
        /\ Agree(P0020.edits[1], P0014.edits[2], <<"0020", 1>>, <<"0014", 2>>)
    <3>1. Earlier(<<"0014", 2>>, <<"0020", 1>>)  BY Positions DEF Earlier
    <3> QED  BY <3>1 DEF Agree, Checked, Made, Consumed, P0014, Auxiliary0014, Provider0014, Pool,
      P0020, Follows
  <2> QED  BY <1>5, <2>1, <2>2
<1>6. CASE S = {<<"0016", 2>>, <<"0030", 1>>, <<"0037", 2>>}
  <2>1. /\ EditAt(<<"0016", 2>>) = P0016.edits[2]
        /\ EditAt(<<"0030", 1>>) = P0030.edits[1]
        /\ EditAt(<<"0037", 2>>) = P0037.edits[2]
    BY DEF EditAt, Patch, Scripts
  <2>2. /\ Agree(P0016.edits[2], P0030.edits[1], <<"0016", 2>>, <<"0030", 1>>)
        /\ Agree(P0030.edits[1], P0016.edits[2], <<"0030", 1>>, <<"0016", 2>>)
        /\ Agree(P0016.edits[2], P0037.edits[2], <<"0016", 2>>, <<"0037", 2>>)
        /\ Agree(P0037.edits[2], P0016.edits[2], <<"0037", 2>>, <<"0016", 2>>)
        /\ Agree(P0030.edits[1], P0037.edits[2], <<"0030", 1>>, <<"0037", 2>>)
        /\ Agree(P0037.edits[2], P0030.edits[1], <<"0037", 2>>, <<"0030", 1>>)
    BY DEF Agree, Checked, Made, Consumed, P0016, P0030, Agent0030, Run0030, P0037
  <2> QED  BY <1>6, <2>1, <2>2
<1>7. CASE S = {<<"0028", 1>>, <<"0039", 1>>}
  <2>1. /\ EditAt(<<"0028", 1>>) = P0028.edits[1]
        /\ EditAt(<<"0039", 1>>) = P0039.edits[1]
    BY DEF EditAt, Patch, Scripts
  <2>2. /\ Agree(P0028.edits[1], P0039.edits[1], <<"0028", 1>>, <<"0039", 1>>)
        /\ Agree(P0039.edits[1], P0028.edits[1], <<"0039", 1>>, <<"0028", 1>>)
    <3>1. Earlier(<<"0028", 1>>, <<"0039", 1>>)  BY Positions DEF Earlier
    <3> QED  BY <3>1 DEF Agree, Checked, Made, Consumed, P0028, Footer0028, EffortSignature,
      EffortField, EffortBuild, Run0028, EarlyEffort, FinalEffort, P0039, Footer0039, Run0039,
      Follows
  <2> QED  BY <1>7, <2>1, <2>2
<1>8. CASE S = {<<"0028", 2>>, <<"0030", 2>>, <<"0036", 1>>, <<"0039", 2>>, <<"0041", 2>>}
  <2>1. /\ EditAt(<<"0028", 2>>) = P0028.edits[2]
        /\ EditAt(<<"0030", 2>>) = P0030.edits[2]
        /\ EditAt(<<"0036", 1>>) = P0036.edits[1]
        /\ EditAt(<<"0039", 2>>) = P0039.edits[2]
        /\ EditAt(<<"0041", 2>>) = P0041.edits[2]
    BY DEF EditAt, Patch, Scripts
  <2>2. /\ Agree(P0028.edits[2], P0036.edits[1], <<"0028", 2>>, <<"0036", 1>>)
        /\ Agree(P0036.edits[1], P0028.edits[2], <<"0036", 1>>, <<"0028", 2>>)
    <3>1. Earlier(<<"0028", 2>>, <<"0036", 1>>)  BY Positions DEF Earlier
    <3> QED  BY <3>1 DEF Agree, Checked, Made, Consumed, P0028, Footer0028, EffortSignature,
      EffortField, EffortBuild, Run0028, EarlyEffort, FinalEffort, P0036, Follows
  <2>3. /\ Agree(P0028.edits[2], P0039.edits[2], <<"0028", 2>>, <<"0039", 2>>)
        /\ Agree(P0039.edits[2], P0028.edits[2], <<"0039", 2>>, <<"0028", 2>>)
    <3>1. Earlier(<<"0028", 2>>, <<"0039", 2>>)  BY Positions DEF Earlier
    <3> QED  BY <3>1 DEF Agree, Checked, Made, Consumed, P0028, Footer0028, EffortSignature,
      EffortField, EffortBuild, Run0028, EarlyEffort, FinalEffort, P0039, Footer0039, Run0039,
      Follows
  <2>4. /\ Agree(P0036.edits[1], P0039.edits[2], <<"0036", 1>>, <<"0039", 2>>)
        /\ Agree(P0039.edits[2], P0036.edits[1], <<"0039", 2>>, <<"0036", 1>>)
    <3>1. Earlier(<<"0036", 1>>, <<"0039", 2>>)  BY Positions DEF Earlier
    <3> QED  BY <3>1 DEF Agree, Checked, Made, Consumed, P0036, P0039, Footer0039, EffortSignature,
      EffortField, EffortBuild, Run0039, EarlyEffort, FinalEffort, Follows
  <2>5. /\ Agree(P0028.edits[2], P0030.edits[2], <<"0028", 2>>, <<"0030", 2>>)
        /\ Agree(P0030.edits[2], P0028.edits[2], <<"0030", 2>>, <<"0028", 2>>)
    BY DEF Agree, Checked, Made, Consumed, P0028, Footer0028, EffortSignature, EffortField,
      EffortBuild, Run0028, EarlyEffort, FinalEffort, P0030, Agent0030, Run0030
  <2>6. /\ Agree(P0030.edits[2], P0036.edits[1], <<"0030", 2>>, <<"0036", 1>>)
        /\ Agree(P0036.edits[1], P0030.edits[2], <<"0036", 1>>, <<"0030", 2>>)
    BY DEF Agree, Checked, Made, Consumed, P0030, Agent0030, Run0030, P0036
  <2>7. /\ Agree(P0030.edits[2], P0039.edits[2], <<"0030", 2>>, <<"0039", 2>>)
        /\ Agree(P0039.edits[2], P0030.edits[2], <<"0039", 2>>, <<"0030", 2>>)
    BY DEF Agree, Checked, Made, Consumed, P0030, Agent0030, Run0030, P0039, Footer0039,
      EffortSignature, EffortField, EffortBuild, Run0039, EarlyEffort, FinalEffort
  <2>8. /\ Agree(P0028.edits[2], P0041.edits[2], <<"0028", 2>>, <<"0041", 2>>)
        /\ Agree(P0041.edits[2], P0028.edits[2], <<"0041", 2>>, <<"0028", 2>>)
        /\ Agree(P0030.edits[2], P0041.edits[2], <<"0030", 2>>, <<"0041", 2>>)
        /\ Agree(P0041.edits[2], P0030.edits[2], <<"0041", 2>>, <<"0030", 2>>)
    BY DEF Agree, Checked, Made, Consumed, P0028, Footer0028, EffortSignature, EffortField,
      EffortBuild, Run0028, EarlyEffort, FinalEffort, P0030, Agent0030, Run0030, P0041,
      Commands0041, Run0041, Slash0041, Locale0041
  <2>9. /\ Agree(P0036.edits[1], P0041.edits[2], <<"0036", 1>>, <<"0041", 2>>)
        /\ Agree(P0041.edits[2], P0036.edits[1], <<"0041", 2>>, <<"0036", 1>>)
        /\ Agree(P0039.edits[2], P0041.edits[2], <<"0039", 2>>, <<"0041", 2>>)
        /\ Agree(P0041.edits[2], P0039.edits[2], <<"0041", 2>>, <<"0039", 2>>)
    BY DEF Agree, Checked, Made, Consumed, P0036, P0039, Footer0039, EffortSignature, EffortField,
      EffortBuild, Run0039, EarlyEffort, FinalEffort, P0041, Commands0041, Run0041, Slash0041,
      Locale0041
  <2> QED  BY <1>8, <2>1, <2>2, <2>3, <2>4, <2>5, <2>6, <2>7, <2>8, <2>9
<1>9. CASE S = {<<"0046", 1>>, <<"0052", 6>>}
  <2>1. /\ EditAt(<<"0046", 1>>) = P0046.edits[1]
        /\ EditAt(<<"0052", 6>>) = P0052.edits[6]
    BY DEF EditAt, Patch, Scripts
  <2>2. /\ Agree(P0046.edits[1], P0052.edits[6], <<"0046", 1>>, <<"0052", 6>>)
        /\ Agree(P0052.edits[6], P0046.edits[1], <<"0052", 6>>, <<"0046", 1>>)
    <3>1. Earlier(<<"0046", 1>>, <<"0052", 6>>)  BY Positions DEF Earlier
    <3> QED  BY <3>1 DEF Agree, Checked, Made, Consumed, P0046, P0052, Renamed, Stage2, Follows
  <2> QED  BY <1>9, <2>1, <2>2
<1>10. CASE S = {<<"0007", 4>>, <<"0007", 6>>}
  <2>1. /\ EditAt(<<"0007", 4>>) = P0007.edits[4]
        /\ EditAt(<<"0007", 6>>) = P0007.edits[6]
    BY DEF EditAt, Patch, Scripts
  <2>2. Earlier(<<"0007", 4>>, <<"0007", 6>>)  BY Positions DEF Earlier
  <2>3. /\ Agree(P0007.edits[4], P0007.edits[6], <<"0007", 4>>, <<"0007", 6>>)
        /\ Agree(P0007.edits[6], P0007.edits[4], <<"0007", 6>>, <<"0007", 4>>)
    BY <2>2 DEF Agree, Checked, Made, Consumed, P0007, Follows
  <2> QED  BY <1>10, <2>1, <2>3
<1> QED  BY <1>1, <1>2, <1>3, <1>4, <1>5, <1>6, <1>7, <1>8, <1>9, <1>10 DEF Sharing

(* A script that takes its files together takes each of them once.           *)
LEMMA WholeFits ==
  ASSUME NEW p \in Scripts, Patch[p].whole,
         NEW i \in 1..Len(Patch[p].edits), NEW j \in 1..Len(Patch[p].edits)
  PROVE  /\ Marked(Patch[p].edits[i])
         /\ \E x \in Patch[p].edits[i].needs : x \notin Patch[p].edits[i].gives
         /\ Patch[p].edits[i].via = "path"
         /\ i # j => Patch[p].edits[i].file # Patch[p].edits[j].file
<1> USE DEF Edit, Tool, Swap, Verify, InTurn, Whole, Made, Consumed
<1>1. CASE p = "0047"
  <2>1. /\ Patch[p] = P0047
        /\ <<p, i, P0047.edits[i].file>> \in Table /\ <<p, j, P0047.edits[j].file>> \in Table
    BY <1>1, ScriptEdits DEF Patch
  <2>2. Len(P0047.edits) = 2  BY DEF P0047
  <2>3. Marked(P0047.edits[1]) /\ \E x \in P0047.edits[1].needs : x \notin P0047.edits[1].gives
    BY DEF Marked, P0047
  <2>4. Marked(P0047.edits[2]) /\ \E x \in P0047.edits[2].needs : x \notin P0047.edits[2].gives
    BY DEF Marked, P0047
  <2>5. /\ P0047.edits[1].via = "path"
         /\ P0047.edits[2].via = "path"
    BY DEF P0047
  <2> QED  BY <1>1, <2>1, <2>2, <2>3, <2>4, <2>5 DEF Table
<1>2. CASE p = "0051"
  <2>1. /\ Patch[p] = P0051
        /\ <<p, i, P0051.edits[i].file>> \in Table /\ <<p, j, P0051.edits[j].file>> \in Table
    BY <1>2, ScriptEdits DEF Patch
  <2>2. Len(P0051.edits) = 2  BY DEF P0051
  <2>3. Marked(P0051.edits[1]) /\ \E x \in P0051.edits[1].needs : x \notin P0051.edits[1].gives
    BY DEF Marked, P0051, Dispatch0051, Gate0051, ToolHandlerDef
  <2>4. Marked(P0051.edits[2]) /\ \E x \in P0051.edits[2].needs : x \notin P0051.edits[2].gives
    BY DEF Marked, P0051, Dispatch0051, Gate0051, ToolHandlerDef
  <2>5. /\ P0051.edits[1].via = "path"
         /\ P0051.edits[2].via = "path"
    BY DEF P0051, Dispatch0051, Gate0051
  <2> QED  BY <1>2, <2>1, <2>2, <2>3, <2>4, <2>5 DEF Table
<1>3. CASE p = "0052"
  <2>1. /\ Patch[p] = P0052
        /\ <<p, i, P0052.edits[i].file>> \in Table /\ <<p, j, P0052.edits[j].file>> \in Table
    BY <1>3, ScriptEdits DEF Patch
  <2>2. Len(P0052.edits) = 7  BY DEF P0052
  <2>3. Marked(P0052.edits[1]) /\ \E x \in P0052.edits[1].needs : x \notin P0052.edits[1].gives
    BY DEF Marked, P0052, Renamed, Stage2
  <2>4. Marked(P0052.edits[2]) /\ \E x \in P0052.edits[2].needs : x \notin P0052.edits[2].gives
    BY DEF Marked, P0052, Renamed, Stage2
  <2>5. Marked(P0052.edits[3]) /\ \E x \in P0052.edits[3].needs : x \notin P0052.edits[3].gives
    BY DEF Marked, P0052, Renamed, Stage2
  <2>6. Marked(P0052.edits[4]) /\ \E x \in P0052.edits[4].needs : x \notin P0052.edits[4].gives
    BY DEF Marked, P0052, Renamed, Stage2
  <2>7. Marked(P0052.edits[5]) /\ \E x \in P0052.edits[5].needs : x \notin P0052.edits[5].gives
    BY DEF Marked, P0052, Renamed, Stage2
  <2>8. Marked(P0052.edits[6]) /\ \E x \in P0052.edits[6].needs : x \notin P0052.edits[6].gives
    <3>1. Marked(P0052.edits[6])  BY DEF Marked, P0052, Stage2, Renamed
    <3>2. "hermes account" \in P0052.edits[6].needs /\ "hermes account" \notin P0052.edits[6].gives
      BY DEF P0052, Stage2, Renamed
    <3> QED  BY <3>1, <3>2
  <2>9. Marked(P0052.edits[7]) /\ \E x \in P0052.edits[7].needs : x \notin P0052.edits[7].gives
    BY DEF Marked, P0052, Renamed, Stage2
  <2>10. /\ P0052.edits[1].via = "path"
         /\ P0052.edits[2].via = "path"
         /\ P0052.edits[3].via = "path"
         /\ P0052.edits[4].via = "path"
         /\ P0052.edits[5].via = "path"
         /\ P0052.edits[6].via = "path"
         /\ P0052.edits[7].via = "path"
    BY DEF P0052, Renamed, Stage2
  <2> QED  BY <1>3, <2>1, <2>2, <2>3, <2>4, <2>5, <2>6, <2>7, <2>8, <2>9, <2>10 DEF Table
<1> QED  BY <1>1, <1>2, <1>3, ScriptEdits

(* The order it lists, and the script that removes the shadowing package.    *)
LEMMA OrderOfScripts == OrderTxt \in Seq(Scripts)  BY DEF OrderTxt, Scripts

LEMMA OrderFacts ==
  /\ Len(OrderTxt) = 35 /\ DOMAIN OrderTxt = 1..35
  /\ \A i \in 1..35 : OrderTxt[i] \in Scripts
  /\ \A p \in Scripts : Position(p) \in 1..35 /\ OrderTxt[Position(p)] = p
<1>4. OrderTxt \in Seq(Scripts)  BY OrderOfScripts
<1>2. Len(OrderTxt) = 35  BY DEF OrderTxt
<1>3. \A p \in Scripts : \E i \in 1..35 : OrderTxt[i] = p
  <2>1. OrderTxt[1] = "0019"  BY DEF OrderTxt
  <2>2. OrderTxt[2] = "0004"  BY DEF OrderTxt
  <2>3. OrderTxt[3] = "0007"  BY DEF OrderTxt
  <2>4. OrderTxt[4] = "0008"  BY DEF OrderTxt
  <2>5. OrderTxt[5] = "0009"  BY DEF OrderTxt
  <2>6. OrderTxt[6] = "0011"  BY DEF OrderTxt
  <2>7. OrderTxt[7] = "0012"  BY DEF OrderTxt
  <2>8. OrderTxt[8] = "0014"  BY DEF OrderTxt
  <2>9. OrderTxt[9] = "0016"  BY DEF OrderTxt
  <2>10. OrderTxt[10] = "0020"  BY DEF OrderTxt
  <2>11. OrderTxt[11] = "0018"  BY DEF OrderTxt
  <2>12. OrderTxt[12] = "0022"  BY DEF OrderTxt
  <2>13. OrderTxt[13] = "0023"  BY DEF OrderTxt
  <2>14. OrderTxt[14] = "0025"  BY DEF OrderTxt
  <2>15. OrderTxt[15] = "0027"  BY DEF OrderTxt
  <2>16. OrderTxt[16] = "0028"  BY DEF OrderTxt
  <2>17. OrderTxt[17] = "0030"  BY DEF OrderTxt
  <2>18. OrderTxt[18] = "0034"  BY DEF OrderTxt
  <2>19. OrderTxt[19] = "0036"  BY DEF OrderTxt
  <2>20. OrderTxt[20] = "0037"  BY DEF OrderTxt
  <2>21. OrderTxt[21] = "0039"  BY DEF OrderTxt
  <2>22. OrderTxt[22] = "0040"  BY DEF OrderTxt
  <2>23. OrderTxt[23] = "0041"  BY DEF OrderTxt
  <2>24. OrderTxt[24] = "0042"  BY DEF OrderTxt
  <2>25. OrderTxt[25] = "0043"  BY DEF OrderTxt
  <2>26. OrderTxt[26] = "0044"  BY DEF OrderTxt
  <2>27. OrderTxt[27] = "0045"  BY DEF OrderTxt
  <2>28. OrderTxt[28] = "0046"  BY DEF OrderTxt
  <2>29. OrderTxt[29] = "0047"  BY DEF OrderTxt
  <2>30. OrderTxt[30] = "0048"  BY DEF OrderTxt
  <2>31. OrderTxt[31] = "0049"  BY DEF OrderTxt
  <2>32. OrderTxt[32] = "0050"  BY DEF OrderTxt
  <2>33. OrderTxt[33] = "0051"  BY DEF OrderTxt
  <2>34. OrderTxt[34] = "0052"  BY DEF OrderTxt
  <2>35. OrderTxt[35] = "0053"  BY DEF OrderTxt
  <2> QED  BY <2>1, <2>2, <2>3, <2>4, <2>5, <2>6, <2>7, <2>8, <2>9, <2>10, <2>11, <2>12, <2>13,
      <2>14, <2>15, <2>16, <2>17, <2>18, <2>19, <2>20, <2>21, <2>22, <2>23, <2>24, <2>25, <2>26,
      <2>27, <2>28, <2>29, <2>30, <2>31, <2>32, <2>33, <2>34, <2>35 DEF Scripts
<1>5. \A p \in Scripts : Position(p) \in 1..35 /\ OrderTxt[Position(p)] = p
  BY <1>3, PositionInOrder
<1>6. \A i \in 1..35 : OrderTxt[i] \in Scripts  BY <1>4, <1>2, ElementOfSeq
<1>7. DOMAIN OrderTxt = 1..35  BY <1>2, <1>4
<1> QED  BY <1>2, <1>5, <1>6, <1>7

(* order.txt has every script after those it follows.                        *)
LEMMA OrderRespects == Respects(OrderTxt)
<1> SUFFICES ASSUME NEW pair \in Follows, NEW i \in 1..35, NEW j \in 1..35,
                    OrderTxt[i] = pair[1], OrderTxt[j] = pair[2]
             PROVE  j < i
  BY OrderFacts DEF Respects
<1>1. i = Position(pair[1]) /\ j = Position(pair[2])  BY PositionInOrder
<1> QED  BY <1>1, Positions DEF Follows

(* The package that shadows `tools` is removed before any file is looked for  *)
(* through it.                                                               *)
LEMMA FirstOfAll ==
  /\ <<"0019", 1>> \in Slots
  /\ EditAt(<<"0019", 1>>).file = "site-packages"
  /\ "stray tools" \in Consumed(EditAt(<<"0019", 1>>))
  /\ \A s \in Slots : EditAt(s).via = "tools" => Position("0019") < Position(s[1])
<1>1. Patch["0019"] = P0019  BY DEF Patch, Scripts
<1>2. Len(P0019.edits) = 1 /\ P0019.edits[1].file = "site-packages" /\ P0019.edits[1].via = "path"
      /\ "stray tools" \in P0019.edits[1].needs /\ P0019.edits[1].gives = {}
  BY DEF P0019, InTurn
<1>3. "0019" \in Scripts  BY DEF Scripts
<1>4. ASSUME NEW s \in Slots, EditAt(s).via = "tools" PROVE Position("0019") < Position(s[1])
  <2>1. /\ s[1] \in Scripts /\ s[2] \in 1..Len(Patch[s[1]].edits)
        /\ Patch[s[1]].edits[s[2]].via = "tools"
    BY <1>4 DEF Slots, EditAt
  <2>4. s[1] # "0019"
    <3>1. ASSUME s[1] = "0019" PROVE FALSE
      <4>1. s[2] = 1
        <5>1. s[2] \in 1..Len(P0019.edits)  BY <2>1, <3>1, <1>1
        <5>2. Len(P0019.edits) = 1  BY <1>2
        <5> QED  BY <5>1, <5>2
      <4>2. P0019.edits[1].via = "tools"  BY <4>1, <2>1, <3>1, <1>1
      <4> QED  BY <4>2, <1>2
    <3> QED  BY <3>1
  <2>2. OrderTxt[1] = "0019"  BY DEF OrderTxt
  <2>5. Position("0019") = 1  BY Positions
  <2>3. OrderTxt[Position(s[1])] = s[1] /\ Position(s[1]) \in 1..35  BY <2>1, OrderFacts
  <2>6. Position(s[1]) # 1  BY <2>2, <2>3, <2>4
  <2> QED  BY <2>5, <2>3, <2>6
<1>5. EditAt(<<"0019", 1>>) = P0019.edits[1]  BY <1>1 DEF EditAt
<1>6. <<"0019", 1>> \in Slots
  <2>1. Len(Patch["0019"].edits) = 1  BY <1>1, <1>2
  <2> QED  BY <2>1, <1>3 DEF Slots
<1> QED  BY <1>2, <1>4, <1>5, <1>6 DEF Consumed

-----------------------------------------------------------------------------
(* A tree and the edits that made it.                                        *)
(* What the edits D make of the file f.                                      *)
EditsIn(D, f) == {s \in D : EditAt(s).file = f}
Text(D, f) ==
    (Drifted(drift)[f] \cup UNION {Made(EditAt(s)) : s \in EditsIn(D, f)})
        \ UNION {Consumed(EditAt(s)) : s \in EditsIn(D, f)}

(* What upstream may have changed.                                           *)
DriftOK == drift \in {NoDrift} \cup [at : Drifts, how : {"missing", "repeated"}]

(* The sets of the model, element by element.                                *)
LEMMA EditsAreSlots ==
  /\ \A e : e \in Edits <=> \E s \in Slots : e = EditAt(s)
  /\ \A s \in Slots : EditAt(s).file \in Files
<1>1. DOMAIN Patch = Scripts  BY DEF Patch
<1>2. ASSUME NEW e \in Edits PROVE \E s \in Slots : e = EditAt(s)
  <2>1. PICK p \in Scripts : e \in ToSet(Patch[p].edits)  BY <1>1 DEF Edits
  <2>2. PICK i \in DOMAIN Patch[p].edits : e = Patch[p].edits[i]  BY <2>1 DEF ToSet
  <2>3. i \in 1..Len(Patch[p].edits) /\ Len(Patch[p].edits) \in Nat  BY <2>2, ScriptEdits
  <2>4. <<p, i>> \in Slots  BY <2>3 DEF Slots
  <2> QED  BY <2>2, <2>4 DEF EditAt
<1>3. ASSUME NEW s \in Slots PROVE EditAt(s) \in Edits
  <2>1. s[1] \in Scripts /\ s[2] \in 1..Len(Patch[s[1]].edits)  BY DEF Slots
  <2>2. s[2] \in DOMAIN Patch[s[1]].edits  BY <2>1, ScriptEdits
  <2>3. EditAt(s) \in ToSet(Patch[s[1]].edits)  BY <2>2 DEF EditAt, ToSet
  <2> QED  BY <2>1, <2>3, <1>1 DEF Edits
<1> QED  BY <1>2, <1>3 DEF Files

LEMMA SlotFits == \A s \in Slots : Fits(EditAt(s))
BY ScriptEdits DEF Slots, EditAt

LEMMA UpstreamIs ==
  ASSUME NEW f \in Files, NEW x
  PROVE  x \in Upstream[f] <=> /\ \E s \in Slots : EditAt(s).file = f /\ x \in EditAt(s).needs
                               /\ \A s \in Slots : EditAt(s).file = f => x \notin Made(EditAt(s))
<1> DEFINE Sought == UNION {e.needs : e \in Of(f)}
<1>1. x \in Sought <=> \E s \in Slots : EditAt(s).file = f /\ x \in EditAt(s).needs
  BY EditsAreSlots DEF Of
<1>2. x \in Introduced(f) <=> \E s \in Slots : EditAt(s).file = f /\ x \in Made(EditAt(s))
  BY EditsAreSlots DEF Of, Introduced, Made
<1>3. Upstream[f] = Sought \ Introduced(f)  BY DEF Upstream
<1> HIDE DEF Sought
<1> QED  BY <1>1, <1>2, <1>3

LEMMA PatchedIs ==
  ASSUME NEW f \in Files, NEW x
  PROVE  x \in Patched[f] <=>
           /\ x \in Upstream[f] \/ \E s \in Slots : EditAt(s).file = f /\ x \in Made(EditAt(s))
           /\ \A s \in Slots : EditAt(s).file = f => x \notin Consumed(EditAt(s))
<1>1. x \in UNION {e.needs \ e.gives : e \in Of(f)}
        <=> \E s \in Slots : EditAt(s).file = f /\ x \in Consumed(EditAt(s))
  BY EditsAreSlots DEF Of, Consumed
<1>2. x \in Introduced(f) <=> \E s \in Slots : EditAt(s).file = f /\ x \in Made(EditAt(s))
  BY EditsAreSlots DEF Of, Introduced, Made
<1>3. Patched[f] = (Upstream[f] \cup Introduced(f)) \ UNION {e.needs \ e.gives : e \in Of(f)}
  BY DEF Patched
<1> QED  BY <1>1, <1>2, <1>3

LEMMA TextIs ==
  ASSUME NEW D \in SUBSET Slots, NEW f \in Files, NEW x
  PROVE  x \in Text(D, f) <=>
           /\ x \in Drifted(drift)[f] \/ \E s \in D : EditAt(s).file = f /\ x \in Made(EditAt(s))
           /\ \A s \in D : EditAt(s).file = f => x \notin Consumed(EditAt(s))
BY DEF Text, EditsIn

LEMMA DriftedIs ==
  ASSUME DriftOK
  PROVE  /\ DOMAIN Drifted(drift) = Files
         /\ \A f \in Files : \A x :
              x \in Drifted(drift)[f]
                <=> x \in Upstream[f] /\ ~(drift.how = "missing" /\ drift.at = <<f, x>>)
<1>1. DOMAIN Upstream = Files  BY DEF Upstream
<1>2. CASE drift = NoDrift  BY <1>1, <1>2 DEF NoDrift, Drifted
<1>3. CASE drift \in [at : Drifts, how : {"missing", "repeated"}]
  <2>4. drift.at \in Anchors  BY <1>3, BuildAssumption
  <2>5. PICK f \in Files : drift.at \in {f} \X Upstream[f]  BY <2>4 DEF Anchors
  <2>1. PICK x \in Upstream[f] : drift.at = <<f, x>>  BY <2>5
  <2>2. CASE drift.how = "missing"
    <3>1. Drifted(drift) = [Upstream EXCEPT ![f] = @ \ {x}]  BY <2>1, <2>2 DEF Drifted
    <3> QED  BY <3>1, <2>1, <2>2, <1>1
  <2>3. CASE drift.how # "missing"  BY <1>1, <2>3 DEF Drifted
  <2> QED  BY <2>2, <2>3
<1> QED  BY <1>2, <1>3 DEF DriftOK

(* The tree is what D makes it; no edit of D needs what only an edit outside  *)
(* D gives; and none of what the edits of D need and keep has drifted.       *)
Closed(D) == \A s \in D, t \in Slots : EditAt(s).file = EditAt(t).file =>
                \A x \in EditAt(s).needs : x \in Made(EditAt(t)) => t \in D
Unhurt(D) == \A s \in D : \A x \in EditAt(s).needs :
                x \in EditAt(s).gives => drift.at # <<EditAt(s).file, x>>
Written(D) == tree = [f \in Files |-> Text(D, f)] /\ Closed(D) /\ Unhurt(D)

LEMMA TreeIs ==
  ASSUME NEW D \in SUBSET Slots, Written(D), DriftOK, NEW f \in Files, NEW x
  PROVE  x \in tree[f] <=>
           /\ \/ x \in Upstream[f] /\ ~(drift.how = "missing" /\ drift.at = <<f, x>>)
              \/ \E s \in D : EditAt(s).file = f /\ x \in Made(EditAt(s))
           /\ \A s \in D : EditAt(s).file = f => x \notin Consumed(EditAt(s))
<1>1. tree[f] = Text(D, f)  BY DEF Written
<1> QED  BY <1>1, TextIs, DriftedIs

LEMMA WritingsStay ==
  ASSUME NEW D \in SUBSET Slots, Written(D), tree' = tree, drift' = drift
  PROVE  Written(D)'
BY DEF Written, Closed, Unhurt, Text

(* An edit that is written once more takes its place among those written.   *)
LEMMA WriteOne ==
  ASSUME NEW D \in SUBSET Slots, NEW s \in Slots, s \notin D, DriftOK, Written(D),
         Exact(EditAt(s)), drift' = drift,
         LET e == EditAt(s) IN tree' = [tree EXCEPT ![e.file] = (@ \ e.needs) \cup e.gives]
  PROVE  Written(D \cup {s})'
<1> DEFINE e == EditAt(s)  f == e.file  C == D \cup {s}
<1>1. f \in Files /\ C \in SUBSET Slots /\ DriftOK'
  BY EditsAreSlots DEF DriftOK, NoDrift
<1>2. \A x \in e.needs : x \in tree[f] /\ drift.at # <<f, x>>  BY DEF Exact
<1>3. DOMAIN tree = Files  BY DEF Written
<1>4. tree'[f] = (tree[f] \ e.needs) \cup e.gives  BY <1>1, <1>3
<1>5. Closed(C)
  <2> SUFFICES ASSUME NEW c \in C, NEW t \in Slots, EditAt(c).file = EditAt(t).file,
                      NEW x \in EditAt(c).needs, x \in Made(EditAt(t)), c = s
               PROVE  t \in C
    BY DEF Closed, Written
  <2>1. x \in tree[f]  BY <1>2
  <2>2. x \notin Upstream[f]  BY <1>1, UpstreamIs
  <2>3. PICK u \in D : EditAt(u).file = f /\ x \in Made(EditAt(u))  BY <2>1, <2>2, <1>1, TreeIs
  <2>4. x # ReadSilence  BY SlotFits DEF Fits
  <2>5. t = u
    <3> SUFFICES ASSUME t # u PROVE FALSE  OBVIOUS
    <3>1. Agree(EditAt(t), EditAt(u), t, u)  BY <2>3, EditsAgree
    <3> QED  BY <3>1, <2>3, <2>4 DEF Agree
  <2> QED  BY <2>3, <2>5
<1>6. Unhurt(C)
  BY <1>2 DEF Unhurt, Written
<1>7. \A x : x \in tree'[f] <=> x \in Text(C, f)
  <2> SUFFICES ASSUME NEW x PROVE x \in tree'[f] <=> x \in Text(C, f)  OBVIOUS
  <2>1. x \in Text(C, f) <=>
           /\ \/ x \in Upstream[f] /\ ~(drift.how = "missing" /\ drift.at = <<f, x>>)
              \/ \E t \in C : EditAt(t).file = f /\ x \in Made(EditAt(t))
           /\ \A t \in C : EditAt(t).file = f => x \notin Consumed(EditAt(t))
    BY <1>1, TextIs, DriftedIs
  <2>2. x \in tree[f] <=>
           /\ \/ x \in Upstream[f] /\ ~(drift.how = "missing" /\ drift.at = <<f, x>>)
              \/ \E t \in D : EditAt(t).file = f /\ x \in Made(EditAt(t))
           /\ \A t \in D : EditAt(t).file = f => x \notin Consumed(EditAt(t))
    BY <1>1, TreeIs
  <2>3. CASE x \in Made(e)
    <3>1. ASSUME NEW t \in D, EditAt(t).file = f, x \in Consumed(EditAt(t)) PROVE FALSE
      BY <3>1, <2>3 DEF Written, Closed, Consumed
    <3> QED  BY <3>1, <2>1, <2>3, <1>4 DEF Made, Consumed
  <2>4. CASE x \in e.gives /\ x \in e.needs
    BY <2>1, <2>2, <2>4, <1>2, <1>4 DEF Made, Consumed
  <2>5. CASE x \notin e.gives /\ x \in e.needs
    BY <2>1, <2>5, <1>4 DEF Made, Consumed
  <2>6. CASE x \notin e.gives /\ x \notin e.needs
    BY <2>1, <2>2, <2>6, <1>4 DEF Made, Consumed
  <2> QED  BY <2>3, <2>4, <2>5, <2>6 DEF Made
<1>8. ASSUME NEW g \in Files, g # f PROVE tree'[g] = Text(C, g)
  <2>1. EditsIn(C, g) = EditsIn(D, g)  BY <1>8 DEF EditsIn
  <2>2. tree'[g] = tree[g]  BY <1>8, <1>3
  <2>3. tree[g] = Text(D, g)  BY DEF Written
  <2> QED  BY <2>1, <2>2, <2>3 DEF Text
<1>9. tree' = [g \in Files |-> Text(C, g)]
  <2>1. DOMAIN tree' = Files /\ tree' = [g \in Files |-> tree'[g]]  BY <1>3
  <2>2. ASSUME NEW g \in Files PROVE tree'[g] = Text(C, g)
    <3>1. CASE g = f
      <4>1. \A x : x \in tree'[g] <=> x \in Text(C, g)  BY <1>7, <3>1
      <4>2. tree'[g] = (tree[f] \ e.needs) \cup e.gives  BY <1>4, <3>1
      <4> QED  BY <4>1, <4>2 DEF Text
    <3> QED  BY <3>1, <1>8
  <2> QED  BY <2>1, <2>2
<1>10. \A g : Text(C, g)' = Text(C, g)  BY DEF Text
<1>11. Unhurt(C)' /\ Closed(C)'  BY <1>5, <1>6 DEF Unhurt, Closed
<1> QED  BY <1>9, <1>10, <1>11 DEF Written

(* A removal that finds nothing takes its place as well.                     *)
LEMMA NothingToRemove ==
  ASSUME NEW D \in SUBSET Slots, NEW s \in Slots, DriftOK, Written(D),
         Removal(EditAt(s)), Applied(EditAt(s)), drift' = drift, tree' = tree
  PROVE  Written(D \cup {s})'
<1> DEFINE e == EditAt(s)  f == e.file  C == D \cup {s}
<1>1. f \in Files /\ C \in SUBSET Slots /\ DriftOK'
  BY EditsAreSlots DEF DriftOK, NoDrift
<1>2. \A x \in e.needs : x \notin tree[f]  BY DEF Applied, Removal
<1>3. DOMAIN tree = Files  BY DEF Written
<1>4. Made(e) = {} /\ Consumed(e) = e.needs  BY DEF Removal, Made, Consumed
<1>5. Closed(C)
  <2> SUFFICES ASSUME NEW t \in Slots, f = EditAt(t).file,
                      NEW x \in e.needs, x \in Made(EditAt(t))
               PROVE  FALSE
    BY DEF Closed, Written
  <2>1. t # s  BY <1>4
  <2>2. Agree(e, EditAt(t), s, t)  BY <2>1, EditsAgree
  <2> QED  BY <2>2 DEF Agree, Removal, Made
<1>6. Unhurt(C)
  BY DEF Unhurt, Written, Removal
<1>7. \A x : x \in tree[f] <=> x \in Text(C, f)
  <2> SUFFICES ASSUME NEW x PROVE x \in tree[f] <=> x \in Text(C, f)  OBVIOUS
  <2>1. x \in Text(C, f) <=>
           /\ \/ x \in Upstream[f] /\ ~(drift.how = "missing" /\ drift.at = <<f, x>>)
              \/ \E t \in C : EditAt(t).file = f /\ x \in Made(EditAt(t))
           /\ \A t \in C : EditAt(t).file = f => x \notin Consumed(EditAt(t))
    BY <1>1, TextIs, DriftedIs
  <2>2. x \in tree[f] <=>
           /\ \/ x \in Upstream[f] /\ ~(drift.how = "missing" /\ drift.at = <<f, x>>)
              \/ \E t \in D : EditAt(t).file = f /\ x \in Made(EditAt(t))
           /\ \A t \in D : EditAt(t).file = f => x \notin Consumed(EditAt(t))
    BY <1>1, TreeIs
  <2> QED  BY <2>1, <2>2, <1>2, <1>4
<1>8. ASSUME NEW g \in Files, g # f PROVE tree[g] = Text(C, g)
  <2>1. EditsIn(C, g) = EditsIn(D, g)  BY <1>8 DEF EditsIn
  <2>3. tree[g] = Text(D, g)  BY DEF Written
  <2> QED  BY <2>1, <2>3 DEF Text
<1>9. tree = [g \in Files |-> Text(C, g)]
  <2>1. tree = [g \in Files |-> tree[g]]  BY DEF Written
  <2>2. ASSUME NEW g \in Files PROVE tree[g] = Text(C, g)
    <3>1. CASE g = f
      <4>1. \A x : x \in tree[g] <=> x \in Text(C, g)  BY <1>7, <3>1
      <4>2. tree[g] = Text(D, g)  BY DEF Written
      <4> QED  BY <4>1, <4>2 DEF Text
    <3> QED  BY <3>1, <1>8
  <2> QED  BY <2>1, <2>2
<1> QED  BY <1>5, <1>6, <1>9, WritingsStay, <1>1 DEF Written

(* What is written is found written: the marker of an edit is there and the  *)
(* text it replaced is not, and a check finds what it checks.                 *)
LEMMA WrittenIsApplied ==
  ASSUME NEW D \in SUBSET Slots, NEW s \in D, DriftOK, Written(D)
  PROVE  IF Checked(EditAt(s)) THEN Exact(EditAt(s)) ELSE Applied(EditAt(s))
<1> DEFINE e == EditAt(s)  f == e.file
<1>1. f \in Files /\ Fits(e)  BY EditsAreSlots, SlotFits
<1>2. CASE Marked(e)
  <2>1. ASSUME NEW x \in e.seen PROVE x \in tree[f]
    <3>1. x \in Made(e)  BY <1>2, <2>1 DEF Marked
    <3>2. ASSUME NEW t \in D, EditAt(t).file = f PROVE x \notin Consumed(EditAt(t))
      <4>1. CASE t = s  BY <4>1, <3>1 DEF Made, Consumed
      <4>2. CASE t # s
        <5>1. Agree(e, EditAt(t), s, t)  BY <4>2, <3>2, EditsAgree
        <5> QED  BY <5>1, <2>1 DEF Agree
      <4> QED  BY <4>1, <4>2
    <3> QED  BY <3>1, <3>2, <1>1, TreeIs
  <2>2. ASSUME NEW x \in e.unseen PROVE x \notin tree[f]
    BY <1>1, <1>2, <2>2, TreeIs DEF Marked
  <2>3. ~Checked(e)  BY <1>1, <1>2 DEF Marked, Checked, Fits, Made
  <2> QED  BY <2>1, <2>2, <2>3 DEF Applied
<1>3. CASE Removal(e)
  <2>1. ASSUME NEW x \in e.unseen PROVE x \notin tree[f]
    BY <1>1, <1>3, <2>1, TreeIs DEF Removal, Consumed
  <2>2. ~Checked(e)  BY <1>3 DEF Removal, Checked
  <2> QED  BY <1>3, <2>1, <2>2 DEF Applied, Removal
<1>4. CASE Checked(e)
  <2> SUFFICES ASSUME NEW x \in e.needs PROVE x \in tree[f] /\ drift.at # <<f, x>>
    BY <1>4 DEF Exact
  <2>1. drift.at # <<f, x>>  BY <1>4 DEF Written, Unhurt, Checked
  <2>2. ASSUME NEW t \in D, EditAt(t).file = f PROVE x \notin Consumed(EditAt(t))
    <3>1. CASE t = s  BY <3>1, <1>4 DEF Checked, Consumed
    <3>2. CASE t # s
      <4>1. Agree(e, EditAt(t), s, t)  BY <3>2, <2>2, EditsAgree
      <4> QED  BY <4>1, <1>4 DEF Agree
    <3> QED  BY <3>1, <3>2
  <2>3. x \in Upstream[f] \/ \E t \in D : EditAt(t).file = f /\ x \in Made(EditAt(t))
    <3>1. CASE \E t \in Slots : EditAt(t).file = f /\ x \in Made(EditAt(t))
      BY <3>1 DEF Written, Closed
    <3>2. CASE ~ \E t \in Slots : EditAt(t).file = f /\ x \in Made(EditAt(t))
      BY <3>2, <1>1, UpstreamIs
    <3> QED  BY <3>1, <3>2
  <2> QED  BY <2>1, <2>2, <2>3, <1>1, TreeIs
<1> QED  BY <1>1, <1>2, <1>3, <1>4 DEF Fits

(* An edit that is found written is, or its marker came with a later one's.  *)
LEMMA AppliedIsWritten ==
  ASSUME NEW D \in SUBSET Slots, NEW s \in Slots, DriftOK, Written(D), Applied(EditAt(s))
  PROVE  /\ ~Checked(EditAt(s))
         /\ Marked(EditAt(s)) => s \in D \/ \E t \in D : <<t[1], s[1]>> \in Follows
<1> DEFINE e == EditAt(s)  f == e.file
<1>1. f \in Files /\ Fits(e)  BY EditsAreSlots, SlotFits
<1>2. ASSUME Checked(e) PROVE FALSE
  <2>1. "never" \in tree[f]  BY <1>2 DEF Applied, Checked
  <2>2. \A t \in Slots : "never" \notin EditAt(t).needs /\ "never" \notin Made(EditAt(t))
    BY SlotFits DEF Fits, Made
  <2>3. "never" \notin Upstream[f]  BY <2>2, <1>1, UpstreamIs
  <2> QED  BY <2>1, <2>2, <2>3, <1>1, TreeIs
<1>3. ASSUME Marked(e), s \notin D PROVE \E t \in D : <<t[1], s[1]>> \in Follows
  <2>1. PICK x \in e.seen : x \in tree[f] /\ x \in Made(e)  BY <1>3 DEF Applied, Marked
  <2>2. x \notin Upstream[f]  BY <2>1, <1>1, UpstreamIs
  <2>3. PICK t \in D : EditAt(t).file = f /\ x \in Made(EditAt(t))  BY <2>1, <2>2, <1>1, TreeIs
  <2>4. Agree(e, EditAt(t), s, t)  BY <1>3, <2>3, EditsAgree
  <2> QED  BY <2>1, <2>3, <2>4 DEF Agree
<1> QED  BY <1>2, <1>3

-----------------------------------------------------------------------------
(* The order of a run.                                                       *)
(* The edits a run that is at the edit k of the line a of o has behind it.   *)
Before(o, a, k) ==
    {s \in Slots : \/ \E i \in 1..(a - 1) : o[i] = s[1]
                   \/ a \in 1..Len(o) /\ o[a] = s[1] /\ s[2] < k}

LEMMA BeforeOne ==
  ASSUME NEW o, Len(o) \in Nat, NEW a \in 1..Len(o), o[a] \in Scripts,
         NEW k \in 1..Len(Patch[o[a]].edits)
  PROVE  LET s == <<o[a], k>>
         IN  /\ s \in Slots /\ EditAt(s) = Patch[o[a]].edits[k]
             /\ Before(o, a, 1) \subseteq Before(o, a, k)
             /\ k < Len(Patch[o[a]].edits) => Before(o, a, k + 1) = Before(o, a, k) \cup {s}
             /\ k = Len(Patch[o[a]].edits) => Before(o, a + 1, 1) = Before(o, a, k) \cup {s}
             /\ Before(o, a + 1, 1) = Before(o, a, 1) \cup {t \in Slots : t[1] = o[a]}
<1> DEFINE p == o[a]  n == Len(Patch[p].edits)  s == <<p, k>>
<1>1. n \in Nat \ {0}  BY ScriptEdits
<1>2. s \in Slots /\ EditAt(s) = Patch[p].edits[k]  BY <1>1 DEF Slots, EditAt
<1>3. \A t \in Slots : /\ t[2] \in Nat \ {0} /\ t = <<t[1], t[2]>> /\ (t[1] = p => t[2] <= n)
  <2> TAKE t \in Slots
  <2>1. t[1] \in Scripts /\ t[2] \in Nat /\ t = <<t[1], t[2]>>  BY DEF Slots
  <2>2. t[2] \in 1..Len(Patch[t[1]].edits) /\ Len(Patch[t[1]].edits) \in Nat
    BY <2>1, ScriptEdits DEF Slots
  <2> QED  BY <2>1, <2>2
<1>4. \A t \in Slots :
         t \in Before(o, a, k) <=> (\E i \in 1..(a - 1) : o[i] = t[1]) \/ (t[1] = p /\ t[2] < k)
  BY DEF Before
<1>5. \A t \in Slots : t \in Before(o, a, 1) <=> (\E i \in 1..(a - 1) : o[i] = t[1])
  BY <1>3 DEF Before
<1>6. \A t \in Slots : t \in Before(o, a + 1, 1) <=> (\E i \in 1..(a - 1) : o[i] = t[1]) \/ t[1] = p
  <2> TAKE t \in Slots
  <2>1. t \in Before(o, a + 1, 1) <=> \E i \in 1..a : o[i] = t[1]  BY <1>3 DEF Before
  <2> QED  BY <2>1
<1>7. \A t \in Slots :
         t \in Before(o, a, k + 1)
           <=> (\E i \in 1..(a - 1) : o[i] = t[1]) \/ (t[1] = p /\ t[2] < k + 1)
  BY DEF Before
<1>8. \A t \in Slots : t = s <=> t[1] = p /\ t[2] = k  BY <1>3
<1>9. /\ Before(o, a, k) \in SUBSET Slots /\ Before(o, a, 1) \in SUBSET Slots
      /\ Before(o, a + 1, 1) \in SUBSET Slots /\ Before(o, a, k + 1) \in SUBSET Slots
  BY DEF Before
<1> HIDE DEF n, s
<1>10. Before(o, a, k + 1) = Before(o, a, k) \cup {s}
  <2>1. \A t \in Slots : t \in Before(o, a, k + 1) <=> t \in Before(o, a, k) \/ t = s
    BY <1>3, <1>4, <1>7, <1>8
  <2> QED  BY <2>1, <1>2, <1>9
<1>11. ASSUME k = n PROVE Before(o, a + 1, 1) = Before(o, a, k) \cup {s}
  <2>1. \A t \in Slots : t \in Before(o, a + 1, 1) <=> t \in Before(o, a, k) \/ t = s
    BY <1>1, <1>3, <1>4, <1>6, <1>8, <1>11
  <2> QED  BY <2>1, <1>2, <1>9
<1>12. Before(o, a + 1, 1) = Before(o, a, 1) \cup {t \in Slots : t[1] = p}
  <2>1. \A t \in Slots : t \in Before(o, a + 1, 1) <=> t \in Before(o, a, 1) \/ t[1] = p
    BY <1>5, <1>6
  <2> QED  BY <2>1, <1>9
<1>13. Before(o, a, 1) \subseteq Before(o, a, k)  BY <1>4, <1>5, <1>9
<1> QED  BY <1>2, <1>10, <1>11, <1>12, <1>13 DEF n, s

LEMMA NothingBefore == \A o : Before(o, 1, 1) = {}
BY ScriptEdits DEF Before, Slots

LEMMA AllBefore ==
  ASSUME NEW o, Len(o) \in Nat, DOMAIN o = 1..Len(o), Scripts \subseteq ToSet(o)
  PROVE  Slots \subseteq Before(o, Len(o) + 1, 1)
<1> SUFFICES ASSUME NEW s \in Slots PROVE \E i \in 1..Len(o) : o[i] = s[1]
  BY DEF Before
<1>1. s[1] \in Scripts  BY DEF Slots
<1> QED  BY <1>1 DEF ToSet

(* In order.txt a script comes once.                                         *)
LEMMA BeforeIsEarlier ==
  ASSUME NEW s \in Slots, NEW t \in Slots
  PROVE  /\ Position(s[1]) \in 1..35 /\ OrderTxt[Position(s[1])] = s[1]
         /\ t \in Before(OrderTxt, Position(s[1]), s[2]) <=> Earlier(t, s)
         /\ Earlier(t, s) => ~Earlier(s, t)
         /\ s # t => Earlier(t, s) \/ Earlier(s, t)
<1>1. \A u \in Slots : /\ u[1] \in Scripts /\ u[2] \in Nat /\ u = <<u[1], u[2]>>
                       /\ Position(u[1]) \in 1..35 /\ OrderTxt[Position(u[1])] = u[1]
  BY OrderFacts DEF Slots
<1>2. \A i \in 1..35 : OrderTxt[i] = t[1] <=> i = Position(t[1])  BY <1>1, PositionInOrder
<1>3. t \in Before(OrderTxt, Position(s[1]), s[2])
        <=> \/ Position(t[1]) \in 1..(Position(s[1]) - 1)
            \/ s[1] = t[1] /\ t[2] < s[2]
  <2>1. t \in Before(OrderTxt, Position(s[1]), s[2])
          <=> \/ \E i \in 1..(Position(s[1]) - 1) : OrderTxt[i] = t[1]
              \/ s[1] = t[1] /\ t[2] < s[2]
    BY <1>1, OrderFacts DEF Before
  <2>2. (\E i \in 1..(Position(s[1]) - 1) : OrderTxt[i] = t[1])
          <=> Position(t[1]) \in 1..(Position(s[1]) - 1)
    BY <1>1, <1>2
  <2> QED  BY <2>1, <2>2
<1> QED  BY <1>1, <1>3 DEF Earlier

(* With no drift, an edit before which just the earlier ones were made finds  *)
(* what it looks for, and its file.                                          *)
LEMMA FirstIsExact ==
  ASSUME NEW D \in SUBSET Slots, DriftOK, Written(D), drift = NoDrift, NEW s \in Slots, s \notin D,
         \A t \in Slots : t # s /\ EditAt(t).file = EditAt(s).file => (t \in D <=> Earlier(t, s))
  PROVE  Exact(EditAt(s))
<1> DEFINE e == EditAt(s)  f == e.file
<1>1. f \in Files /\ f # ""  BY EditsAreSlots, SlotFits DEF Fits
<1> SUFFICES ASSUME NEW x \in e.needs PROVE x \in tree[f]
  BY <1>1 DEF Exact, NoDrift
<1>2. x \in Upstream[f] \/ \E t \in D : EditAt(t).file = f /\ x \in Made(EditAt(t))
  <2>1. CASE \E t \in Slots : EditAt(t).file = f /\ x \in Made(EditAt(t))
    <3>1. PICK t \in Slots : EditAt(t).file = f /\ x \in Made(EditAt(t))  BY <2>1
    <3>2. t # s  BY <3>1 DEF Made
    <3>3. Agree(e, EditAt(t), s, t)  BY <3>1, <3>2, EditsAgree
    <3>4. Earlier(t, s)  BY <3>1, <3>3 DEF Agree
    <3> QED  BY <3>1, <3>2, <3>4
  <2>2. CASE ~ \E t \in Slots : EditAt(t).file = f /\ x \in Made(EditAt(t))
    BY <2>2, <1>1, UpstreamIs
  <2> QED  BY <2>1, <2>2
<1>3. ASSUME NEW t \in D, EditAt(t).file = f PROVE x \notin Consumed(EditAt(t))
  <2>1. t # s /\ t \in Slots  OBVIOUS
  <2>2. Agree(e, EditAt(t), s, t)  BY <2>1, <1>3, EditsAgree
  <2>3. x \in Consumed(EditAt(t)) => Earlier(s, t)  BY <2>2 DEF Agree
  <2>4. Earlier(t, s)  BY <2>1, <1>3
  <2> QED  BY <2>1, <2>3, <2>4, BeforeIsEarlier
<1>4. ~(drift.how = "missing")  BY DEF NoDrift
<1> QED  BY <1>1, <1>2, <1>3, <1>4, TreeIs

LEMMA FirstIsFound ==
  ASSUME NEW D \in SUBSET Slots, DriftOK, Written(D), NEW s \in Slots,
         EditAt(s).via = "tools" => <<"0019", 1>> \in D
  PROVE  Found(EditAt(s))
<1> SUFFICES ASSUME EditAt(s).via = "tools" PROVE "stray tools" \notin tree["site-packages"]
  BY DEF Found
<1>1. "site-packages" \in Files  BY FirstOfAll, EditsAreSlots
<1> DEFINE z == <<"0019", 1>>
<1>2. z \in D /\ EditAt(z).file = "site-packages" /\ "stray tools" \in Consumed(EditAt(z))
  BY FirstOfAll
<1> HIDE DEF z
<1>3. \A f \in Files : \A u \in D :
         EditAt(u).file = f => \A x \in Consumed(EditAt(u)) : x \notin tree[f]
  <2> TAKE f \in Files
  <2> TAKE u \in D
  <2> HAVE EditAt(u).file = f
  <2> TAKE x \in Consumed(EditAt(u))
  <2> QED  BY TreeIs
<1> QED  BY <1>1, <1>2, <1>3

-----------------------------------------------------------------------------
(* Edits that are settled.                                                   *)
(* An edit is settled if its script would leave the tree as it is.           *)
Settled(s) == /\ Found(EditAt(s))
              /\ IF Checked(EditAt(s)) THEN Exact(EditAt(s)) ELSE Applied(EditAt(s))

(* A write settles its edit and leaves the others settled.                   *)
LEMMA WriteSettles ==
  ASSUME NEW s \in Slots, NEW t \in Slots, DOMAIN tree = Files,
         Exact(EditAt(t)), Found(EditAt(t)), drift' = drift, t # s => Settled(s),
         LET e == EditAt(t) IN tree' = [tree EXCEPT ![e.file] = (@ \ e.needs) \cup e.gives]
  PROVE  Settled(s)'
<1> DEFINE e == EditAt(s)  f == e.file  g == EditAt(t)
<1>1. f \in Files /\ g.file \in Files /\ "site-packages" \in Files
  BY EditsAreSlots, FirstOfAll
<1>2. Fits(e) /\ Fits(g)  BY SlotFits
<1>3. /\ tree'[g.file] = (tree[g.file] \ g.needs) \cup g.gives
      /\ \A h \in Files : h # g.file => tree'[h] = tree[h]
  BY <1>1
<1>4. Found(e)'
  <2>1. CASE t = s  BY <2>1, <1>1, <1>2, <1>3 DEF Found, Fits
  <2>2. CASE t # s  BY <2>2, <1>1, <1>2, <1>3 DEF Found, Fits, Settled
  <2> QED  BY <2>1, <2>2
<1>5. CASE t = s
  <2>1. CASE Marked(e)
    <3>1. Applied(e)'  BY <2>1, <1>3, <1>5 DEF Applied, Marked, Made, Consumed
    <3>2. ~Checked(e)  BY <2>1, <1>2 DEF Marked, Checked, Fits, Made
    <3> QED  BY <3>1, <3>2, <1>4 DEF Settled
  <2>2. CASE Removal(e)
    <3>1. Applied(e)'  BY <2>2, <1>3, <1>5 DEF Applied, Removal
    <3>2. ~Checked(e)  BY <2>2 DEF Removal, Checked
    <3> QED  BY <3>1, <3>2, <1>4 DEF Settled
  <2>3. CASE Checked(e)
    <3>1. Exact(e)'  BY <2>3, <1>3, <1>5 DEF Exact, Checked
    <3> QED  BY <2>3, <3>1, <1>4 DEF Settled
  <2> QED  BY <2>1, <2>2, <2>3, <1>2 DEF Fits
<1>6. CASE t # s /\ g.file # f
  <2>1. Settled(s) /\ tree'[f] = tree[f]  BY <1>1, <1>3, <1>6
  <2>2. Applied(e)' <=> Applied(e)  BY <2>1 DEF Applied
  <2>3. Exact(e)' <=> Exact(e)  BY <2>1 DEF Exact
  <2> QED  BY <2>1, <2>2, <2>3, <1>4 DEF Settled
<1>7. CASE t # s /\ g.file = f
  <2>1. Agree(e, g, s, t)  BY <1>7, EditsAgree
  <2>2. ~Checked(e) => Applied(e)'
    <3> SUFFICES ASSUME ~Checked(e) PROVE Applied(e)'  OBVIOUS
    <3>1. Applied(e)  BY <1>7 DEF Settled
    <3>2. \A x \in e.seen : x \in tree'[f]  BY <2>1, <3>1, <1>3, <1>7 DEF Agree, Applied, Consumed
    <3>3. \A x \in e.unseen : x \notin tree'[f]  BY <2>1, <3>1, <1>3, <1>7 DEF Agree, Applied
    <3> QED  BY <3>2, <3>3 DEF Applied
  <2>3. Checked(e) => Exact(e)'
    <3> SUFFICES ASSUME Checked(e) PROVE Exact(e)'  OBVIOUS
    <3>1. Exact(e)  BY <1>7 DEF Settled
    <3>2. \A x \in e.needs : x \in tree'[f]  BY <2>1, <3>1, <1>3, <1>7 DEF Agree, Exact, Consumed
    <3> QED  BY <3>1, <3>2 DEF Exact
  <2> QED  BY <2>2, <2>3, <1>4 DEF Settled
<1> QED  BY <1>5, <1>6, <1>7

(* ... as does a step that leaves the tree.                                   *)
LEMMA SettledStays ==
  ASSUME NEW s \in Slots, Settled(s), tree' = tree, drift' = drift
  PROVE  Settled(s)'
BY DEF Settled, Found, Applied, Exact
-----------------------------------------------------------------------------
(* The inductive invariant.  Typing: where a run can be, and what its end     *)
(* means.                                                                   *)
BuildTypeOK ==
    /\ Len(order) \in Nat /\ DOMAIN order = 1..Len(order)
    /\ DriftOK
    /\ at \in 1..(Len(order) + 1)
    /\ \A i \in 1..(at - 1) : order[i] \in Scripts
    /\ edit \in Nat \ {0}
    /\ edit > 1 => at <= Len(order) /\ order[at] \in Scripts /\ edit <= Len(Now.edits)
    /\ phase \in {"apply", "done", "failed", "killed"}
    /\ kills \in Nat /\ (phase = "killed" => kills > 0)
    /\ phase = "done" => built # Unbuilt /\ at = Len(order) + 1 /\ AllListed

(* A patch that takes its files together has found all it will yet write.    *)
ReadyWhole ==
    phase = "apply" /\ edit > 1 =>
        (Now.whole => \A j \in edit..Len(Now.edits) : Exact(Now.edits[j]))

(* The edits a run has passed are settled; once a tree was patched, all are.  *)
SettledSoFar == \A s \in Before(order, at, edit) : Settled(s)

SettledForGood ==
    built # Unbuilt =>
        /\ tree = built /\ phase # "failed" /\ (edit > 1 => ~Now.whole)
        /\ \A i \in 1..Len(order) : order[i] \in Scripts
        /\ \A s \in Slots : Settled(s)
        /\ AllListed

(* If the order keeps what the scripts follow, the edits a run has passed are  *)
(* in D, and with each edit of D those that were passed before it; in a first *)
(* run that is not interrupted there are no others.                          *)
InOrder(D) ==
    Respects(order) =>
        /\ Before(order, at, edit) \subseteq D
        /\ \A t \in D : \E a \in 1..Len(order) :
              order[a] = t[1] /\ Before(order, a, t[2]) \subseteq D

FirstTime(D) ==
    kills = 0 /\ built = Unbuilt /\ order = OrderTxt => D \subseteq Before(order, at, edit)

BuildInv ==
    /\ BuildTypeOK /\ ReadyWhole /\ SettledSoFar /\ SettledForGood
    /\ \E D \in SUBSET Slots : Written(D) /\ InOrder(D) /\ FirstTime(D)
    /\ OrderFits /\ ResumesUnlessWhole

LEMMA BuildBegins == BuildInit => BuildInv
<1> SUFFICES ASSUME BuildInit PROVE BuildInv  OBVIOUS
<1>1. Len(order) \in Nat /\ DOMAIN order = 1..Len(order)
  <2>1. CASE order = OrderTxt  BY <2>1, OrderFacts
  <2>2. CASE order \in Orders
    <3>1. order \in Seq(STRING)  BY <2>2, BuildAssumption
    <3> QED  BY <3>1
  <2> QED  BY <2>1, <2>2 DEF BuildInit
<1>2. DriftOK  BY DEF BuildInit, DriftOK
<1>3. BuildTypeOK
  BY <1>1, <1>2 DEF BuildTypeOK, BuildInit
<1>4. Written({})
  <2>1. \A f : Text({}, f) = Drifted(drift)[f]  BY DEF Text, EditsIn
  <2>2. Drifted(drift) = [f \in Files |-> Drifted(drift)[f]]
    <3>1. CASE drift.how = "missing"  BY <3>1 DEF Drifted, Upstream
    <3>2. CASE drift.how # "missing"  BY <3>2 DEF Drifted, Upstream
    <3> QED  BY <3>1, <3>2
  <2>3. tree = Drifted(drift)  BY DEF BuildInit
  <2>4. [f \in Files |-> Drifted(drift)[f]] = [f \in Files |-> Text({}, f)]  BY <2>1
  <2>5. tree = [f \in Files |-> Text({}, f)]  BY <2>2, <2>3, <2>4
  <2> QED  BY <2>5 DEF Written, Closed, Unhurt
<1>5. Before(order, at, edit) = {}  BY NothingBefore DEF BuildInit
<1> QED
  BY <1>3, <1>4, <1>5
  DEF BuildInv, BuildInit, ReadyWhole, SettledSoFar, SettledForGood, InOrder, FirstTime, OrderFits,
      ResumesUnlessWhole

-----------------------------------------------------------------------------
(* The steps of a run.                                                       *)
(* The ways a script goes on, refuses or writes.                            *)
Here == <<order[at], edit>>
Rest == UNCHANGED <<order, drift, kills, runs, built>>

Refuses == /\ Refuse /\ Rest
           /\ \/ order[at] \notin Scripts
              \/ /\ order[at] \in Scripts /\ ~Now.whole
                 /\ ~Found(EditAt(Here)) \/ (~Applied(EditAt(Here)) /\ ~Exact(EditAt(Here)))
              \/ /\ order[at] \in Scripts /\ Now.whole /\ edit = 1
                 /\ ~EachApplied(Now) /\ ~EachExact(Now)

Skips == /\ order[at] \in Scripts /\ ~Now.whole
         /\ Found(EditAt(Here)) /\ Applied(EditAt(Here))
         /\ tree' = tree /\ Onward /\ Rest

SkipsWhole == /\ order[at] \in Scripts /\ Now.whole /\ edit = 1 /\ EachApplied(Now)
              /\ tree' = tree /\ at' = at + 1 /\ edit' = 1 /\ phase' = phase /\ Rest

Writes == /\ order[at] \in Scripts /\ Found(EditAt(Here)) /\ Exact(EditAt(Here))
          /\ ~Now.whole => ~Applied(EditAt(Here))
          /\ Now.whole => /\ \A j \in edit..Len(Now.edits) : Exact(Now.edits[j])
                          /\ edit = 1 => ~EachApplied(Now)
          /\ Write(EditAt(Here)) /\ Rest

LEMMA HereIsASlot ==
  ASSUME BuildTypeOK, at <= Len(order), order[at] \in Scripts
  PROVE  /\ at \in 1..Len(order) /\ edit \in 1..Len(Now.edits) /\ Len(Now.edits) \in Nat \ {0}
         /\ Here \in Slots /\ EditAt(Here) = Now.edits[edit]
<1>1. at \in 1..Len(order)  BY DEF BuildTypeOK
<1>2. Len(Now.edits) \in Nat \ {0}  BY ScriptEdits DEF Now
<1>3. edit \in 1..Len(Now.edits)  BY <1>2 DEF BuildTypeOK
<1> QED  BY <1>1, <1>2, <1>3 DEF Here, Slots, EditAt, Now

LEMMA ScriptIs ==
  ASSUME BuildTypeOK, ReadyWhole, RunScript
  PROVE  phase = "apply" /\ at \in 1..Len(order) /\ (Refuses \/ Skips \/ SkipsWhole \/ Writes)
<1>1. phase = "apply" /\ at <= Len(order) /\ Rest  BY DEF RunScript, Rest
<1>2. at \in 1..Len(order)  BY <1>1 DEF BuildTypeOK
<1>3. DOMAIN Patch = Scripts  BY DEF Patch
<1>4. CASE order[at] \notin Scripts  BY <1>1, <1>2, <1>3, <1>4 DEF RunScript, Refuses
<1>5. CASE order[at] \in Scripts
  <2> DEFINE e == Now.edits[edit]
  <2>1. /\ EditAt(Here) = e /\ edit \in 1..Len(Now.edits) /\ Len(Now.edits) \in Nat \ {0}
    BY <1>1, <1>5, HereIsASlot
  <2>2. IF Now.whole THEN IF edit = 1 THEN Begins(Now) ELSE Write(e) ELSE Steps(e)
    BY <1>3, <1>5 DEF RunScript
  <2> HIDE DEF e
  <2>3. CASE ~Now.whole
    <3>1. Steps(e)  BY <2>2, <2>3
    <3>2. CASE ~Found(e) /\ Refuse  BY <3>2, <2>1, <2>3, <1>1, <1>2, <1>5 DEF Refuses
    <3>3. CASE Found(e) /\ Applied(e) /\ UNCHANGED tree /\ Onward
      BY <3>3, <2>1, <2>3, <1>1, <1>2, <1>5 DEF Skips
    <3>4. CASE Found(e) /\ ~Applied(e) /\ Exact(e) /\ Write(e)
      BY <3>4, <2>1, <2>3, <1>1, <1>2, <1>5 DEF Writes
    <3>5. CASE Found(e) /\ ~Applied(e) /\ ~Exact(e) /\ Refuse
      BY <3>5, <2>1, <2>3, <1>1, <1>2, <1>5 DEF Refuses
    <3> QED  BY <3>1, <3>2, <3>3, <3>4, <3>5, <1>1, <1>2 DEF Steps
  <2>4. CASE Now.whole
    <3>1. Found(e)
      <4>1. e.via = "path"  BY <2>1, <2>4, <1>5, WholeFits DEF Now, e
      <4> QED  BY <4>1 DEF Found
    <3>2. CASE edit = 1
      <4>1. Begins(Now)  BY <2>2, <2>4, <3>2
      <4>2. CASE EachApplied(Now) /\ at' = at + 1 /\ UNCHANGED <<tree, edit, phase>>
        BY <4>2, <2>4, <3>2, <1>1, <1>2, <1>5 DEF SkipsWhole
      <4>3. CASE ~EachApplied(Now) /\ EachExact(Now) /\ Write(Now.edits[1])
        <5>1. \A j \in edit..Len(Now.edits) : Exact(Now.edits[j])  BY <4>3, <3>2 DEF EachExact
        <5>2. e = Now.edits[1]  BY <3>2 DEF e
        <5>3. Exact(e)  BY <5>1, <2>1 DEF e
        <5> QED  BY <4>3, <5>1, <5>2, <5>3, <2>1, <2>4, <3>1, <1>1, <1>2, <1>5 DEF Writes
      <4>4. CASE ~EachApplied(Now) /\ ~EachExact(Now) /\ Refuse
        BY <4>4, <2>4, <3>2, <1>1, <1>2, <1>5 DEF Refuses
      <4> QED  BY <4>1, <4>2, <4>3, <4>4 DEF Begins
    <3>3. CASE edit # 1
      <4>1. Write(e)  BY <2>2, <2>4, <3>3
      <4>2. \A j \in edit..Len(Now.edits) : Exact(Now.edits[j])
        BY <1>1, <2>1, <2>4, <3>3 DEF ReadyWhole
      <4>3. Exact(e)  BY <4>2, <2>1 DEF e
      <4> QED  BY <4>1, <4>2, <4>3, <2>1, <2>4, <3>1, <3>3, <1>1, <1>2, <1>5 DEF Writes
    <3> QED  BY <3>2, <3>3
  <2> QED  BY <2>3, <2>4
<1> QED  BY <1>4, <1>5

(* Where a script goes on to, and the edits that lie behind it then.         *)
LEMMA OnwardIs ==
  ASSUME BuildTypeOK, at <= Len(order), order[at] \in Scripts, Onward, order' = order
  PROVE  /\ phase' = phase
         /\ Before(order, at, edit)' = Before(order, at, edit) \cup {Here}
         /\ \/ at' = at /\ edit' = edit + 1 /\ edit < Len(Now.edits)
            \/ at' = at + 1 /\ edit' = 1
<1>1. /\ at \in 1..Len(order) /\ edit \in 1..Len(Now.edits) /\ Len(Now.edits) \in Nat \ {0}
  BY HereIsASlot
<1>2. Len(order) \in Nat  BY DEF BuildTypeOK
<1>3. CASE edit = Len(Now.edits)
  <2>1. at' = at + 1 /\ edit' = 1 /\ phase' = phase  BY <1>3 DEF Onward, LastEdit
  <2>2. Before(order, at + 1, 1) = Before(order, at, edit) \cup {Here}
    BY <1>1, <1>2, <1>3, BeforeOne DEF Here, Now
  <2>3. Before(order, at, edit)' = Before(order, at + 1, 1)  BY <2>1 DEF Before
  <2> QED  BY <2>1, <2>2, <2>3
<1>4. CASE edit # Len(Now.edits)
  <2>1. at' = at /\ edit' = edit + 1 /\ phase' = phase  BY <1>4 DEF Onward, LastEdit
  <2>2. edit < Len(Now.edits)  BY <1>1, <1>4
  <2>4. Before(order, at, edit + 1) = Before(order, at, edit) \cup {Here}
    BY <1>1, <1>2, <2>2, BeforeOne DEF Here, Now
  <2>3. Before(order, at, edit)' = Before(order, at, edit + 1)  BY <2>1 DEF Before
  <2> QED  BY <2>1, <2>2, <2>3, <2>4
<1> QED  BY <1>3, <1>4

LEMMA SkipsWholeIs ==
  ASSUME BuildTypeOK, at <= Len(order), SkipsWhole
  PROVE  Before(order, at, edit)' = Before(order, at, edit) \cup {t \in Slots : t[1] = order[at]}
<1>1. at \in 1..Len(order) /\ edit \in 1..Len(Now.edits) /\ Len(order) \in Nat
  BY HereIsASlot DEF SkipsWhole, BuildTypeOK
<1>2. Before(order, at + 1, 1) = Before(order, at, 1) \cup {t \in Slots : t[1] = order[at]}
  BY <1>1, BeforeOne DEF SkipsWhole, Now
<1>3. Before(order, at, edit)' = Before(order, at + 1, 1)  BY DEF Before, SkipsWhole, Rest
<1> QED  BY <1>2, <1>3 DEF SkipsWhole

(* The steps, one conjunct after the other.                                  *)
LEMMA BuildTypeStep ==
  ASSUME BuildTypeOK, ReadyWhole, DOMAIN tree = Files, [BuildNext]_buildVars
  PROVE  BuildTypeOK'
<1>1. ASSUME drift' = drift PROVE DriftOK'
  BY <1>1 DEF BuildTypeOK, DriftOK, NoDrift
<1>2. CASE RunScript
  <2>1. phase = "apply" /\ at \in 1..Len(order) /\ (Refuses \/ Skips \/ SkipsWhole \/ Writes)
    BY <1>2, ScriptIs
  <2>2. order' = order /\ drift' = drift /\ kills' = kills
    BY <1>2 DEF RunScript
  <2>3. CASE Refuses
    <3>1. phase' = "failed" /\ at' = at /\ edit' = edit  BY <2>3 DEF Refuses, Refuse
    <3> QED  BY <1>1, <2>2, <3>1 DEF BuildTypeOK, Now
  <2>4. CASE SkipsWhole
    <3>1. order[at] \in Scripts /\ phase' = phase /\ at' = at + 1 /\ edit' = 1
      BY <2>4 DEF SkipsWhole
    <3> QED  BY <1>1, <2>1, <2>2, <3>1 DEF BuildTypeOK, Now
  <2>5. CASE Skips \/ Writes
    <3>1. order[at] \in Scripts /\ Onward  BY <2>5 DEF Skips, Writes, Write
    <3>2. /\ phase' = phase
          /\ \/ at' = at /\ edit' = edit + 1 /\ edit < Len(Now.edits)
             \/ at' = at + 1 /\ edit' = 1
      BY <2>1, <2>2, <3>1, OnwardIs
    <3>3. edit \in 1..Len(Now.edits) /\ Len(Now.edits) \in Nat  BY <2>1, <3>1, HereIsASlot
    <3>4. CASE at' = at /\ edit' = edit + 1 /\ edit < Len(Now.edits)
      BY <1>1, <2>1, <2>2, <3>1, <3>2, <3>3, <3>4 DEF BuildTypeOK, Now
    <3>5. CASE at' = at + 1 /\ edit' = 1
      BY <1>1, <2>1, <2>2, <3>1, <3>2, <3>5 DEF BuildTypeOK
    <3> QED  BY <3>2, <3>4, <3>5
  <2> QED  BY <2>1, <2>3, <2>4, <2>5
<1>3. CASE Finish
  <2>1. tree # Unbuilt
    <3>1. "site-packages" \in DOMAIN tree  BY FirstOfAll, EditsAreSlots
    <3> QED  BY <3>1 DEF Unbuilt
  <2>2. built' # Unbuilt \/ ~AllListed  BY <1>3, <2>1 DEF Finish
  <2>3. at = Len(order) + 1  BY <1>3 DEF Finish, BuildTypeOK
  <2>4. AllListed' <=> AllListed  BY <1>3 DEF Finish, AllListed
  <2> QED  BY <1>1, <1>3, <2>2, <2>3, <2>4 DEF Finish, BuildTypeOK, Now
<1>4. CASE Kill
  BY <1>1, <1>4 DEF Kill, BuildTypeOK, Now
<1>5. CASE Again
  BY <1>1, <1>5 DEF Again, BuildTypeOK
<1>6. CASE UNCHANGED buildVars
  BY <1>1, <1>6 DEF buildVars, BuildTypeOK, Now, AllListed
<1> QED  BY <1>2, <1>3, <1>4, <1>5, <1>6 DEF BuildNext

(* What a patch that takes its files together has found, it still finds.     *)
LEMMA ReadyStep ==
  ASSUME BuildTypeOK, ReadyWhole, DOMAIN tree = Files, [BuildNext]_buildVars
  PROVE  ReadyWhole'
<1>1. CASE RunScript
  <2>1. phase = "apply" /\ at \in 1..Len(order) /\ (Refuses \/ Skips \/ SkipsWhole \/ Writes)
    BY <1>1, ScriptIs
  <2>2. order' = order /\ drift' = drift  BY <1>1 DEF RunScript
  <2>3. CASE Refuses  BY <2>3 DEF Refuses, Refuse, ReadyWhole
  <2>4. CASE SkipsWhole  BY <2>4 DEF SkipsWhole, ReadyWhole
  <2>5. CASE Skips \/ Writes
    <3>1. order[at] \in Scripts /\ Onward  BY <2>5 DEF Skips, Writes, Write
    <3>2. (at' = at /\ edit' = edit + 1) \/ edit' = 1  BY <2>1, <2>2, <3>1, OnwardIs
    <3>3. CASE edit' = 1  BY <3>3 DEF ReadyWhole
    <3>4. CASE at' = at /\ edit' = edit + 1 /\ Now.whole
      <4>1. Writes  BY <2>5, <3>4 DEF Skips
      <4>2. /\ edit \in 1..Len(Now.edits) /\ Len(Now.edits) \in Nat /\ Here \in Slots
            /\ EditAt(Here) = Now.edits[edit]
        BY <2>1, <3>1, HereIsASlot
      <4>3. Now' = Now  BY <2>2, <3>4 DEF Now
      <4>4. ASSUME NEW j \in (edit + 1)..Len(Now.edits) PROVE Exact(Now.edits[j])'
        <5>1. Exact(Now.edits[j])  BY <3>4, <4>1, <4>2 DEF Writes
        <5>2. Now.edits[j].file # Now.edits[edit].file
          BY <3>1, <3>4, <4>2, WholeFits DEF Now
        <5>3. Now.edits[j].file \in Files
          <6>1. <<order[at], j>> \in Slots /\ EditAt(<<order[at], j>>) = Now.edits[j]
            BY <3>1, <4>2 DEF Slots, EditAt, Now
          <6> QED  BY <6>1, EditsAreSlots
        <5>4. tree' = [tree EXCEPT ![Now.edits[edit].file] =
                         (@ \ Now.edits[edit].needs) \cup Now.edits[edit].gives]
          BY <4>1, <4>2 DEF Writes, Write
        <5>5. tree'[Now.edits[j].file] = tree[Now.edits[j].file]  BY <5>2, <5>3, <5>4
        <5> QED  BY <5>1, <5>5, <4>3, <2>2 DEF Exact
      <4> QED  BY <3>4, <4>3, <4>4 DEF ReadyWhole
    <3>5. CASE at' = at /\ ~Now.whole  BY <2>2, <3>5 DEF ReadyWhole, Now
    <3> QED  BY <3>2, <3>3, <3>4, <3>5
  <2> QED  BY <2>1, <2>3, <2>4, <2>5
<1>2. CASE Finish \/ Kill  BY <1>2 DEF Finish, Kill, ReadyWhole
<1>3. CASE Again  BY <1>3 DEF Again, ReadyWhole
<1>4. CASE UNCHANGED buildVars  BY <1>4 DEF buildVars, ReadyWhole, Now, Exact
<1> QED  BY <1>1, <1>2, <1>3, <1>4 DEF BuildNext

(* The edits a run has passed stay settled, and those it passes become so.   *)
LEMMA SettledStep ==
  ASSUME BuildTypeOK, ReadyWhole, SettledSoFar, NEW D \in SUBSET Slots, Written(D),
         [BuildNext]_buildVars
  PROVE  SettledSoFar'
<1>1. DOMAIN tree = Files /\ DriftOK  BY DEF Written, BuildTypeOK
<1>2. \A o, a, k : Before(o, a, k) \in SUBSET Slots  BY DEF Before
<1>3. CASE RunScript
  <2>1. phase = "apply" /\ at \in 1..Len(order) /\ (Refuses \/ Skips \/ SkipsWhole \/ Writes)
    BY <1>3, ScriptIs
  <2>2. order' = order /\ drift' = drift  BY <1>3 DEF RunScript
  <2>3. CASE Refuses
    <3>1. tree' = tree /\ Before(order, at, edit)' = Before(order, at, edit)
      BY <2>2, <2>3 DEF Refuses, Refuse, Before
    <3> QED  BY <1>2, <2>2, <3>1, SettledStays DEF SettledSoFar
  <2>4. CASE SkipsWhole
    <3>1. Before(order, at, edit)' = Before(order, at, edit) \cup {t \in Slots : t[1] = order[at]}
      BY <2>1, <2>4, SkipsWholeIs
    <3>2. tree' = tree  BY <2>4 DEF SkipsWhole
    <3>3. ASSUME NEW t \in Slots, t[1] = order[at] PROVE Settled(t)
      <4>1. /\ t[1] \in Scripts /\ Now.whole
            /\ t[2] \in 1..Len(Now.edits) /\ EditAt(t) = Now.edits[t[2]]
        BY <2>4, <3>3 DEF SkipsWhole, Slots, EditAt, Now
      <4>2. Marked(EditAt(t)) /\ EditAt(t).via = "path"  BY <4>1, <3>3, WholeFits DEF EditAt, Now
      <4>3. ~Checked(EditAt(t))
        BY <4>2, SlotFits DEF Marked, Checked, Made, Fits
      <4>4. Applied(EditAt(t))  BY <2>4, <4>1 DEF SkipsWhole, EachApplied
      <4> QED  BY <4>2, <4>3, <4>4 DEF Settled, Found
    <3>4. \A t \in Before(order, at, edit)' : t \in Slots /\ Settled(t)
      BY <3>1, <3>3, <1>2 DEF SettledSoFar
    <3> QED  BY <2>2, <3>2, <3>4, SettledStays DEF SettledSoFar
  <2>5. CASE Skips
    <3>1. Before(order, at, edit)' = Before(order, at, edit) \cup {Here} /\ Here \in Slots
      BY <2>1, <2>2, <2>5, OnwardIs, HereIsASlot DEF Skips
    <3>2. tree' = tree  BY <2>5 DEF Skips
    <3>3. Settled(Here)
      <4>1. ~Checked(EditAt(Here))  BY <1>1, <2>5, <3>1, AppliedIsWritten DEF Skips
      <4> QED  BY <2>5, <4>1 DEF Settled, Skips
    <3>4. \A t \in Before(order, at, edit)' : t \in Slots /\ Settled(t)
      BY <3>1, <3>3, <1>2 DEF SettledSoFar
    <3> QED  BY <2>2, <3>2, <3>4, SettledStays DEF SettledSoFar
  <2>6. CASE Writes
    <3>1. Before(order, at, edit)' = Before(order, at, edit) \cup {Here} /\ Here \in Slots
      BY <2>1, <2>2, <2>6, OnwardIs, HereIsASlot DEF Writes, Write
    <3>2. PICK w \in Slots : w = Here  BY <3>1
    <3>3. /\ Exact(EditAt(w)) /\ Found(EditAt(w))
          /\ tree' = [tree EXCEPT ![EditAt(w).file] = (@ \ EditAt(w).needs) \cup EditAt(w).gives]
      BY <2>6, <3>2 DEF Writes, Write
    <3>4. \A t \in Before(order, at, edit)' : t \in Slots /\ (w # t => Settled(t))
      BY <3>1, <3>2, <1>2 DEF SettledSoFar
    <3>5. ASSUME NEW t \in Slots, w # t => Settled(t) PROVE Settled(t)'
      BY <1>1, <2>2, <3>3, <3>5, WriteSettles
    <3> QED  BY <3>4, <3>5 DEF SettledSoFar
  <2> QED  BY <2>1, <2>3, <2>4, <2>5, <2>6
<1>4. CASE Finish \/ Kill \/ UNCHANGED buildVars
  <2>1. /\ order' = order /\ drift' = drift /\ tree' = tree /\ at' = at /\ edit' = edit
    BY <1>4 DEF Finish, Kill, buildVars
  <2>2. Before(order, at, edit)' = Before(order, at, edit)  BY <2>1 DEF Before
  <2> QED  BY <1>2, <2>1, <2>2, SettledStays DEF SettledSoFar
<1>5. CASE Again
  <2>1. Before(order, at, edit)' = {}
    <3>1. Before(order, at, edit)' = Before(order, 1, 1)  BY <1>5 DEF Again, Before
    <3> QED  BY <3>1, NothingBefore
  <2> QED  BY <2>1 DEF SettledSoFar
<1> QED  BY <1>3, <1>4, <1>5 DEF BuildNext

(* Over a tree that was patched no script refuses, and none changes it.      *)
LEMMA SettledScript ==
  ASSUME BuildTypeOK, ReadyWhole, SettledForGood, built # Unbuilt,
         NEW D \in SUBSET Slots, Written(D), RunScript
  PROVE  ~Refuses /\ tree' = tree /\ (edit' > 1 => ~Now.whole /\ at' = at)
<1>1. DOMAIN tree = Files /\ DriftOK  BY DEF Written, BuildTypeOK
<1>2. phase = "apply" /\ at \in 1..Len(order) /\ (Refuses \/ Skips \/ SkipsWhole \/ Writes)
  BY ScriptIs
<1>3. order[at] \in Scripts  BY <1>2 DEF SettledForGood
<1>4. /\ Here \in Slots /\ EditAt(Here) = Now.edits[edit]
      /\ edit \in 1..Len(Now.edits) /\ Len(Now.edits) \in Nat \ {0}
  BY <1>2, <1>3, HereIsASlot
<1>5. Settled(Here)  BY <1>4 DEF SettledForGood
<1>6. order' = order  BY DEF RunScript
<1>7. CASE Now.whole
  <2>1. EachApplied(Now)
    <3> SUFFICES ASSUME NEW i \in 1..Len(Now.edits) PROVE Applied(Now.edits[i])
      BY DEF EachApplied
    <3> DEFINE s == <<order[at], i>>
    <3>1. s \in Slots /\ EditAt(s) = Now.edits[i]  BY <1>3, <1>4 DEF Slots, EditAt, Now
    <3>2. Marked(EditAt(s))  BY <1>3, <1>7, <3>1, WholeFits DEF Now
    <3>3. ~Checked(EditAt(s))  BY <3>1, <3>2, SlotFits DEF Marked, Checked, Made, Fits
    <3>4. Settled(s)  BY <3>1 DEF SettledForGood
    <3> QED  BY <3>1, <3>3, <3>4 DEF Settled
  <2>2. edit = 1  BY <1>4, <1>7 DEF SettledForGood
  <2>3. SkipsWhole  BY <1>2, <1>3, <1>7, <2>1, <2>2 DEF Refuses, Skips, Writes
  <2>4. ~Refuses  BY <1>3, <1>7, <2>1 DEF Refuses
  <2> QED  BY <2>3, <2>4 DEF SkipsWhole
<1>8. CASE ~Now.whole
  <2>1. /\ Found(EditAt(Here))
        /\ Applied(EditAt(Here)) \/ (Checked(EditAt(Here)) /\ Exact(EditAt(Here)))
    BY <1>5 DEF Settled
  <2>2. ~Refuses  BY <1>3, <1>8, <2>1 DEF Refuses
  <2>3. edit' > 1 => at' = at
    <3>1. Onward  BY <1>2, <1>8, <2>2 DEF Skips, SkipsWhole, Writes, Write
    <3> QED  BY <3>1, <1>2, <1>3, <1>6, OnwardIs
  <2>4. CASE Skips  BY <1>8, <2>2, <2>3, <2>4 DEF Skips
  <2>5. CASE Writes
    <3> DEFINE e == EditAt(Here)
    <3>1. Checked(e) /\ Exact(e)  BY <1>8, <2>1, <2>5 DEF Writes
    <3>2. tree' = [tree EXCEPT ![e.file] = (@ \ e.needs) \cup e.gives]  BY <2>5 DEF Writes, Write
    <3>3. e.file \in DOMAIN tree  BY <1>1, <1>4, EditsAreSlots
    <3>4. (tree[e.file] \ e.needs) \cup e.gives = tree[e.file]  BY <3>1 DEF Checked, Exact
    <3>7. Text(D, e.file)  = tree[e.file]  BY <1>1, <3>3 DEF Written
    <3> HIDE DEF e
    <3>5. tree = [f \in Files |-> tree[f]]  BY DEF Written
    <3>6. tree' = tree  BY <3>2, <3>3, <3>4, <3>5, <1>1
    <3> QED  BY <1>8, <2>2, <2>3, <3>6
  <2> QED  BY <1>2, <1>8, <2>2, <2>4, <2>5 DEF SkipsWhole
<1> QED  BY <1>7, <1>8

(* The end of a run settles all edits, and a later run leaves them settled.  *)
LEMMA SettledForGoodStep ==
  ASSUME BuildTypeOK, ReadyWhole, SettledSoFar, SettledForGood, NEW D \in SUBSET Slots, Written(D),
         [BuildNext]_buildVars
  PROVE  SettledForGood'
<1>1. CASE RunScript
  <2> SUFFICES ASSUME built' # Unbuilt PROVE SettledForGood'  BY DEF SettledForGood
  <2>1. /\ order' = order /\ drift' = drift /\ built' = built /\ built # Unbuilt
    BY <1>1 DEF RunScript
  <2>2. ~Refuses /\ tree' = tree /\ (edit' > 1 => ~Now.whole /\ at' = at)
    BY <1>1, <2>1, SettledScript
  <2>3. phase' # "failed"
    <3>1. phase = "apply" /\ at \in 1..Len(order) /\ (Skips \/ SkipsWhole \/ Writes)
      BY <1>1, <2>2, ScriptIs
    <3> QED  BY <3>1 DEF Skips, SkipsWhole, Writes, Write, Onward
  <2>4. edit' > 1 => ~Now'.whole  BY <2>1, <2>2 DEF Now
  <2>5. \A s \in Slots : Settled(s)'  BY <2>1, <2>2, SettledStays DEF SettledForGood
  <2> QED  BY <2>1, <2>2, <2>3, <2>4, <2>5 DEF SettledForGood, AllListed
<1>2. CASE Finish
  <2>1. /\ order' = order /\ drift' = drift /\ tree' = tree /\ at' = at /\ edit' = edit
        /\ at = Len(order) + 1
    BY <1>2 DEF Finish, BuildTypeOK
  <2>2. edit = 1  BY <2>1 DEF BuildTypeOK
  <2>3. CASE built = Unbuilt /\ AllListed
    <3>1. built' = tree /\ phase' = "done"  BY <1>2, <2>3 DEF Finish
    <3>2. Scripts \subseteq ToSet(order)  BY <2>3 DEF AllListed, Patch
    <3>3. Slots \subseteq Before(order, at, edit)  BY <2>1, <2>2, <3>2, AllBefore DEF BuildTypeOK
    <3>4. \A s \in Slots : Settled(s)'  BY <2>1, <3>3, SettledStays DEF SettledSoFar
    <3>5. \A i \in 1..Len(order) : order[i] \in Scripts  BY <2>1 DEF BuildTypeOK
    <3> QED  BY <2>1, <2>2, <2>3, <3>1, <3>4, <3>5 DEF SettledForGood, AllListed
  <2>4. CASE built # Unbuilt
    <3>1. built' = built /\ phase' = "done"  BY <1>2, <2>4 DEF Finish, SettledForGood
    <3>2. \A s \in Slots : Settled(s)'  BY <2>1, <2>4, SettledStays DEF SettledForGood
    <3> QED  BY <2>1, <2>2, <2>4, <3>1, <3>2 DEF SettledForGood, AllListed
  <2>5. CASE built = Unbuilt /\ ~AllListed  BY <1>2, <2>5 DEF Finish, SettledForGood
  <2> QED  BY <2>3, <2>4, <2>5
<1>3. CASE Kill \/ Again \/ UNCHANGED buildVars
  <2>1. /\ order' = order /\ drift' = drift /\ tree' = tree /\ built' = built
        /\ phase' \in {"killed", "apply"} \/ phase' = phase
        /\ edit' = 1 \/ (edit' = edit /\ at' = at)
    BY <1>3 DEF Kill, Again, buildVars
  <2>2. built # Unbuilt => \A s \in Slots : Settled(s)'  BY <2>1, SettledStays DEF SettledForGood
  <2> QED  BY <2>1, <2>2 DEF SettledForGood, AllListed, Now
<1> QED  BY <1>1, <1>2, <1>3 DEF BuildNext
-----------------------------------------------------------------------------
(* The edits written so far, and the order that is kept among them.         *)
LEMMA PassOrder ==
  ASSUME BuildTypeOK, NEW D \in SUBSET Slots, InOrder(D), Respects(order), NEW s \in Slots,
         at \in 1..Len(order), order[at] = s[1], NEW t \in D, <<t[1], s[1]>> \in Follows
  PROVE  s \in D
<1>1. PICK a \in 1..Len(order) : order[a] = t[1] /\ Before(order, a, t[2]) \subseteq D
  BY DEF InOrder
<1>2. at < a
  <2> DEFINE pair == <<t[1], s[1]>>
  <2>1. pair \in Follows /\ order[a] = pair[1] /\ order[at] = pair[2]  BY <1>1
  <2> HIDE DEF pair
  <2> QED  BY <2>1, <1>1 DEF Respects
<1>3. at \in 1..(a - 1)  BY <1>1, <1>2 DEF BuildTypeOK
<1> QED  BY <1>1, <1>3 DEF Before

(* A step that passes the edits S, and at most writes the one it is at.      *)
LEMMA Grows ==
  ASSUME BuildTypeOK, at \in 1..Len(order), order[at] \in Scripts, order' = order,
         kills' = kills, built' = built,
         NEW D \in SUBSET Slots, NEW C \in SUBSET Slots, NEW S \in SUBSET Slots,
         InOrder(D), FirstTime(D), Before(order, at, edit)' = Before(order, at, edit) \cup S,
         D \subseteq C, C \subseteq D \cup S, \A t \in C : t \in D \/ t = Here,
         Respects(order) => S \subseteq C
  PROVE  InOrder(C)' /\ FirstTime(C)'
<1>1. ASSUME Respects(order)
      PROVE  /\ Before(order, at, edit) \cup S \subseteq C
             /\ \A t \in C : \E a \in 1..Len(order) :
                   order[a] = t[1] /\ Before(order, a, t[2]) \subseteq C
  <2>1. Before(order, at, edit) \subseteq D  BY <1>1 DEF InOrder
  <2>2. ASSUME NEW t \in C
        PROVE  \E a \in 1..Len(order) : order[a] = t[1] /\ Before(order, a, t[2]) \subseteq C
    <3>1. CASE t \in D  BY <1>1, <3>1 DEF InOrder
    <3>2. CASE t = Here
      <4>1. order[at] = t[1] /\ t[2] = edit  BY <3>2 DEF Here
      <4> QED  BY <4>1, <2>1
    <3> QED  BY <3>1, <3>2
  <2> QED  BY <1>1, <2>1, <2>2
<1>2. InOrder(C)'
  <2> SUFFICES ASSUME Respects(order)
               PROVE  /\ Before(order, at, edit)' \subseteq C
                      /\ (\A t \in C : \E a \in 1..Len(order) :
                             order[a] = t[1] /\ Before(order, a, t[2]) \subseteq C)'
    BY DEF InOrder, Respects
  <2>1. Before(order, at, edit)' \subseteq C  BY <1>1
  <2>2. \A t \in C : \E a \in 1..Len(order) : order[a] = t[1] /\ Before(order, a, t[2]) \subseteq C
    BY <1>1
  <2> QED  BY <2>1, <2>2 DEF Before
<1>3. FirstTime(C)'
  BY DEF FirstTime
<1> QED  BY <1>2, <1>3

(* Every step leaves a tree that some edits make: those that made it before,  *)
(* and the one it writes, if it writes one.                                  *)
LEMMA WrittenStep ==
  ASSUME BuildTypeOK, ReadyWhole, NEW D \in SUBSET Slots, Written(D), InOrder(D), FirstTime(D),
         [BuildNext]_buildVars
  PROVE  \E C \in SUBSET Slots : (Written(C) /\ InOrder(C) /\ FirstTime(C))'
<1>1. DriftOK  BY DEF BuildTypeOK
<1>2. CASE RunScript
  <2>1. phase = "apply" /\ at \in 1..Len(order) /\ (Refuses \/ Skips \/ SkipsWhole \/ Writes)
    BY <1>2, ScriptIs
  <2>2. order' = order /\ drift' = drift /\ kills' = kills /\ built' = built  BY <1>2 DEF RunScript
  <2>3. CASE Refuses
    <3>1. tree' = tree /\ at' = at /\ edit' = edit  BY <2>3 DEF Refuses, Refuse
    <3>2. InOrder(D)' /\ FirstTime(D)'  BY <2>2, <3>1 DEF InOrder, FirstTime, Respects, Before
    <3> QED  BY <2>2, <3>1, <3>2, WritingsStay
  <2>4. CASE SkipsWhole
    <3> DEFINE S == {t \in Slots : t[1] = order[at]}
    <3>1. order[at] \in Scripts /\ tree' = tree  BY <2>4 DEF SkipsWhole
    <3>2. Before(order, at, edit)' = Before(order, at, edit) \cup S  BY <2>1, <2>4, SkipsWholeIs
    <3>3. ASSUME Respects(order), NEW t \in S PROVE t \in D
      <4>1. /\ t[1] \in Scripts /\ Now.whole
            /\ t[2] \in 1..Len(Now.edits) /\ EditAt(t) = Now.edits[t[2]]
        BY <2>4, <3>3 DEF SkipsWhole, Slots, EditAt, Now
      <4>2. Marked(EditAt(t))  BY <4>1, <3>3, WholeFits DEF EditAt, Now
      <4>3. Applied(EditAt(t))  BY <2>4, <4>1 DEF SkipsWhole, EachApplied
      <4>4. t \in D \/ \E u \in D : <<u[1], t[1]>> \in Follows
        BY <1>1, <4>2, <4>3, AppliedIsWritten
      <4> QED  BY <4>4, <3>3, <2>1, PassOrder
    <3> HIDE DEF S
    <3>4. S \in SUBSET Slots /\ (Respects(order) => S \subseteq D)  BY <3>3 DEF S
    <3>5. InOrder(D)' /\ FirstTime(D)'  BY <2>1, <2>2, <3>1, <3>2, <3>4, Grows
    <3> QED  BY <2>2, <3>1, <3>5, WritingsStay
  <2>5. CASE Skips \/ Writes
    <3>1. order[at] \in Scripts /\ Onward  BY <2>5 DEF Skips, Writes, Write
    <3>2. PICK s \in Slots : s = Here  BY <2>1, <3>1, HereIsASlot
    <3>3. Before(order, at, edit)' = Before(order, at, edit) \cup {s}
      BY <2>1, <2>2, <3>1, <3>2, OnwardIs
    <3> DEFINE C == D \cup {s}
    <3>4. ASSUME Written(D)', Respects(order) => s \in D
          PROVE  (Written(D) /\ InOrder(D) /\ FirstTime(D))'
      BY <2>1, <2>2, <3>1, <3>3, <3>4, Grows
    <3>5. ASSUME Written(C)' PROVE (Written(C) /\ InOrder(C) /\ FirstTime(C))'
      <4>1. C \in SUBSET Slots /\ {s} \in SUBSET Slots  OBVIOUS
      <4>2. \A t \in C : t \in D \/ t = Here  BY <3>2
      <4> HIDE DEF C
      <4>3. D \subseteq C /\ C \subseteq D \cup {s} /\ {s} \subseteq C  BY DEF C
      <4> QED  BY <2>1, <2>2, <3>1, <3>3, <3>5, <4>1, <4>2, <4>3, Grows
    <3>6. CASE Skips
      <4>1. Applied(EditAt(s)) /\ tree' = tree  BY <3>2, <3>6 DEF Skips
      <4>2. /\ ~Checked(EditAt(s))
            /\ Marked(EditAt(s)) => s \in D \/ \E t \in D : <<t[1], s[1]>> \in Follows
        BY <1>1, <4>1, AppliedIsWritten
      <4>3. CASE Marked(EditAt(s))
        <5>1. order[at] = s[1]  BY <3>2 DEF Here
        <5>2. Respects(order) => s \in D  BY <2>1, <4>2, <4>3, <5>1, PassOrder
        <5>3. Written(D)'  BY <2>2, <4>1, WritingsStay
        <5> QED  BY <3>4, <5>2, <5>3
      <4>4. CASE Removal(EditAt(s))
        <5>1. Written(C)'  BY <1>1, <2>2, <4>1, <4>4, NothingToRemove
        <5> QED  BY <3>5, <5>1
      <4> QED  BY <4>2, <4>3, <4>4, SlotFits DEF Fits
    <3>7. CASE Writes
      <4>1. /\ Exact(EditAt(s)) /\ (~Now.whole => ~Applied(EditAt(s)))
            /\ tree' = [tree EXCEPT ![EditAt(s).file] = (@ \ EditAt(s).needs) \cup EditAt(s).gives]
        BY <3>2, <3>7 DEF Writes, Write
      <4>2. CASE s \notin D
        <5>1. Written(C)'  BY <1>1, <2>2, <4>1, <4>2, WriteOne
        <5> QED  BY <3>5, <5>1
      <4>3. CASE s \in D
        <5>1. Checked(EditAt(s))
          <6>1. ~Now.whole
            <7> SUFFICES ASSUME Now.whole PROVE FALSE  OBVIOUS
            <7>1. s[2] \in 1..Len(Patch[s[1]].edits) /\ s[1] \in Scripts /\ Patch[s[1]].whole
              BY <3>1, <3>2 DEF Slots, Here, Now
            <7>2. PICK x \in EditAt(s).needs : x \notin EditAt(s).gives
              BY <7>1, WholeFits DEF EditAt
            <7>3. x \in tree[EditAt(s).file]  BY <4>1 DEF Exact
            <7>4. EditAt(s).file \in Files  BY EditsAreSlots
            <7> QED  BY <1>1, <4>3, <7>2, <7>3, <7>4, TreeIs DEF Consumed
          <6> QED  BY <1>1, <4>1, <4>3, <6>1, WrittenIsApplied
        <5>2. tree' = tree
          <6> DEFINE e == EditAt(s)
          <6>1. e.file \in Files /\ DOMAIN tree = Files /\ tree = [f \in Files |-> tree[f]]
            BY EditsAreSlots DEF Written
          <6>2. (tree[e.file] \ e.needs) \cup e.gives = tree[e.file]
            <7>1. e.gives = e.needs /\ \A x \in e.needs : x \in tree[e.file]
              BY <4>1, <5>1 DEF Checked, Exact
            <7>2. tree[e.file] = Text(D, e.file)  BY <6>1 DEF Written
            <7> HIDE DEF e
            <7> QED  BY <7>1, <7>2 DEF Text
          <6>3. tree' = [tree EXCEPT ![e.file] = (@ \ e.needs) \cup e.gives]  BY <4>1
          <6> HIDE DEF e
          <6> QED  BY <6>1, <6>2, <6>3
        <5>3. Written(D)'  BY <2>2, <5>2, WritingsStay
        <5> QED  BY <3>4, <4>3, <5>3
      <4> QED  BY <4>2, <4>3
    <3> QED  BY <2>5, <3>6, <3>7
  <2> QED  BY <2>1, <2>3, <2>4, <2>5
<1>3. CASE Finish \/ Kill \/ UNCHANGED buildVars
  <2>1. /\ order' = order /\ drift' = drift /\ tree' = tree /\ at' = at /\ edit' = edit
        /\ (kills' = 0 /\ built' = Unbuilt => kills = 0 /\ built = Unbuilt)
    <3>1. CASE Finish
      <4>1. tree # Unbuilt
        <5>1. "site-packages" \in DOMAIN tree  BY FirstOfAll, EditsAreSlots DEF Written
        <5> QED  BY <5>1 DEF Unbuilt
      <4> QED  BY <3>1, <4>1 DEF Finish
    <3>2. CASE Kill  BY <3>2 DEF Kill, BuildTypeOK
    <3>3. CASE UNCHANGED buildVars  BY <3>3 DEF buildVars
    <3> QED  BY <1>3, <3>1, <3>2, <3>3
  <2>2. InOrder(D)' /\ FirstTime(D)'  BY <2>1 DEF InOrder, FirstTime, Respects, Before
  <2> QED  BY <2>1, <2>2, WritingsStay
<1>4. CASE Again
  <2>1. order' = order /\ drift' = drift /\ tree' = tree /\ at' = 1 /\ edit' = 1
    BY <1>4 DEF Again
  <2>2. Before(order, at, edit)' = {}
    <3>1. Before(order, at, edit)' = Before(order, 1, 1)  BY <2>1 DEF Before
    <3> QED  BY <3>1, NothingBefore
  <2>3. ~(kills = 0 /\ built = Unbuilt)'  BY <1>4 DEF Again, BuildTypeOK
  <2>4. FirstTime(D)'  BY <2>3 DEF FirstTime
  <2>5. InOrder(D)'
    <3> SUFFICES ASSUME Respects(order)
                 PROVE  (\A t \in D : \E a \in 1..Len(order) :
                            order[a] = t[1] /\ Before(order, a, t[2]) \subseteq D)'
      BY <2>1, <2>2 DEF InOrder, Respects
    <3>1. \A t \in D : \E a \in 1..Len(order) :
             order[a] = t[1] /\ Before(order, a, t[2]) \subseteq D
      BY DEF InOrder
    <3> QED  BY <2>1, <3>1 DEF Before
  <2> QED  BY <2>1, <2>4, <2>5, WritingsStay
<1> QED  BY <1>2, <1>3, <1>4 DEF BuildNext

-----------------------------------------------------------------------------
(* What a run of the scripts as they are listed cannot meet.                 *)
(* With the order as listed and no drift, nothing that comes later is        *)
(* written before an edit is.                                               *)
LEMMA NoneLater ==
  ASSUME BuildTypeOK, NEW D \in SUBSET Slots, InOrder(D), order = OrderTxt,
         NEW s \in Slots, s \notin D, NEW t \in D
  PROVE  Earlier(t, s)
<1>1. PICK a \in 1..Len(order) : order[a] = t[1] /\ Before(order, a, t[2]) \subseteq D
  BY OrderRespects DEF InOrder
<1>2. a = Position(t[1])  BY <1>1, PositionInOrder, OrderFacts
<1>3. t \in Slots /\ t # s  OBVIOUS
<1>4. ~Earlier(s, t)  BY <1>1, <1>2, <1>3, BeforeIsEarlier
<1> QED  BY <1>3, <1>4, BeforeIsEarlier

(* With the order as listed and no drift, the only script that can refuse is  *)
(* one that takes its files together and finds some of them patched, and only *)
(* after an interruption.                                                    *)
LEMMA OnlyWholeRefuses ==
  ASSUME BuildTypeOK, SettledForGood, ReadyWhole,
         NEW D \in SUBSET Slots, Written(D), InOrder(D), FirstTime(D),
         RunScript, Refuses, order = OrderTxt, drift = NoDrift
  PROVE  /\ kills # 0
         /\ \E p \in DOMAIN Patch : Patch[p].whole /\ order[at] = p /\ AnyApplied(Patch[p])
                                      /\ ~EachApplied(Patch[p])
<1>1. /\ at \in 1..Len(order) /\ at \in 1..35 /\ at <= Len(order)
      /\ order[at] \in Scripts /\ Position(order[at]) = at /\ DriftOK
  <2>1. at \in 1..Len(order)  BY ScriptIs
  <2>2. at \in 1..35  BY <2>1, OrderFacts
  <2>3. order[at] \in Scripts  BY <2>2, OrderFacts
  <2>4. Position(order[at]) = at  BY <2>2, PositionInOrder
  <2>5. DriftOK /\ at <= Len(order)  BY <2>1 DEF BuildTypeOK
  <2> QED  BY <2>1, <2>2, <2>3, <2>4, <2>5
<1>2. /\ edit \in 1..Len(Now.edits) /\ Len(Now.edits) \in Nat \ {0}
      /\ Here \in Slots /\ EditAt(Here) = Now.edits[edit]
  BY <1>1, HereIsASlot
<1>3. Before(order, at, edit) \subseteq D  BY OrderRespects DEF InOrder
<1>4. Now.whole
  <2> SUFFICES ASSUME ~Now.whole PROVE FALSE  OBVIOUS
  <2>1. PICK s \in Slots : s = Here  BY <1>2
  <2>2. Position(s[1]) = at /\ s[2] = edit  BY <1>1, <2>1 DEF Here
  <2>3. \A t \in Slots : Earlier(t, s) => t \in D  BY <1>3, <2>2, BeforeIsEarlier
  <2>4. Found(EditAt(s))
    <3> DEFINE z == <<"0019", 1>>
    <3>1. z \in Slots  BY FirstOfAll
    <3>2. ASSUME EditAt(s).via = "tools" PROVE Earlier(z, s)
      <4>1. Position("0019") < Position(s[1])  BY <3>2, FirstOfAll
      <4> QED  BY <4>1 DEF Earlier
    <3> QED  BY <1>1, <2>3, <3>1, <3>2, FirstIsFound
  <2>5. Applied(EditAt(s)) \/ Exact(EditAt(s))
    <3>1. CASE s \in D  BY <1>1, <3>1, WrittenIsApplied
    <3>2. CASE s \notin D
      <4>1. \A t \in D : Earlier(t, s)  BY <3>2, NoneLater
      <4> QED  BY <1>1, <2>3, <3>2, <4>1, FirstIsExact
    <3> QED  BY <3>1, <3>2
  <2> QED  BY <1>1, <2>1, <2>4, <2>5 DEF Refuses
<1>5. edit = 1 /\ ~EachApplied(Now) /\ ~EachExact(Now)  BY <1>1, <1>4 DEF Refuses
<1>6. \A j \in 1..Len(Now.edits) :
         <<order[at], j>> \in Slots /\ EditAt(<<order[at], j>>) = Now.edits[j]
  BY <1>1, <1>2 DEF Slots, EditAt, Now
<1>7. PICK j \in 1..Len(Now.edits) : <<order[at], j>> \in D
  <2> SUFFICES ASSUME \A j \in 1..Len(Now.edits) : <<order[at], j>> \notin D PROVE FALSE
    OBVIOUS
  <2>1. ASSUME NEW j \in 1..Len(Now.edits) PROVE Exact(Now.edits[j])
    <3>1. PICK s \in Slots : s = <<order[at], j>>  BY <1>6
    <3>2. s \notin D /\ EditAt(s) = Now.edits[j] /\ s[1] = order[at] /\ s[2] = j
      BY <1>6, <3>1
    <3>3. \A t \in D : Earlier(t, s)  BY <3>2, NoneLater
    <3>4. ASSUME NEW t \in Slots, t # s, EditAt(t).file = EditAt(s).file, Earlier(t, s)
          PROVE  t \in D
      <4>1. t[1] # order[at]
        <5> SUFFICES ASSUME t[1] = order[at] PROVE FALSE  OBVIOUS
        <5>1. t[2] \in 1..Len(Now.edits) /\ EditAt(t) = Now.edits[t[2]] /\ t = <<t[1], t[2]>>
          BY DEF Slots, EditAt, Now
        <5>2. t[2] # j  BY <3>1, <3>4, <5>1
        <5> QED  BY <1>1, <1>4, <3>2, <3>4, <5>1, <5>2, WholeFits DEF Now
      <4>2. t \in Before(order, at, j)
        BY <1>1, <3>2, <3>4, BeforeIsEarlier
      <4>3. t \in Before(order, at, edit)  BY <4>1, <4>2 DEF Before
      <4> QED  BY <4>3, <1>3
    <3>5. Exact(EditAt(s))  BY <1>1, <3>2, <3>3, <3>4, FirstIsExact
    <3> QED  BY <3>2, <3>5
  <2> QED  BY <1>5, <2>1 DEF EachExact
<1>8. Applied(Now.edits[j])
  <2>1. PICK s \in D : s = <<order[at], j>>  BY <1>7
  <2>2. EditAt(s) = Now.edits[j]  BY <1>6, <2>1
  <2>3. Marked(EditAt(s))  BY <1>1, <1>4, <2>2, WholeFits DEF Now
  <2>4. ~Checked(EditAt(s))  BY <2>3, SlotFits DEF Marked, Checked, Made, Fits
  <2> QED  BY <1>1, <2>2, <2>4, WrittenIsApplied
<1>9. kills # 0
  <2> SUFFICES ASSUME kills = 0 PROVE FALSE  OBVIOUS
  <2>1. built = Unbuilt  BY SettledScript
  <2>2. <<order[at], j>> \in Before(order, at, edit)  BY <1>7, <2>1 DEF FirstTime
  <2>3. PICK i \in 1..(at - 1) : order[i] = order[at]
    BY <1>5, <2>2 DEF Before
  <2>4. i \in 1..35 /\ i # at  BY <1>1, <2>3
  <2>5. Position(order[i]) = i  BY <2>4, PositionInOrder
  <2> QED  BY <1>1, <2>3, <2>4, <2>5
<1> QED  BY <1>1, <1>4, <1>5, <1>8, <1>9 DEF AnyApplied, Now, Patch

(* order.txt lists every script.                                             *)
LEMMA OrderIsComplete == order = OrderTxt => AllListed
<1> SUFFICES ASSUME order = OrderTxt, NEW p \in Scripts PROVE p \in ToSet(order)
  BY DEF AllListed, Patch
<1>1. Position(p) \in DOMAIN order /\ order[Position(p)] = p  BY OrderFacts
<1> QED  BY <1>1 DEF ToSet

(* So of the states in which a run has failed.                               *)
LEMMA RefusalStep ==
  ASSUME BuildInv, [BuildNext]_buildVars
  PROVE  OrderFits' /\ ResumesUnlessWhole'
<1>1. BuildTypeOK /\ ReadyWhole /\ SettledForGood /\ OrderFits /\ ResumesUnlessWhole
  BY DEF BuildInv
<1>2. PICK D \in SUBSET Slots : Written(D) /\ InOrder(D) /\ FirstTime(D)  BY DEF BuildInv
<1>3. CASE RunScript /\ Refuses
  <2>1. order' = order /\ drift' = drift /\ kills' = kills /\ tree' = tree /\ at' = at
    BY <1>3 DEF Refuses, Refuse, Rest
  <2>2. ASSUME order = OrderTxt, drift = NoDrift
        PROVE  /\ kills # 0
               /\ \E p \in DOMAIN Patch : Patch[p].whole /\ order[at] = p /\ AnyApplied(Patch[p])
                                            /\ ~EachApplied(Patch[p])
    BY <1>1, <1>2, <1>3, <2>2, OnlyWholeRefuses
  <2>3. \A p \in DOMAIN Patch : /\ AnyApplied(Patch[p])' <=> AnyApplied(Patch[p])
                                /\ EachApplied(Patch[p])' <=> EachApplied(Patch[p])
    BY <2>1 DEF AnyApplied, EachApplied, Applied
  <2> QED  BY <2>1, <2>2, <2>3 DEF OrderFits, ResumesUnlessWhole
<1>4. CASE RunScript /\ ~Refuses
  <2>1. phase' = phase /\ phase = "apply"
    BY <1>1, <1>4, ScriptIs DEF Skips, SkipsWhole, Writes, Write, Onward
  <2> QED  BY <2>1 DEF OrderFits, ResumesUnlessWhole
<1>5. CASE Finish
  <2>1. order = OrderTxt => phase' # "failed"  BY <1>5, OrderIsComplete DEF Finish
  <2> QED  BY <1>5, <2>1 DEF Finish, OrderFits, ResumesUnlessWhole
<1>6. CASE Kill \/ Again
  <2>1. phase' # "failed"  BY <1>6 DEF Kill, Again
  <2> QED  BY <2>1 DEF OrderFits, ResumesUnlessWhole
<1>7. CASE UNCHANGED buildVars
  BY <1>1, <1>7 DEF buildVars, OrderFits, ResumesUnlessWhole, AnyApplied, EachApplied, Applied
<1> QED  BY <1>3, <1>4, <1>5, <1>6, <1>7 DEF BuildNext

(* The invariant is inductive.                                               *)
LEMMA BuildStep == BuildInv /\ [BuildNext]_buildVars => BuildInv'
<1> SUFFICES ASSUME BuildInv, [BuildNext]_buildVars PROVE BuildInv'  OBVIOUS
<1>1. BuildTypeOK /\ ReadyWhole /\ SettledSoFar /\ SettledForGood  BY DEF BuildInv
<1>2. PICK D \in SUBSET Slots : Written(D) /\ InOrder(D) /\ FirstTime(D)  BY DEF BuildInv
<1>3. DOMAIN tree = Files  BY <1>2 DEF Written
<1>4. BuildTypeOK' /\ ReadyWhole'  BY <1>1, <1>3, BuildTypeStep, ReadyStep
<1>5. SettledSoFar' /\ SettledForGood'  BY <1>1, <1>2, SettledStep, SettledForGoodStep
<1>6. \E C \in SUBSET Slots : (Written(C) /\ InOrder(C) /\ FirstTime(C))'
  BY <1>1, <1>2, WrittenStep
<1>7. OrderFits' /\ ResumesUnlessWhole'  BY RefusalStep
<1> QED  BY <1>4, <1>5, <1>6, <1>7 DEF BuildInv

(* Whatever drifted, in whatever order the scripts are run, and wherever a    *)
(* run was cut short: the tree is what upstream and the edits made so far    *)
(* make it, and what a run has passed is settled.                            *)
THEOREM BuildInvariant == BuildSpec => []BuildInv
BY BuildBegins, BuildStep, PTL DEF BuildSpec

(* At the end all edits have been passed, so D is all of them.  A fragment    *)
(* that upstream dropped was taken away by an edit, or else kept by one, which *)
(* then could not have been made.                                            *)
LEMMA DoneIsPatched == BuildInv => BuiltIsPatched
<1> SUFFICES ASSUME BuildInv, phase = "done", Respects(order) PROVE tree = Patched
  BY DEF BuiltIsPatched
<1>1. BuildTypeOK /\ DriftOK  BY DEF BuildInv, BuildTypeOK
<1>2. PICK D \in SUBSET Slots : Written(D) /\ InOrder(D)  BY DEF BuildInv
<1>3. D = Slots
  <2>1. at = Len(order) + 1 /\ edit = 1 /\ AllListed  BY <1>1 DEF BuildTypeOK
  <2>2. Scripts \subseteq ToSet(order)  BY <2>1 DEF AllListed, Patch
  <2>3. Slots \subseteq Before(order, at, edit)  BY <1>1, <2>1, <2>2, AllBefore DEF BuildTypeOK
  <2> QED  BY <1>2, <2>3 DEF InOrder
<1>4. ASSUME NEW f \in Files, NEW x PROVE x \in tree[f] <=> x \in Patched[f]
  <2>1. x \in tree[f] <=>
          /\ \/ x \in Upstream[f] /\ ~(drift.how = "missing" /\ drift.at = <<f, x>>)
             \/ \E s \in Slots : EditAt(s).file = f /\ x \in Made(EditAt(s))
          /\ \A s \in Slots : EditAt(s).file = f => x \notin Consumed(EditAt(s))
    BY <1>1, <1>2, <1>3, TreeIs
  <2>2. ASSUME x \in Upstream[f], drift.at = <<f, x>>
        PROVE  \E s \in Slots : EditAt(s).file = f /\ x \in Consumed(EditAt(s))
    <3>1. PICK s \in Slots : EditAt(s).file = f /\ x \in EditAt(s).needs  BY <2>2, UpstreamIs
    <3>2. x \notin EditAt(s).gives  BY <1>2, <1>3, <2>2, <3>1 DEF Written, Unhurt
    <3> QED  BY <3>1, <3>2 DEF Consumed
  <2> QED  BY <2>1, <2>2, PatchedIs
<1>5. tree = [f \in Files |-> Text(D, f)]  BY <1>2 DEF Written
<1>6. ASSUME NEW f \in Files PROVE Text(D, f) = Patched[f]
  <2>1. tree[f] = Text(D, f)  BY <1>5
  <2>2. \A x : x \in Text(D, f) <=> x \in Patched[f]  BY <1>4, <2>1
  <2>3. Patched[f] = (Upstream[f] \cup Introduced(f)) \ UNION {e.needs \ e.gives : e \in Of(f)}
    BY DEF Patched
  <2> QED  BY <2>2, <2>3 DEF Text
<1>7. Patched = [f \in Files |-> Patched[f]]  BY DEF Patched
<1> HIDE DEF Patched
<1> QED  BY <1>5, <1>6, <1>7

(* An image that is built has every patch in it.                             *)
THEOREM BuildsArePatched == BuildSpec => []BuiltIsPatched
BY BuildInvariant, DoneIsPatched, PTL

(* The patches in the order they are listed fit the release they are for.    *)
THEOREM OrderAlwaysFits == BuildSpec => []OrderFits
<1>1. BuildInv => OrderFits  BY DEF BuildInv
<1> QED  BY <1>1, BuildInvariant, PTL

(* A patched tree stays as it is when the patches are run again.             *)
THEOREM PatchingAgainIsNothing == BuildSpec => []AgainIsNothing
<1>1. BuildInv => AgainIsNothing  BY DEF BuildInv, SettledForGood, AgainIsNothing
<1> QED  BY <1>1, BuildInvariant, PTL

(* A build that was cut short finishes when it is run again, unless it was    *)
(* cut short inside a patch that takes its files together.                   *)
THEOREM BuildsResume == BuildSpec => []ResumesUnlessWhole
<1>1. BuildInv => ResumesUnlessWhole  BY DEF BuildInv
<1> QED  BY <1>1, BuildInvariant, PTL

=============================================================================
