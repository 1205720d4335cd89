----------------------------- MODULE HostPackages -----------------------------
(***************************************************************************)
(* host/brew/reconcile.py: the Homebrew formulae and the notifier of the   *)
(* host are brought to what packages.json says. One binary per package:    *)
(* kegs are the installed formulae that provide it (the managed ones, by   *)
(* version, and the floating one they replace), one of which is linked.    *)
(* Homebrew is modelled by what its commands do to kegs, links and pins.   *)
(***************************************************************************)
EXTENDS FormulaRelease

CONSTANTS
    Required,       \* those whose failure fails the command
    Float,          \* the formula a managed one replaces
    None,
    MaxTrouble      \* how many commands fail, crash or are undone by hand

ASSUME FloatAssumption == Float \notin Versions
ASSUME RequiredAssumption == Required \subseteq Packages

VARIABLES
    kegs, linked, pinned,
    bundle,         \* the notifier: "missing", "stale" or "current"
    settled,        \* its registration, authorization and clean-up were done for this bundle
    pc,             \* the step of the running apply
    this,           \* the package apply is reconciling
    left,           \* packages it found wanting and has not reached yet
    redo,           \* it found the notifier wanting
    unlinked,       \* apply has unlinked the floating formula of the current package
    outcome,        \* how the last apply ended
    failed,         \* something failed during this apply
    trouble

brewVars == <<kegs, linked, pinned>>
noteVars == <<bundle, settled>>
runVars  == <<pc, this, left, redo, unlinked, outcome, failed, trouble>>
vars == <<releaseVars, brewVars, noteVars, runVars>>

Wanted(p) == version[p]

PackageOk(p) ==
    /\ Wanted(p) \in kegs[p]
    /\ linked[p] = Wanted(p)
    /\ Wanted(p) \in pinned[p]
    /\ Float \notin kegs[p]

NotifierOk == bundle = "current" /\ settled

Init ==
    /\ ReleaseInit
    /\ kegs \in [Packages -> {{}, {Float}}]
    /\ linked = [p \in Packages |-> IF kegs[p] = {} THEN None ELSE Float]
    /\ pinned \in [Packages -> {{}, {Float}}] /\ \A p \in Packages : pinned[p] \subseteq kegs[p]
    /\ bundle = "missing" /\ settled = FALSE
    /\ pc = "idle" /\ this = None /\ left = {} /\ redo = FALSE /\ unlinked = FALSE
    /\ outcome = "none" /\ failed = FALSE /\ trouble = 0

-----------------------------------------------------------------------------
(* The host between two commands.                                          *)

\* The operator undoes something by hand.
Tamper(p) ==
    /\ pc = "idle" /\ trouble < MaxTrouble
    /\ \/ linked' = [linked EXCEPT ![p] = None] /\ UNCHANGED <<kegs, pinned>>
       \/ pinned' = [pinned EXCEPT ![p] = {}] /\ UNCHANGED <<kegs, linked>>
       \/ kegs' = [kegs EXCEPT ![p] = @ \union {Float}] /\ UNCHANGED <<linked, pinned>>
    /\ trouble' = trouble + 1
    /\ UNCHANGED <<releaseVars, noteVars, pc, this, left, redo, unlinked, outcome, failed>>

\* Another checkout is released, possibly with other notifier sources.
Release ==
    /\ pc = "idle"
    /\ ReleaseNext
    /\ bundle' \in {bundle, IF bundle = "current" THEN "stale" ELSE bundle}
    /\ UNCHANGED <<brewVars, settled, runVars>>

-----------------------------------------------------------------------------
(* apply, one step per command.                                            *)

\* inspect_host_status, then ensure_tap and sync_tap when a package is wanting.
Apply ==
    /\ pc = "idle" /\ ~Generating /\ Loads
    /\ left' = {p \in Packages : ~PackageOk(p)}
    /\ redo' = ~NotifierOk
    /\ pc' = IF left' = {} THEN "notifier" ELSE "sync"
    /\ outcome' = "none" /\ failed' = FALSE
    /\ UNCHANGED <<releaseVars, brewVars, noteVars, this, unlinked, trouble>>

\* The manifest lists p before every package of S.
First(p, S) == \E i \in DOMAIN Order : Order[i] = p /\ \A j \in 1..i-1 : Order[j] \notin S

\* The next package that was found wanting, in the order of the manifest, or the notifier.
Proceed ==
    /\ unlinked' = FALSE
    /\ \/ left = {} /\ pc' = "notifier" /\ UNCHANGED <<this, left>>
       \/ \E p \in left : First(p, left) /\ this' = p /\ left' = left \ {p} /\ pc' = "install"

Sync ==
    /\ pc = "sync"
    /\ Proceed
    /\ UNCHANGED <<releaseVars, brewVars, noteVars, redo, outcome, failed, trouble>>

Go(from, to) == pc = from /\ pc' = to
Still == UNCHANGED <<releaseVars, noteVars, this, left, redo, outcome, failed, trouble>>

(* Mutants: the floating formula goes before its successor is there; the   *)
(* statuses are taken for granted once the keg is installed.               *)
UninstallFirst ==
    /\ Go("install", "probe")
    /\ kegs' = [kegs EXCEPT ![this] = {Wanted(this)}]
    /\ linked' = [linked EXCEPT ![this] = None]
    /\ Still /\ UNCHANGED <<pinned, unlinked>>

InstalledIsEnough ==
    /\ pc = "install"
    /\ kegs' = [kegs EXCEPT ![this] = @ \union {Wanted(this)}]
    /\ UNCHANGED <<linked, pinned>>
    /\ IF Wanted(this) \in kegs[this] THEN Proceed
       ELSE pc' = "probe" /\ UNCHANGED <<this, left, unlinked>>
    /\ UNCHANGED <<releaseVars, noteVars, redo, outcome, failed, trouble>>

\* brew install, unless the keg is there; its post-install link may already take over.
Install ==
    /\ Go("install", "probe")
    /\ kegs' = [kegs EXCEPT ![this] = @ \union {Wanted(this)}]
    /\ linked' \in IF Wanted(this) \in kegs[this] THEN {linked}
                   ELSE {linked, [linked EXCEPT ![this] = Wanted(this)]}
    /\ Still /\ UNCHANGED <<pinned, unlinked>>

Probe == Go("probe", "unlink") /\ Still /\ UNCHANGED <<brewVars, unlinked>>

Unlink ==
    /\ Go("unlink", "link")
    /\ unlinked' = (Float \in kegs[this])
    /\ linked' = [linked EXCEPT ![this] = IF @ = Float THEN None ELSE @]
    /\ Still /\ UNCHANGED <<kegs, pinned>>

Link ==
    /\ Go("link", "pin")
    /\ linked' = [linked EXCEPT ![this] = Wanted(this)]
    /\ Still /\ UNCHANGED <<kegs, pinned, unlinked>>

Pin ==
    /\ Go("pin", "uninstall")
    /\ pinned' = [pinned EXCEPT ![this] = @ \union {Wanted(this)}]
    /\ Still /\ UNCHANGED <<kegs, linked, unlinked>>

\* unpin and uninstall of the floating formula, if it is there.
Uninstall ==
    /\ pc = "uninstall"
    /\ kegs' = [kegs EXCEPT ![this] = @ \ {Float}]
    /\ pinned' = [pinned EXCEPT ![this] = @ \ {Float}]
    /\ UNCHANGED linked
    /\ Proceed
    /\ UNCHANGED <<releaseVars, noteVars, redo, outcome, failed, trouble>>

-----------------------------------------------------------------------------
(* What goes wrong.                                                        *)

Trouble == trouble < MaxTrouble /\ trouble' = trouble + 1 /\ failed' = TRUE
Raise   == pc' = "idle" /\ outcome' = "error" /\ UNCHANGED <<this, left, unlinked>>

\* A failure that is not a migration's is fatal for a required package, or before the
\* first one; an optional package is given up with a warning. The floating formula may
\* have been unpinned when its uninstallation fails.
Fail ==
    /\ pc \in {"sync", "install", "probe", "uninstall"} /\ Trouble
    /\ \/ UNCHANGED pinned
       \/ pc = "uninstall" /\ pinned' = [pinned EXCEPT ![this] = @ \ {Float}]
    /\ UNCHANGED <<kegs, linked, releaseVars, noteVars, redo>>
    /\ IF pc = "sync" \/ this \in Required THEN Raise
       ELSE Proceed /\ UNCHANGED outcome

\* unlink, link or pin fails: the managed formula is unlinked and what apply has unlinked
\* is linked again, which may fail too; either way the command ends.
Rollback ==
    /\ pc \in {"unlink", "link", "pin"} /\ Trouble
    /\ \E restored \in BOOLEAN :
         LET now  == IF linked[this] = Wanted(this) THEN None ELSE linked[this]
             back == unlinked /\ Float \in kegs[this]
         IN  /\ linked' = [linked EXCEPT ![this] = IF back /\ restored THEN Float ELSE now]
             /\ outcome' = IF back /\ ~restored THEN "rollback failed" ELSE "links restored"
    /\ pc' = "idle"
    /\ UNCHANGED <<kegs, pinned, releaseVars, noteVars, this, left, redo, unlinked>>

Crash ==
    /\ pc # "idle" /\ Trouble
    /\ Raise
    /\ \/ UNCHANGED noteVars
       \/ pc = "notifier" /\ redo /\ bundle' = "missing" /\ settled' = FALSE
    /\ UNCHANGED <<releaseVars, brewVars, redo>>

-----------------------------------------------------------------------------
(* The notifier, then the final check.                                     *)

\* The bundle is built, signed and verified aside, and replaces the installed one.
Replace ==
    /\ Go("notifier", "settle") /\ redo
    /\ bundle' = "current" /\ settled' = FALSE
    /\ UNCHANGED <<releaseVars, brewVars, this, left, redo, unlinked, outcome, failed, trouble>>

\* Registration, authorization and the removal of stale notifications. The status probe
\* afterwards sees only the authorization, which macOS may still have on record when one
\* of them fails.
Settle ==
    /\ pc = "settle"
    /\ \/ settled' = TRUE /\ pc' = "check" /\ UNCHANGED <<outcome, failed, trouble>>
       \/ Trouble /\ settled' \in BOOLEAN /\ pc' = "idle" /\ outcome' = "error"
    /\ UNCHANGED <<releaseVars, brewVars, bundle, this, left, redo, unlinked>>

FailBuild ==
    /\ pc = "notifier" /\ redo /\ Trouble /\ Raise
    /\ UNCHANGED <<releaseVars, brewVars, noteVars, redo>>

\* check inspects the host again, whatever apply believes it has done.
Check ==
    /\ \/ pc = "check"
       \/ pc = "notifier" /\ ~redo
    /\ pc' = "idle"
    /\ outcome' = IF NotifierOk /\ \A p \in Required : PackageOk(p) THEN "ok" ELSE "drift"
    /\ UNCHANGED <<releaseVars, brewVars, noteVars, this, left, redo, unlinked, failed, trouble>>

Next ==
    \/ \E p \in Packages : Tamper(p)
    \/ Release \/ Apply \/ Sync
    \/ Install \/ Probe \/ Unlink \/ Link \/ Pin \/ Uninstall
    \/ Fail \/ Rollback \/ Crash
    \/ Replace \/ Settle \/ FailBuild \/ Check

Spec == Init /\ [][Next]_vars

-----------------------------------------------------------------------------
(* Whatever an earlier apply left behind (a failed link, a rollback that   *)
(* failed, a kill between two commands, a half-installed notifier, a hand  *)
(* edit), an apply in which nothing fails ends with exit code 0, and then  *)
(* every package, required or optional, found wanting or not, is           *)
(* installed, linked and pinned with no replacement left, and the notifier *)
(* is current and settled.                                                 *)
CleanApplyConverges ==
    [][(pc # "idle" /\ pc' = "idle" /\ ~failed') =>
          outcome' = "ok" /\ NotifierOk' /\ \A p \in Packages : PackageOk(p)']_vars

(* A binary the host can run is taken away only for one that is ready: a   *)
(* link is dropped, and a replaced formula uninstalled, only while the     *)
(* wanted formula is installed, and uninstalled only once that one is      *)
(* linked and pinned (reconcile_package).                                  *)
OutageHasASuccessor ==
    [][\A p \in Packages : pc # "idle" =>
          /\ (linked[p] # None /\ linked'[p] # linked[p]) => Wanted(p) \in kegs'[p]
          /\ (Float \in kegs[p] /\ Float \notin kegs'[p])
                => linked[p] = Wanted(p) /\ Wanted(p) \in pinned[p]]_vars

-----------------------------------------------------------------------------
(* What makes OutageHasASuccessor inductive.                               *)

Installed == {"probe", "unlink", "link", "pin", "uninstall"}

HostTypeOK ==
    /\ kegs \in [Packages -> SUBSET (Versions \union {Float})]
    /\ linked \in [Packages -> Versions \union {Float, None}]
    /\ pinned \in [Packages -> SUBSET (Versions \union {Float})]
    /\ left \subseteq Packages
    /\ pc \in {"idle", "sync", "install", "notifier", "settle", "check"} \union Installed
    /\ pc \in {"install"} \union Installed => this \in Packages

(* Each step of a migration stands on the ones before it.                  *)
StepsFollow ==
    /\ pc \in Installed => Wanted(this) \in kegs[this]
    /\ pc \in {"pin", "uninstall"} => linked[this] = Wanted(this)
    /\ pc = "uninstall" => Wanted(this) \in pinned[this]

(* While nothing has failed, what apply has passed or never had to touch   *)
(* is as it should be, and it stops where nothing is left.                 *)
CleanSoFar ==
    ~failed /\ pc # "idle" =>
        /\ \A p \in Packages \ left :
              PackageOk(p) \/ (p = this /\ pc \in {"install"} \union Installed)
        /\ pc \in {"notifier", "settle", "check"} => left = {}
        /\ pc = "check" \/ ~redo => NotifierOk
        /\ pc = "settle" => bundle = "current" /\ redo

HostInv == ReleaseInv /\ HostTypeOK /\ StepsFollow

=============================================================================
