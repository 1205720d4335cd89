------------------------------ MODULE Workloads ------------------------------
(***************************************************************************)
(* host/mcp/vicegerent_mcp.py: `start` brings every enabled ToolHive       *)
(* workload up with the spec that is declared now, one thread per server,  *)
(* then waits for them and recovers those in error; `stop` stops them.     *)
(* ToolHive and the operator act in between, and inputs of a spec change   *)
(* while a start is under way: ~/.aws, a user's kubeconfig, parameters and *)
(* permission profiles are read where they are used. A spec is a number:   *)
(* whatever server_spec_fingerprint hashes, contents of mounted files      *)
(* included. The kubeconfig of a Kind cluster is not in it: the servers of *)
(* one cluster share one written file, which is compared by its CA.        *)
(***************************************************************************)
EXTENDS Naturals, FiniteSets

CONSTANTS
    Servers, None,
    Kind,           \* the servers of the Kind cluster
    MaxErrorRetries,
    MaxSpec,        \* specs an input is edited to
    MaxChanges,     \* edits, opt-ins and opt-outs, and rotations of the cluster's CA
    MaxTrouble      \* commands that fail or are killed, workloads that break

ASSUME WorkloadAssumption == /\ MaxErrorRetries \in Nat /\ MaxSpec \in Nat
                             /\ MaxTrouble \in Nat /\ MaxChanges \in Nat
                             /\ None \notin Nat /\ Kind \subseteq Servers

VARIABLES
    enabled, spec,  \* what the operator declares
    ca,             \* the Kind cluster's CA
    kubefile,       \* the CA in the kubeconfig written for it; 0: no such file
    status,         \* what ToolHive reports; "foreign" is a workload of another group
    baked,          \* the spec a workload was created with
    mounted,        \* the CA in the kubeconfig it was created with
    recorded,       \* the fingerprint saved for it
    pc,             \* the command: "idle", "apply", "wait"
    want,           \* the servers it found enabled
    inGroup,        \* its listing of the group: the status of each, "absent" if not in it
    allNames,       \* its listing of every group
    thread,         \* the next step of each server's thread
    startLock,      \* the thread inside `thv run` or `thv restart`
    retries, stopping, polled,
    clean,          \* since the command began nothing has failed and no input has changed
    healthy,        \* workloads that were running as declared when it began, and still are declared so
    doubt,          \* history: since it was created, the spec of a server was recorded amiss or not at all
    consumed,       \* history: since it was created, its kubeconfig was rewritten for another `thv run`
    changes, trouble

declared == <<enabled, spec, ca>>
toolhive == <<status, baked, mounted>>
history  == <<doubt, consumed>>
command  == <<pc, want, inGroup, allNames, thread, startLock, retries, stopping, polled, clean, healthy>>
vars == <<declared, kubefile, toolhive, recorded, command, history, changes, trouble>>

Ours(s) == status[s] \notin {"absent", "foreign"}
AtRest  == [s \in Servers |-> "done"]
Nobody  == [s \in Servers |-> 0]
Missing == [s \in Servers |-> "absent"]

Init ==
    /\ enabled \in SUBSET Servers
    /\ spec = [s \in Servers |-> 1] /\ ca = 1 /\ kubefile = 0
    /\ status \in [Servers -> {"absent", "foreign", "stopped"}]
    /\ baked = Nobody /\ mounted = Nobody
    /\ recorded = [s \in Servers |-> None]
    /\ pc = "idle" /\ want = {} /\ inGroup = Missing /\ allNames = {}
    /\ thread = AtRest /\ startLock = None
    /\ retries = Nobody /\ stopping = {} /\ polled = {}
    /\ clean = TRUE /\ healthy = {} /\ doubt = {} /\ consumed = {}
    /\ changes = 0 /\ trouble = 0

Trouble == trouble < MaxTrouble /\ trouble' = trouble + 1
Smooth  == UNCHANGED trouble

\* An input changes: between commands, or under one that has read some of it.
Changes == /\ changes < MaxChanges /\ changes' = changes + 1
           /\ clean' = (clean /\ pc = "idle")

\* The command ends, and its variables with it.
Return ==
    /\ pc' = "idle" /\ want' = {} /\ inGroup' = Missing /\ allNames' = {}
    /\ thread' = AtRest /\ startLock' = None
    /\ retries' = Nobody /\ stopping' = {} /\ polled' = {} /\ healthy' = {}

-----------------------------------------------------------------------------
(* The operator and ToolHive, at any time.                                 *)

Others == UNCHANGED <<pc, want, inGroup, allNames, thread, startLock, retries, stopping, polled>>

\* Once a thread has compared its server's spec, or used it, a change goes unseen.
Edit(s) ==
    /\ Changes
    /\ \E v \in (1..MaxSpec) \ {spec[s]} : spec' = [spec EXCEPT ![s] = v]
    /\ healthy' = healthy \ {s}
    /\ doubt' = IF thread[s] \in {"restart", "record"} THEN doubt \union {s} ELSE doubt
    /\ UNCHANGED <<enabled, ca, kubefile, toolhive, recorded, consumed, trouble>> /\ Others

Toggle(s) ==
    /\ Changes
    /\ enabled' = IF s \in enabled THEN enabled \ {s} ELSE enabled \union {s}
    /\ UNCHANGED <<spec, ca, kubefile, toolhive, recorded, history, trouble, healthy>> /\ Others

\* The Kind cluster is created anew.
Rotate ==
    /\ Changes
    /\ ca' = ca + 1
    /\ healthy' = healthy \ Kind
    /\ UNCHANGED <<enabled, spec, kubefile, toolhive, recorded, history, trouble>> /\ Others

\* A started workload comes up, a stopped one has released its port.
ComesUp(s) ==
    /\ status[s] \in {"starting", "closing"}
    /\ status' = [status EXCEPT ![s] = IF @ = "starting" THEN "running" ELSE "stopped"]
    /\ UNCHANGED <<declared, kubefile, baked, mounted, recorded, command, history, changes, trouble>>

Breaks(s) ==
    /\ status[s] \in {"starting", "running"} /\ Trouble
    /\ status' = [status EXCEPT ![s] = "error"]
    /\ UNCHANGED <<declared, kubefile, baked, mounted, recorded, command, history, changes>>

-----------------------------------------------------------------------------
(* run_workloads: one listing for all, then one thread per enabled server. *)

\* Either listing of ToolHive, when it fails, looks like one of nothing.
Listed == [s \in Servers |-> IF Ours(s) THEN status[s] ELSE "absent"]
Named  == {s \in Servers : status[s] # "absent"}

(* Mutant: a workload without a fingerprint is taken to be unchanged.      *)
UnrecordedIsUnchanged(s) == recorded[s] # None /\ recorded[s] # spec[s]

SpecChanged(s) == recorded[s] # spec[s]

\* kind_kubeconfig_stale: what is compared is the file, not what the workload mounted.
Stale(s) == s \in Kind /\ kubefile # ca

Start ==
    /\ pc = "idle"
    /\ \/ inGroup' = Listed /\ allNames' = Named /\ clean' = TRUE /\ Smooth
       \/ /\ Trouble /\ clean' = FALSE
          /\ \/ inGroup' = Missing /\ allNames' = Named
             \/ inGroup' = Listed /\ allNames' = {}
    /\ want' = enabled
    /\ healthy' = {s \in enabled : status[s] = "running" /\ ~SpecChanged(s) /\ ~Stale(s)}
    /\ pc' = IF enabled = {} THEN "idle" ELSE "apply"
    /\ thread' = [s \in Servers |-> IF s \in enabled THEN "todo" ELSE "done"]
    /\ retries' = Nobody /\ stopping' = {} /\ polled' = {} /\ startLock' = None
    /\ UNCHANGED <<declared, kubefile, toolhive, recorded, history, changes>>

(* Mutant: a running workload is restarted like any other.                 *)
PlanAnyway(s, stale) ==
    IF (stale \/ SpecChanged(s)) /\ s \in allNames THEN "rm"
    ELSE IF inGroup[s] # "absent" THEN "restart"
    ELSE IF s \in allNames THEN "rm" ELSE "run"

\* What the thread decides: the server's spec against its fingerprint, and the listings.
Plan(s, stale) ==
    IF inGroup[s] = "running" /\ ~stale /\ ~SpecChanged(s) THEN "done"
    ELSE IF (stale \/ SpecChanged(s)) /\ s \in allNames THEN "rm"
    ELSE IF inGroup[s] # "absent" THEN "restart"
    ELSE IF s \in allNames THEN "rm" ELSE "run"

Goes(s, step) == thread' = [thread EXCEPT ![s] = step]
InApply == UNCHANGED <<declared, pc, want, inGroup, allNames, retries, stopping, polled, healthy,
                       changes>>

\* A cluster that does not answer is not taken to have changed.
Decide(s) ==
    /\ pc = "apply" /\ thread[s] = "todo"
    /\ \/ Goes(s, Plan(s, Stale(s))) /\ Smooth /\ UNCHANGED clean
       \/ /\ s \in Kind /\ kubefile # 0 /\ Trouble /\ clean' = FALSE
          /\ Goes(s, Plan(s, FALSE))
    /\ InApply /\ UNCHANGED <<toolhive, kubefile, recorded, history, startLock>>

(* Mutant: the fingerprint is saved before the workload is recreated.      *)
RecordFirst(s) ==
    /\ pc = "apply" /\ thread[s] = "rm"
    /\ recorded' = [recorded EXCEPT ![s] = spec[s]]
    /\ Goes(s, "run")
    /\ \/ status' = [status EXCEPT ![s] = "absent"] /\ Smooth /\ UNCHANGED clean
       \/ Trouble /\ clean' = FALSE /\ UNCHANGED status
    /\ InApply /\ UNCHANGED <<baked, mounted, kubefile, history, startLock>>

\* `thv rm`, whose result nobody reads.
Remove(s) ==
    /\ pc = "apply" /\ thread[s] = "rm"
    /\ Goes(s, "run")
    /\ \/ status' = [status EXCEPT ![s] = "absent"] /\ Smooth /\ UNCHANGED clean
       \/ Trouble /\ clean' = FALSE /\ UNCHANGED status
    /\ InApply /\ UNCHANGED <<baked, mounted, kubefile, recorded, history, startLock>>

Locks(s) ==
    /\ pc = "apply" /\ thread[s] \in {"run", "restart"} /\ startLock = None
    /\ startLock' = s
    /\ InApply /\ UNCHANGED <<toolhive, kubefile, recorded, history, thread, clean, trouble>>

\* The workloads whose kubeconfig a `thv run` of s writes over.
Overtaken(s) == IF s \in Kind THEN {t \in Kind : Ours(t) /\ mounted[t] # ca} ELSE {}

\* ToolHive creates the workload, unless one of its name exists.
Creates(s, state) ==
    /\ status[s] = "absent"
    /\ status' = [status EXCEPT ![s] = state]
    /\ baked' = [baked EXCEPT ![s] = spec[s]]
    /\ mounted' = [mounted EXCEPT ![s] = ca]
    /\ consumed' = (consumed \union Overtaken(s)) \ {s}

\* The cluster's kubeconfig is written, then `thv run` is called. If it fails, the workload
\* may be there all the same.
Run(s) ==
    /\ startLock = s /\ thread[s] = "run"
    /\ startLock' = None
    /\ kubefile' = IF s \in Kind THEN ca ELSE kubefile
    /\ \/ /\ Creates(s, "starting") /\ doubt' = doubt \ {s}
          /\ Goes(s, "record") /\ Smooth /\ UNCHANGED clean
       \/ /\ Creates(s, "error") /\ doubt' = doubt \union {s}
          /\ Goes(s, "done") /\ Trouble /\ clean' = FALSE
       \/ /\ IF status[s] = "absent" THEN Trouble ELSE Smooth
          /\ Goes(s, "done") /\ clean' = FALSE
          /\ consumed' = consumed \union Overtaken(s) /\ UNCHANGED <<toolhive, doubt>>
    /\ InApply /\ UNCHANGED recorded

\* `thv restart`: starts the workload again as it was created. Without a listing of every
\* group this is what a changed one gets.
Restart(s) ==
    /\ startLock = s /\ thread[s] = "restart"
    /\ startLock' = None
    /\ \/ /\ Ours(s)
          /\ status' = [status EXCEPT ![s] = "starting"]
          /\ doubt' = IF s \in allNames THEN doubt ELSE doubt \union {s}
          /\ Goes(s, "record") /\ Smooth /\ UNCHANGED clean
       \/ Trouble /\ Goes(s, "done") /\ clean' = FALSE /\ UNCHANGED <<status, doubt>>
    /\ InApply /\ UNCHANGED <<baked, mounted, kubefile, consumed, recorded>>

\* The fingerprint is taken of what is declared now.
Record(s) ==
    /\ pc = "apply" /\ thread[s] = "record"
    /\ recorded' = [recorded EXCEPT ![s] = spec[s]]
    /\ Goes(s, "done")
    /\ InApply /\ UNCHANGED <<toolhive, kubefile, history, startLock, clean, trouble>>

\* SystemExit: no Kind cluster, network or kubeconfig to be had. The other threads go on.
Raises(s) ==
    /\ pc = "apply" /\ Trouble /\ clean' = FALSE
    /\ \/ thread[s] \in {"todo", "record"} /\ UNCHANGED startLock
       \/ thread[s] = "run" /\ startLock = s /\ startLock' = None
    /\ doubt' = IF thread[s] = "record" THEN doubt \union {s} ELSE doubt
    /\ Goes(s, "raised")
    /\ InApply /\ UNCHANGED <<toolhive, kubefile, recorded, consumed>>

Exits ==
    /\ pc = "apply" /\ \A s \in Servers : thread[s] \in {"done", "raised"}
    /\ \E s \in Servers : thread[s] = "raised"
    /\ Return
    /\ UNCHANGED <<declared, kubefile, toolhive, recorded, history, clean, changes, trouble>>

Applied ==
    /\ pc = "apply" /\ \A s \in Servers : thread[s] = "done"
    /\ pc' = "wait" /\ want' = enabled
    /\ UNCHANGED <<declared, kubefile, toolhive, recorded, history, inGroup, allNames, thread,
                   startLock, retries, stopping, polled, clean, healthy, changes, trouble>>

-----------------------------------------------------------------------------
(* wait_for_workloads_running.                                             *)

AllRunning(states) == \A s \in want : states[s] = "running"

Waiting == UNCHANGED <<declared, kubefile, baked, mounted, recorded, history, want, allNames,
                       thread, startLock, healthy, changes>>

Poll ==
    /\ pc = "wait" /\ polled = {}
    /\ IF AllRunning(Listed) THEN Return
       ELSE /\ inGroup' = Listed
            /\ polled' = {s \in want : Listed[s] # "running"}
            /\ UNCHANGED <<pc, want, allNames, thread, startLock, retries, stopping, healthy>>
    /\ UNCHANGED <<declared, kubefile, toolhive, recorded, history, clean, changes, trouble>>

(* Mutant: a workload is started again without waiting for its stop.       *)
ToStartAtOnce(s) == inGroup[s] \in {"closing", "stopped"} /\ s \in stopping

ToStop(s)  == inGroup[s] = "error" /\ s \notin stopping /\ retries[s] < MaxErrorRetries
ToStart(s) == inGroup[s] = "stopped" /\ s \in stopping

\* Results of `thv stop` and `thv start` are not read.
Becomes(s, state) ==
    \/ status' = [status EXCEPT ![s] = IF Ours(s) THEN state ELSE @] /\ Smooth /\ UNCHANGED clean
    \/ Trouble /\ clean' = FALSE /\ UNCHANGED status

\* A workload in error is stopped, and started once ToolHive reports it stopped.
Recover(s) ==
    /\ pc = "wait" /\ s \in polled
    /\ polled' = polled \ {s}
    /\ \/ /\ ToStop(s)
          /\ retries' = [retries EXCEPT ![s] = @ + 1]
          /\ stopping' = stopping \union {s}
          /\ Becomes(s, "closing")
       \/ /\ ~ToStop(s) /\ ToStart(s)
          /\ stopping' = stopping \ {s}
          /\ Becomes(s, "starting") /\ UNCHANGED retries
       \/ /\ ~ToStop(s) /\ ~ToStart(s)
          /\ Smooth /\ UNCHANGED <<status, retries, stopping, clean>>
    /\ Waiting /\ UNCHANGED <<pc, inGroup>>

\* The deadline has passed: the backends that are not running are left out of the vMCP.
GiveUp ==
    /\ pc = "wait" /\ polled = {} /\ ~AllRunning(Listed)
    /\ Return /\ clean' = FALSE
    /\ UNCHANGED <<declared, kubefile, toolhive, recorded, history, changes, trouble>>

-----------------------------------------------------------------------------
(* stop_stack, and a command killed at any step.                           *)

\* Every workload that is not at rest is stopped at once; some of the stops may fail.
Stop ==
    /\ pc = "idle"
    /\ \E kept \in SUBSET {s \in Servers : Ours(s) /\ status[s] # "stopped"} :
         /\ status' = [s \in Servers |-> IF Ours(s) /\ status[s] # "stopped" /\ s \notin kept
                                        THEN "closing" ELSE status[s]]
         /\ IF kept = {} THEN Smooth ELSE Trouble
    /\ UNCHANGED <<declared, kubefile, baked, mounted, recorded, history, command, changes>>

\* What a thread has just brought up and not recorded yet stays unrecorded.
Kill ==
    /\ pc # "idle" /\ Trouble
    /\ Return /\ clean' = FALSE
    /\ doubt' = doubt \union {s \in Servers : thread[s] = "record"}
    /\ UNCHANGED <<declared, kubefile, toolhive, recorded, consumed, changes>>

Next ==
    \/ \E s \in Servers : \/ Edit(s) \/ Toggle(s) \/ ComesUp(s) \/ Breaks(s)
                          \/ Decide(s) \/ Remove(s) \/ Locks(s) \/ Run(s) \/ Restart(s)
                          \/ Record(s) \/ Raises(s) \/ Recover(s)
    \/ Rotate \/ Start \/ Exits \/ Applied \/ Poll \/ GiveUp \/ Stop \/ Kill

Spec == Init /\ [][Next]_vars

-----------------------------------------------------------------------------
(* A recorded fingerprint is that of the workload that is there, in and out *)
(* of the windows of _apply_workload. It is not known to be (doubt) once,  *)
(* since the workload was created,                                         *)
(*   - its inputs changed between its comparison and the `thv restart`, or *)
(*     between either call and the save, which hashes what is declared then; *)
(*   - the command died after `thv run` or `thv restart`, before the save; *)
(*   - `thv list` over all groups failed, which looks like no workload at  *)
(*     all: a changed one is restarted as it was, and recorded as changed; *)
(*   - the `thv run` that created it was reported as failed.               *)
(* Else no failed removal, run or restart, no kill at another step, and no *)
(* edit, back to an earlier spec included, parts the two.                  *)
RecordedIsBaked ==
    \A s \in Servers \ doubt :
        Ours(s) /\ thread[s] # "record" => recorded[s] \in {None, baked[s]}

(* A start in which no command fails and no input changes ends with every  *)
(* server it found enabled running, and, whatever earlier commands left    *)
(* behind: with what is declared, unless its fingerprint is in doubt, and, *)
(* on Kind, with the cluster's CA, unless the kubeconfig it shares was     *)
(* rewritten for another server's `thv run` (write_internal_kubeconfig)    *)
(* or for one of its own that failed.                                      *)
StartConverges ==
    [][(pc # "idle" /\ pc' = "idle" /\ clean') => \A s \in want :
          /\ status'[s] = "running"
          /\ s \notin doubt => baked'[s] = spec[s]
          /\ s \in Kind \ consumed => mounted'[s] = ca]_vars

(* "already running in our group, spec unchanged -> leave it", also while  *)
(* other servers are recreated and other inputs change, as long as the     *)
(* listing of the group did not fail: then all of them are recreated.      *)
HealthyIsLeft ==
    [][pc = "apply" /\ inGroup # Missing => \A s \in healthy :
          status[s] = "running" => status'[s] \in {"running", "error"}]_vars

(* The recovery of a workload in error never starts it while ToolHive is   *)
(* still tearing it down (wait_for_workloads_running).                     *)
RecoveryHasOneOwner ==
    [][(pc = "wait" /\ pc' = "wait") => \A s \in Servers :
          status'[s] = "starting" => status[s] \in {"starting", "stopped"}]_vars

-----------------------------------------------------------------------------
(* What makes RecordedIsBaked inductive.                                   *)

Steps == {"todo", "rm", "run", "restart", "record", "done", "raised"}
States == {"absent", "foreign", "starting", "running", "error", "closing", "stopped"}

WorkloadsTypeOK ==
    /\ enabled \subseteq Servers /\ spec \in [Servers -> Nat] /\ ca \in Nat /\ kubefile \in Nat
    /\ status \in [Servers -> States]
    /\ baked \in [Servers -> Nat] /\ mounted \in [Servers -> Nat]
    /\ recorded \in [Servers -> Nat \union {None}]
    /\ pc \in {"idle", "apply", "wait"} /\ want \subseteq Servers
    /\ inGroup \in [Servers -> States] /\ allNames \subseteq Servers
    /\ thread \in [Servers -> Steps]
    /\ startLock \in Servers \union {None}
    /\ startLock # None => thread[startLock] \in {"run", "restart"}
    /\ retries \in [Servers -> 0..MaxErrorRetries]
    /\ stopping \subseteq Servers /\ polled \subseteq Servers
    /\ clean \in BOOLEAN /\ healthy \subseteq Servers
    /\ doubt \subseteq Servers /\ consumed \subseteq Servers

(* A thread restarts only what it found unchanged, if it could tell, and   *)
(* has brought up what it is about to record.                              *)
ThreadsKnow ==
    \A s \in Servers \ doubt :
        /\ thread[s] = "restart" /\ s \in allNames => recorded[s] = spec[s]
        /\ thread[s] = "record" => baked[s] = spec[s]

\* Threads work while a start applies.
ThreadsAtRest ==
    /\ pc # "apply" => thread = AtRest
    /\ \A s \in Servers \ want : thread[s] = "done"

(* A Kind workload has mounted what the file says, until the file is written over. *)
MountIsFile == \A s \in Kind \ consumed : Ours(s) => mounted[s] = kubefile

WorkloadsInv ==
    WorkloadsTypeOK /\ ThreadsKnow /\ ThreadsAtRest /\ MountIsFile /\ RecordedIsBaked

(* The thread of a healthy workload does nothing but find it running.      *)
HealthyAreDone ==
    pc = "apply" /\ inGroup # Missing => \A s \in healthy :
        /\ thread[s] \in {"todo", "done", "raised"}
        /\ thread[s] = "todo" => inGroup[s] = "running" /\ ~SpecChanged(s) /\ ~Stale(s)

(* Nobody but the recovery itself starts a workload that was polled as stopped. *)
StoppedStay ==
    /\ pc = "apply" => polled = {}
    /\ pc = "wait" => \A s \in polled : inGroup[s] = "stopped" => status[s] = "stopped"

(* While nothing has failed or changed, a thread that is done leaves       *)
(* today's spec recorded and today's CA in the kubeconfig.                 *)
DoneIsRecorded ==
    pc # "idle" /\ clean => want = enabled /\ \A s \in want :
        /\ thread[s] # "raised"
        /\ pc = "apply" /\ inGroup[s] # "absent" => s \in allNames
        /\ s \notin doubt /\ thread[s] = "done" => recorded[s] = spec[s]
        /\ s \in Kind /\ thread[s] \in {"restart", "record", "done"} => kubefile = ca

=============================================================================
