------------------------------ MODULE HostStack ------------------------------
(***************************************************************************)
(* host/mcp/vicegerent_mcp.py: the supervised half of the host stack.      *)
(* `start` writes the vMCP configuration and launches or updates           *)
(* supervisord, the health watch rewrites the configuration and restarts   *)
(* the vMCP when the backends that run are others, `stop` takes everything *)
(* down. The listeners are the scoped and the operator's vMCP; ghostunnel  *)
(* and rclone are handled like the first and hold no state.                *)
(***************************************************************************)
EXTENDS Naturals, Sequences

CONSTANTS
    Members,        \* what a vMCP may serve: the enabled backends that run, with filters
    None,
    MaxChanges,     \* how often that set changes
    MaxCommands, MaxTrouble

ASSUME StackAssumption == MaxChanges \in Nat /\ MaxCommands \in Nat /\ MaxTrouble \in Nat

Listeners == {"vmcp", "operator-vmcp"}

\* The health watch of supervisord, and one whose supervisord was killed.
Watchers == {"child", "orphan"}

VARIABLES
    want,           \* the enabled backends that are running
    file,           \* the membership in the vMCP configuration, or None
    valid,          \* whether `thv vmcp validate` accepts it
    served,         \* the membership the scoped vMCP has read
    proc,           \* each listener: "down", or whose child it is: "sup", "stray", "orphan"
    sup, stray,     \* supervisord at the socket, and one that lost it
    programs,       \* the listeners in the configuration of supervisord
    halted,         \* those supervisorctl has stopped
    watch, previous,\* the step of each health watch and the configuration it replaces
    cmd, already, operator, rc,  \* the running command, what it knows and its exit code
    done,           \* the last command, if it succeeded
    disturbed,      \* a reconciliation or a start was cut short or overlapped another (re)start
    changes, commands, trouble

fileVars == <<file, valid>>
procVars == <<served, proc, sup, stray, programs, halted>>
watchVars == <<watch, previous>>
cmdVars == <<cmd, already, operator, rc, done>>
counts == <<changes, commands, trouble>>
vars == <<want, fileVars, procVars, watchVars, cmdVars, disturbed, counts>>

Init ==
    /\ want \in Members
    /\ file = None /\ valid = FALSE /\ served = None
    /\ sup = FALSE /\ stray \in BOOLEAN
    /\ proc \in [Listeners -> IF stray THEN {"stray"} ELSE {"down", "orphan"}]
    /\ programs = {} /\ halted = {}
    /\ watch \in [Watchers -> {"off", "sleep"}] /\ watch["child"] = "off"
    /\ previous = [w \in Watchers |-> None]
    /\ cmd = "idle" /\ already = FALSE /\ operator = FALSE /\ rc = 0 /\ done = "none" /\ disturbed = FALSE
    /\ changes = 0 /\ commands = 0 /\ trouble = 0

Trouble == trouble < MaxTrouble /\ trouble' = trouble + 1 /\ UNCHANGED <<changes, commands>>
Smooth  == UNCHANGED counts
Calm    == UNCHANGED disturbed

Children(parent) == {p \in Listeners : proc[p] = parent}
Become(ps, state) == proc' = [p \in Listeners |-> IF p \in ps THEN state ELSE proc[p]]

\* supervisord starts p, which reads its configuration once, if it can.
CanServe(p) == p = "vmcp" => file # None /\ valid
Reads(ps)   == served' = IF "vmcp" \in ps THEN file ELSE served

\* A reconciliation is running.
Midway(w)   == watch[w] \notin {"off", "sleep"}
Reconciling == \E w \in Watchers : Midway(w)

Rests(w, state) == watch' = [watch EXCEPT ![w] = state] /\ previous' = [previous EXCEPT ![w] = None]

\* A watch ends where it is.
Interrupt(w, state) == Rests(w, state) /\ disturbed' = (disturbed \/ Midway(w))

\* The watch goes on without its supervisord; at most one does at a time.
Orphaned ==
    \/ watch["child"] = "off" /\ UNCHANGED watchVars
    \/ /\ watch["orphan"] = "off"
       /\ watch' = [child |-> "off", orphan |-> watch["child"]]
       /\ previous' = [child |-> None, orphan |-> previous["child"]]

-----------------------------------------------------------------------------
(* Around the stack.                                                       *)

Change(m) ==
    /\ changes < MaxChanges /\ m # want
    /\ want' = m /\ changes' = changes + 1
    /\ UNCHANGED <<fileVars, procVars, watchVars, cmdVars, disturbed, commands, trouble>>

\* autorestart, of supervisord and of a stray one alike.
Revive(p) ==
    /\ proc[p] = "down" /\ CanServe(p)
    /\ \/ sup /\ p \in programs \ halted /\ Become({p}, "sup")
       \/ stray /\ ~sup /\ Become({p}, "stray")
    /\ Reads({p})
    /\ disturbed' = (disturbed \/ (p = "vmcp" /\ Reconciling))
    /\ UNCHANGED <<want, fileVars, sup, stray, programs, halted, watchVars, cmdVars, counts>>

ReviveWatch ==
    /\ sup /\ watch["child"] = "off"
    /\ Rests("child", "sleep")
    /\ UNCHANGED <<want, fileVars, procVars, cmdVars, disturbed, counts>>

CrashListener(p) ==
    /\ proc[p] # "down" /\ Trouble
    /\ Become({p}, "down")
    /\ UNCHANGED <<want, fileVars, served, sup, stray, programs, halted, watchVars, cmdVars, disturbed>>

\* supervisord is killed: its children stay, the watch among them, wherever it is.
CrashSupervisor ==
    /\ sup /\ Trouble
    /\ sup' = FALSE /\ Become(Children("sup"), "orphan")
    /\ Orphaned
    /\ UNCHANGED <<want, fileVars, served, stray, programs, halted, cmdVars, disturbed>>

CrashWatch(w) ==
    /\ watch[w] # "off" /\ Trouble
    /\ Interrupt(w, "off")
    /\ UNCHANGED <<want, fileVars, procVars, cmdVars>>

\* What an orphaned watch prints has no reader: it ends when its buffer is written out
\* (the backends it generated, a listing that failed), or goes on.
LosesOutput ==
    /\ watch["orphan"] \in {"sleep", "validate"}
    /\ Interrupt("orphan", "off")
    /\ UNCHANGED <<want, fileVars, procVars, cmdVars, counts>>

-----------------------------------------------------------------------------
(* The health watch: reconcile_vmcp_membership.                            *)

Watching == UNCHANGED <<want, cmdVars>> /\ Calm
Steps(w, from, to) == watch[w] = from /\ watch' = [watch EXCEPT ![w] = to]

\* It warns of a failure, which ends an orphan.
Warns(w) == Rests(w, IF w = "child" THEN "sleep" ELSE "off")

\* A start that has written the file and not yet restarted the vMCP that reads it.
InPlace == cmd \in {"validate", "launch", "update", "restart"}

\* The listing of the group against the configuration file.
Compare(w) ==
    /\ Steps(w, "sleep", "generate") /\ file # want
    /\ previous' = [previous EXCEPT ![w] = [file |-> file, valid |-> valid]]
    /\ disturbed' = (disturbed \/ InPlace \/ Reconciling)
    /\ Smooth /\ UNCHANGED <<want, cmdVars, fileVars, procVars>>

Restore(w) == IF previous[w].file = None THEN UNCHANGED fileVars
              ELSE file' = previous[w].file /\ valid' = previous[w].valid

\* `thv vmcp init` captures the backends that run now.
WatchGenerates(w) ==
    /\ watch[w] = "generate"
    /\ \/ /\ file' = want
          /\ (valid' = TRUE /\ Smooth) \/ (valid' = FALSE /\ Trouble)
          /\ Steps(w, "generate", "validate") /\ UNCHANGED previous
       \/ Trouble /\ Restore(w) /\ Warns(w)
    /\ UNCHANGED procVars /\ Watching

WatchValidates(w) ==
    /\ watch[w] = "validate"
    /\ \/ valid /\ Steps(w, "validate", "restart") /\ UNCHANGED <<fileVars, previous>>
       \/ ~valid /\ Restore(w) /\ Warns(w)
    /\ Smooth /\ UNCHANGED procVars /\ Watching

\* `supervisorctl restart` stops the listener and starts it again, or fails on either side
\* of the stop.
Restartable(p) == sup /\ p \in programs /\ CanServe(p) /\ proc[p] \in {"sup", "down"}
Restarts(ps) ==
    /\ Become(ps, "sup") /\ Reads(ps)
    /\ halted' = halted \ ps

WatchRestarts(w) ==
    /\ watch[w] = "restart"
    /\ \/ /\ Restartable("vmcp") /\ Restarts({"vmcp"})
          /\ Rests(w, "sleep") /\ Smooth
       \/ /\ IF Restartable("vmcp") THEN Trouble ELSE Smooth
          /\ UNCHANGED proc \/ Become(Children("sup") \intersect {"vmcp"}, "down")
          /\ Steps(w, "restart", "undo") /\ UNCHANGED <<served, halted, previous>>
    /\ UNCHANGED <<fileVars, sup, stray, programs>> /\ Watching

(* Mutant: the configuration is kept after a failed restart.               *)
WatchKeeps(w) ==
    /\ watch[w] = "undo" /\ Warns(w)
    /\ Smooth /\ UNCHANGED <<fileVars, procVars>> /\ Watching

WatchUndoes(w) ==
    /\ watch[w] = "undo" /\ Warns(w)
    /\ file' = previous[w].file /\ valid' = previous[w].valid
    /\ Smooth /\ UNCHANGED procVars /\ Watching

-----------------------------------------------------------------------------
(* start_stack, from the moment the workloads are up.                      *)

Goes(from, to) == cmd = from /\ cmd' = to
Ends(code) == cmd' = "idle" /\ rc' = code /\ UNCHANGED <<already, operator>>
Running == UNCHANGED <<already, operator, rc, done>>
\* The vMCP that runs may not have read the file the command wrote.
Leaves == disturbed' = (disturbed \/ cmd \in {"validate", "update", "restart"})
Expected == IF operator THEN Listeners ELSE {"vmcp"}

\* Whether supervisord runs is asked once; a status that cannot be had means it does not.
Asks ==
    \/ already' = sup /\ UNCHANGED <<changes, trouble>>
    \/ sup /\ already' = FALSE /\ trouble < MaxTrouble /\ trouble' = trouble + 1 /\ UNCHANGED changes

Start(op) ==
    /\ cmd = "idle" /\ commands < MaxCommands
    /\ Asks /\ commands' = commands + 1
    /\ cmd' = "strays" /\ operator' = op /\ rc' = 0 /\ done' = "none"
    /\ UNCHANGED <<want, fileVars, procVars, watchVars, disturbed>>

\* Terminated supervisords take their children along, killed ones leave them behind.
KillSupervisors(spared) ==
    /\ stray' = FALSE /\ sup' = (sup /\ spared)
    /\ \E left \in {"down", "orphan"} :
         /\ Become(Children("stray") \union (IF spared THEN {} ELSE Children("sup")), left)
         /\ IF spared \/ ~sup THEN UNCHANGED <<watchVars, disturbed>>
            ELSE IF left = "down" THEN Interrupt("child", "off")
            ELSE Orphaned /\ Calm
    /\ UNCHANGED <<served, programs, halted>>

KillStrays ==
    /\ Goes("strays", IF operator THEN "generate" ELSE "optout") /\ Running
    /\ KillSupervisors(already)
    /\ Smooth /\ UNCHANGED <<want, fileVars>>

(* Mutant: only the listener supervisorctl knows is stopped.               *)
StopsSupervised ==
    /\ already /\ "operator-vmcp" \in Children("sup")
       => halted' = halted \union {"operator-vmcp"} /\ Become({"operator-vmcp"}, "down")
    /\ ~already \/ "operator-vmcp" \notin Children("sup") => UNCHANGED <<halted, proc>>

\* The operator's listener, unless it is asked for: stopped, or killed as an orphan.
OptsOut ==
    /\ halted' = halted \union (IF already THEN {"operator-vmcp"} \intersect Children("sup") ELSE {})
    /\ Become({"operator-vmcp"}, "down")

OptOut ==
    /\ Goes("optout", "generate") /\ Running
    /\ OptsOut
    /\ Smooth /\ Calm /\ UNCHANGED <<want, fileVars, served, sup, stray, programs, watchVars>>

Generate ==
    /\ Goes("generate", "validate") /\ Running
    /\ file' = want
    /\ (valid' = TRUE /\ Smooth) \/ (valid' = FALSE /\ Trouble)
    /\ disturbed' = (disturbed \/ Reconciling)
    /\ UNCHANGED <<want, procVars, watchVars>>

Validate ==
    /\ cmd = "validate"
    /\ \/ valid /\ cmd' = (IF already THEN "update" ELSE "launch") /\ Running /\ Calm
       \/ ~valid /\ Ends(1) /\ UNCHANGED done /\ Leaves
    /\ Smooth /\ UNCHANGED <<want, fileVars, procVars, watchVars>>

\* A listener that is not supervisord's is no sign of health: start refuses to go on.
Refuse ==
    /\ cmd = "launch" /\ \E p \in Expected : proc[p] # "down"
    /\ Ends(1) /\ UNCHANGED done
    /\ Smooth /\ Calm /\ UNCHANGED <<want, fileVars, procVars, watchVars>>

Launch ==
    /\ Goes("launch", "ready") /\ Running
    /\ \A p \in Expected : proc[p] = "down"
    /\ sup' = TRUE /\ programs' = Expected /\ halted' = {}
    /\ Become(Expected, "sup") /\ Reads(Expected)
    /\ Rests("child", "sleep")
    /\ Smooth /\ Calm /\ UNCHANGED <<want, fileVars, stray>>

\* reread and update: only the operator's vMCP comes or goes. Then the opt-out once more.
Update ==
    /\ Goes("update", "restart") /\ Running
    /\ sup
    /\ programs' = Expected /\ halted' = halted \intersect Expected
    /\ proc' = [p \in Listeners |->
                  IF p = "vmcp" THEN proc[p] ELSE IF operator /\ proc[p] = "down" THEN "sup"
                  ELSE IF operator THEN proc[p] ELSE "down"]
    /\ Smooth /\ Calm /\ UNCHANGED <<want, fileVars, served, sup, stray, watchVars>>

\* Every program is restarted, the listeners first, for it reads its files only once.
RestartListeners ==
    /\ Goes("restart", "rewatch") /\ Running
    /\ \A p \in Expected : Restartable(p)
    /\ Restarts(Expected)
    /\ Smooth /\ Calm /\ UNCHANGED <<want, fileVars, sup, stray, programs, watchVars>>

RestartWatch ==
    /\ Goes("rewatch", "ready") /\ Running
    /\ sup /\ Interrupt("child", "sleep")
    /\ Smooth /\ UNCHANGED <<want, fileVars, procVars>>

Ready ==
    /\ cmd = "ready"
    /\ LET up == sup /\ \A p \in Expected : proc[p] = "sup"
       IN  Ends(IF up THEN 0 ELSE 1) /\ done' = (IF up THEN "start" ELSE "none")
    /\ Smooth /\ Calm /\ UNCHANGED <<want, fileVars, procVars, watchVars>>

\* A call that fails, a check that raises SystemExit, or Ctrl-C.
Abort ==
    /\ cmd # "idle" /\ Ends(1)
    /\ \/ Trouble
       \/ /\ cmd \in {"update", "restart", "rewatch"} /\ Smooth
          /\ ~sup \/ (cmd = "restart" /\ \E p \in Expected : ~Restartable(p))
    /\ Leaves
    /\ UNCHANGED <<want, fileVars, procVars, watchVars, done>>

-----------------------------------------------------------------------------
(* stop_stack, once the workloads are stopped.                             *)

Stop ==
    /\ cmd = "idle" /\ commands < MaxCommands
    /\ Asks /\ commands' = commands + 1
    /\ cmd' = (IF already' THEN "shutdown" ELSE "down") /\ rc' = 0 /\ done' = "none"
    /\ UNCHANGED <<want, fileVars, procVars, watchVars, operator, disturbed>>

Shutdown ==
    /\ Goes("shutdown", "down") /\ UNCHANGED <<already, operator, done>>
    /\ \/ /\ sup' = FALSE /\ Become(Children("sup"), "down") /\ Interrupt("child", "off")
          /\ Smooth /\ UNCHANGED <<rc, served, stray, programs, halted>>
       \/ Trouble /\ rc' = 1 /\ Calm /\ UNCHANGED <<procVars, watchVars>>
    /\ UNCHANGED <<want, fileVars>>

(* Mutant: only the supervisord at the socket is stopped.                  *)
SparesStrays ==
    /\ Goes("down", "sweep") /\ Running
    /\ Smooth /\ Calm /\ UNCHANGED <<want, fileVars, procVars, watchVars>>

StopStrays ==
    /\ Goes("down", "sweep") /\ Running
    /\ KillSupervisors(FALSE)
    /\ Smooth /\ UNCHANGED <<want, fileVars>>

\* Whatever still listens and can be recognized is an orphan.
Sweep ==
    /\ cmd = "sweep"
    /\ \/ /\ Become(Listeners, "down") /\ Smooth
          /\ Ends(rc) /\ done' = (IF rc = 0 THEN "stop" ELSE "none")
       \/ Trouble /\ Ends(1) /\ UNCHANGED <<proc, done>>
    /\ Calm /\ UNCHANGED <<want, fileVars, served, sup, stray, programs, halted, watchVars>>

Watch(w) == \/ Compare(w) \/ WatchGenerates(w) \/ WatchValidates(w)
            \/ WatchRestarts(w) \/ WatchUndoes(w)
Command == \/ KillStrays \/ OptOut \/ Generate \/ Validate \/ Refuse \/ Launch \/ Update
           \/ RestartListeners \/ RestartWatch \/ Ready \/ Shutdown \/ StopStrays \/ Sweep
Next ==
    \/ \E m \in Members : Change(m)
    \/ \E p \in Listeners : Revive(p) \/ CrashListener(p)
    \/ \E w \in Watchers : Watch(w) \/ CrashWatch(w)
    \/ ReviveWatch \/ CrashSupervisor \/ LosesOutput
    \/ Command \/ Abort
    \/ \E op \in BOOLEAN : Start(op)
    \/ Stop

\* supervisord retries, the watch polls and no call hangs (`thv` has a timeout).
Fairness ==
    /\ \A w \in Watchers : WF_vars(Watch(w))
    /\ WF_vars(ReviveWatch)
    /\ \A p \in Listeners : WF_vars(Revive(p))
    /\ WF_vars(Command) /\ WF_vars(Abort)

Spec == Init /\ [][Next]_vars /\ Fairness

-----------------------------------------------------------------------------
(* "Host stack stopped." and exit code 0 mean that nothing of the stack is *)
(* left that serves, and that nothing comes back by itself: no             *)
(* supervisord, reachable or lost, and no listener (stop_stack), even      *)
(* where an orphaned health watch goes on trying to restart the vMCP.      *)
StopIsFinal == done = "stop" => ~sup /\ ~stray /\ \A p \in Listeners : proc[p] = "down"

(* After a start without it, the operator's unscoped vMCP does not run, be *)
(* it a child of this supervisord, of a lost one, or an orphan.            *)
OptOutHolds == done = "start" /\ ~operator => proc["operator-vmcp"] = "down"

(* The vMCP ends up serving the enabled backends that run, however often   *)
(* they change, the configuration cannot be written or the vMCP cannot be  *)
(* restarted, as long as no reconciliation and no start is cut short       *)
(* between its file and its restart, and none overlaps another (an         *)
(* orphaned watch reconciles too) or an automatic restart of the vMCP.     *)
VmcpFollows == []<>(disturbed \/ ~sup \/ (served = want /\ proc["vmcp"] = "sup"))

-----------------------------------------------------------------------------
(* What makes StopIsFinal and OptOutHolds inductive.                       *)

Starting == {"optout", "generate", "validate", "launch", "update", "restart", "rewatch", "ready"}

StackTypeOK ==
    /\ proc \in [Listeners -> {"down", "sup", "stray", "orphan"}]
    /\ sup \in BOOLEAN /\ stray \in BOOLEAN
    /\ programs \subseteq Listeners /\ halted \subseteq Listeners
    /\ cmd \in Starting \union {"idle", "strays", "shutdown", "down", "sweep"}
    /\ already \in BOOLEAN /\ operator \in BOOLEAN
    /\ done \in {"none", "start", "stop"}

(* A command reports only at its end, and nothing revives a supervisord.   *)
CommandsReport ==
    /\ done # "none" => cmd = "idle"
    /\ cmd = "sweep" => ~sup /\ ~stray

(* A start has one supervisord: the one it found, or none until its own.   *)
OneSupervisor ==
    /\ cmd \in Starting => ~stray
    /\ cmd \in {"optout", "generate", "validate", "launch"} /\ ~already => ~sup
    /\ cmd = "launch" => ~already

(* Without the operator's vMCP, nobody has it in his configuration once    *)
(* this start has written its own, and nobody runs it.                     *)
OptedOut ==
    ~operator =>
        /\ cmd \in {"generate", "validate", "launch"} /\ ~already => proc["operator-vmcp"] = "down"
        /\ cmd \in {"restart", "rewatch", "ready"} \/ done = "start" =>
              /\ proc["operator-vmcp"] = "down" /\ "operator-vmcp" \notin programs
              /\ ~stray

StackInv == StackTypeOK /\ CommandsReport /\ OneSupervisor /\ OptedOut /\ StopIsFinal

=============================================================================
