------------------------------ MODULE ServerState ------------------------------
(***************************************************************************)
(* The host's durable MCP intent (host/mcp/vicegerent_mcp.py): which       *)
(* servers the operator enabled, their parameters, and the fingerprint of  *)
(* what was last applied to each workload, in one file that several        *)
(* commands read and write at once.                                        *)
(*                                                                         *)
(* A save holds a file lock over read, edit and write; a load takes no     *)
(* lock, although it too may write: it migrates the file of an older       *)
(* release, and it puts the recovery copy in the place of a damaged file.  *)
(* A step is one operation on a file.  A temporary file is its writer's    *)
(* own until it is renamed into place.                                     *)
(***************************************************************************)
EXTENDS Naturals, Sequences

CONSTANTS
  Procs,        \* lifecycle commands that can run at once
  NoProc,       \* nobody holds the lock
  Servers,      \* the declared MCP servers
  Params,       \* what an operator may type for a server's parameters
  Prints,       \* fingerprints of a server's declaration
  Unset,        \* a server that has no entry
  Absent,       \* there is no such file
  Torn,         \* a file that is no valid state: cut off, or edited into none
  Foreign,      \* a file of a version this release does not support
  Commands,     \* the commands an operator gives
  Stored,       \* states that an earlier session may have left
  MaxCommands,  \* bound on the commands given
  MaxTrouble    \* bound on what goes wrong

Choice == {"on", "off"}
Partial(S, R) == UNION {[D -> R] : D \in SUBSET S}

(* The contents of a valid file. A server without an entry is Unset.       *)
State == [enabled : [Servers -> Choice \cup {Unset}],
          params : [Servers -> Params \cup {Unset}],
          fingerprints : [Servers -> Prints \cup {Unset}]]
Damage == {Torn, Foreign}
File == State \cup Damage \cup {Absent}

Loads == {"load enabled", "load params"}
Saves == {"save enabled", "save params", "save fingerprint"}

Nothing == [s \in {} |-> Unset]

(* What a command does in turn, and the entries it means to change.        *)
Command == [does : Seq(Loads \cup Saves),
            enabled : Partial(Servers, Choice),
            params : Partial(Servers, Params),
            fingerprints : Partial(Servers, Prints)]

ASSUME ProcAssumption == NoProc \notin Procs
ASSUME FileAssumption == (Damage \cup {Absent}) \cap State = {}
                         /\ Absent \notin Damage
ASSUME CommandAssumption == Commands \subseteq Command
ASSUME StoredAssumption == Stored \subseteq State
ASSUME BoundAssumption == MaxCommands \in Nat /\ MaxTrouble \in Nat

(* set_enabled: one server on or off.                                      *)
SetEnabled(s, choice) ==
  [does |-> <<"load enabled", "save enabled">>,
   enabled |-> [x \in {s} |-> choice], params |-> Nothing, fingerprints |-> Nothing]

(* configure: an answer for every server, parameters for those turned on.  *)
Configure(answers, typed) ==
  [does |-> <<"load enabled", "load params", "save enabled", "save params">>,
   enabled |-> answers, params |-> typed, fingerprints |-> Nothing]

(* _apply_workload has run a server: save_server_fingerprint.              *)
Applied(s, print) ==
  [does |-> <<"save fingerprint">>,
   enabled |-> Nothing, params |-> Nothing, fingerprints |-> [x \in {s} |-> print]]

(* enabled_servers, status, the health watch: a load and nothing else.     *)
Look == [does |-> <<"load enabled">>,
         enabled |-> Nothing, params |-> Nothing, fingerprints |-> Nothing]

VARIABLES
  path,      \* servers-state.json
  previous,  \* servers-state.json.previous
  legacy,    \* the file of an older release, in the runtime directory
  lock,      \* who holds servers-state.json.lock
  pc,        \* where each command is
  job,       \* the command
  todo,      \* what the command has left to do
  loaded,    \* the maps it has loaded and edited, not yet saved
  data,      \* the state it is about to write or to return
  open,      \* the source file a copy in progress has read
  why,       \* what the write is for: to "commit" a save or to "migrate"
  upgraded,  \* history: an older release left its file
  begun, crashes, damages  \* history: commands given, what has gone wrong

files == <<path, previous, legacy>>
locals == <<loaded, data, open, why>>
history == <<upgraded, begun, crashes, damages>>
vars == <<files, lock, pc, job, todo, locals, history>>

Empty == [enabled |-> [s \in Servers |-> Unset],
          params |-> [s \in Servers |-> Unset],
          fingerprints |-> [s \in Servers |-> Unset]]
NoCommand == [does |-> <<>>, enabled |-> Nothing, params |-> Nothing,
              fingerprints |-> Nothing]

Over(new, old) == [s \in Servers |-> IF s \in DOMAIN new THEN new[s] ELSE old[s]]

Reading == {"read", "legacy", "read legacy", "recover", "restore", "reinstate"}
Writing == {"write", "copy", "replace", "unlink"}
Phases == {"idle", "next"} \cup Reading \cup Writing

Moves(p, to) == pc' = [pc EXCEPT ![p] = to]

Init ==
  /\ \/ path = Absent /\ legacy \in Stored \cup {Absent, Torn}
     \/ path \in Stored /\ legacy = Absent
  /\ previous = Absent
  /\ lock = NoProc
  /\ pc = [p \in Procs |-> "idle"]
  /\ job = [p \in Procs |-> NoCommand]
  /\ todo = [p \in Procs |-> <<>>]
  /\ loaded = [p \in Procs |-> Empty]
  /\ data = [p \in Procs |-> Empty]
  /\ open = [p \in Procs |-> Absent]
  /\ why = [p \in Procs |-> "commit"]
  /\ upgraded = (legacy # Absent)
  /\ begun = 0 /\ crashes = 0 /\ damages = 0

Begin(p) ==
  /\ pc[p] = "idle" /\ begun < MaxCommands
  /\ begun' = begun + 1
  /\ \E c \in Commands : /\ job' = [job EXCEPT ![p] = c]
                         /\ todo' = [todo EXCEPT ![p] = c.does]
  /\ Moves(p, "next")
  /\ UNCHANGED <<files, lock, locals, upgraded, crashes, damages>>

(* load_server_state, load_server_params: no lock.                         *)
Load(p) ==
  /\ pc[p] = "next" /\ todo[p] # <<>> /\ Head(todo[p]) \in Loads
  /\ Moves(p, "read")
  /\ UNCHANGED <<files, lock, job, todo, locals, history>>

(* Mutant: the state is read and written without the lock.                 *)
SaveUnlocked(p) ==
  /\ pc[p] = "next" /\ todo[p] # <<>> /\ Head(todo[p]) \in Saves
  /\ Moves(p, "read")
  /\ UNCHANGED <<files, lock, job, todo, locals, history>>

(* _locked_state: wait for the lock, then read.                            *)
Lock(p) ==
  /\ pc[p] = "next" /\ todo[p] # <<>> /\ Head(todo[p]) \in Saves
  /\ lock = NoProc
  /\ lock' = p
  /\ Moves(p, "read")
  /\ UNCHANGED <<files, job, todo, locals, history>>

(* Mutant: a command that fails leaves the lock taken.                     *)
GoneWithLock(p) ==
  /\ Moves(p, "idle")
  /\ job' = [job EXCEPT ![p] = NoCommand]
  /\ todo' = [todo EXCEPT ![p] = <<>>]
  /\ loaded' = [loaded EXCEPT ![p] = Empty]
  /\ data' = [data EXCEPT ![p] = Empty]
  /\ open' = [open EXCEPT ![p] = Absent]
  /\ why' = [why EXCEPT ![p] = "commit"]
  /\ UNCHANGED lock

(* The command is over and its locals are gone; a lock it held is free.    *)
Gone(p) ==
  /\ Moves(p, "idle")
  /\ lock' = IF lock = p THEN NoProc ELSE lock
  /\ job' = [job EXCEPT ![p] = NoCommand]
  /\ todo' = [todo EXCEPT ![p] = <<>>]
  /\ loaded' = [loaded EXCEPT ![p] = Empty]
  /\ data' = [data EXCEPT ![p] = Empty]
  /\ open' = [open EXCEPT ![p] = Absent]
  /\ why' = [why EXCEPT ![p] = "commit"]

Fail(p) == Gone(p) /\ UNCHANGED <<files, history>>

Finish(p) ==
  /\ pc[p] = "next" /\ todo[p] = <<>>
  /\ Gone(p)
  /\ UNCHANGED <<files, history>>

(* What the save in hand makes of the state d read under the lock.         *)
Edited(p, d) ==
  CASE Head(todo[p]) = "save enabled" -> [d EXCEPT !.enabled = loaded[p].enabled]
    [] Head(todo[p]) = "save params"  -> [d EXCEPT !.params = loaded[p].params]
    [] OTHER -> [d EXCEPT !.fingerprints = Over(job[p].fingerprints, @)]

(* A load keeps its map, with the command's own choices put into it.       *)
Keep(p, d) ==
  loaded' = [loaded EXCEPT ![p] =
    IF Head(todo[p]) = "load enabled"
    THEN [@ EXCEPT !.enabled = Over(job[p].enabled, d.enabled)]
    ELSE [@ EXCEPT !.params = Over(job[p].params, d.params)]]

(* _read_state returns d: to a load, or to a save that now writes.         *)
Returns(p, d) ==
  /\ \/ /\ Head(todo[p]) \in Loads
        /\ Keep(p, d)
        /\ todo' = [todo EXCEPT ![p] = Tail(@)]
        /\ Moves(p, "next")
        /\ UNCHANGED data
     \/ /\ Head(todo[p]) \in Saves
        /\ data' = [data EXCEPT ![p] = Edited(p, d)]
        /\ Moves(p, "write")
        /\ UNCHANGED <<todo, loaded>>
  /\ open' = [open EXCEPT ![p] = Absent]
  /\ why' = [why EXCEPT ![p] = "commit"]
  /\ UNCHANGED <<lock, job, history>>

(* _read_state. A file that exists stays: it is only ever replaced.        *)
ReadState(p) ==
  /\ pc[p] = "read"
  /\ \/ path \in State /\ Returns(p, path) /\ UNCHANGED files
     \/ path = Foreign /\ Fail(p)
     \/ /\ path \in {Torn, Absent}
        /\ Moves(p, IF path = Torn THEN "recover" ELSE "legacy")
        /\ UNCHANGED <<files, lock, job, todo, locals, history>>

FindLegacy(p) ==
  /\ pc[p] = "legacy"
  /\ \/ legacy = Absent /\ Returns(p, Empty) /\ UNCHANGED files
     \/ /\ legacy # Absent
        /\ Moves(p, "read legacy")
        /\ UNCHANGED <<files, lock, job, todo, locals, history>>

(* Mutant: the legacy file is moved away before its successor is written.  *)
TakeLegacy(p) ==
  /\ pc[p] = "read legacy" /\ legacy \in State
  /\ data' = [data EXCEPT ![p] = legacy]
  /\ legacy' = Absent
  /\ why' = [why EXCEPT ![p] = "migrate"]
  /\ Moves(p, "write")
  /\ UNCHANGED <<path, previous, lock, job, todo, loaded, open, history>>

(* The legacy file may be gone by now; a malformed one is left as it is.   *)
ReadLegacy(p) ==
  /\ pc[p] = "read legacy"
  /\ \/ legacy \notin State /\ Fail(p)
     \/ /\ legacy \in State
        /\ data' = [data EXCEPT ![p] = legacy]
        /\ why' = [why EXCEPT ![p] = "migrate"]
        /\ Moves(p, "write")
        /\ UNCHANGED <<files, lock, job, todo, loaded, open, history>>

(* _recover_previous_state: check the recovery copy, copy it again to a    *)
(* temporary file, and rename that into place.                             *)
ReadPrevious(p) ==
  /\ pc[p] = "recover"
  /\ \/ previous \notin State /\ Fail(p)
     \/ /\ previous \in State
        /\ data' = [data EXCEPT ![p] = previous]
        /\ Moves(p, "restore")
        /\ UNCHANGED <<files, lock, job, todo, loaded, open, why, history>>

CopyPrevious(p) ==
  /\ pc[p] = "restore"
  /\ open' = [open EXCEPT ![p] = previous]
  /\ Moves(p, "reinstate")
  /\ UNCHANGED <<files, lock, job, todo, loaded, data, why, history>>

Reinstate(p) ==
  /\ pc[p] = "reinstate"
  /\ path' = open[p]
  /\ Returns(p, data[p])
  /\ UNCHANGED <<previous, legacy>>

(* Mutant: the new state is written over the old one.                      *)
OverwriteInPlace(p) ==
  /\ pc[p] = "write"
  /\ path' = Torn
  /\ Moves(p, "replace")
  /\ UNCHANGED <<previous, legacy, lock, job, todo, locals, history>>

(* _write_state_to has its temporary file; what it replaces is copied to   *)
(* the recovery file first, which copy2 truncates.                         *)
StartCopy(p) ==
  /\ pc[p] = "write"
  /\ \/ /\ path = Absent
        /\ Moves(p, "replace")
        /\ UNCHANGED <<files, open>>
     \/ /\ path # Absent
        /\ previous' = Torn
        /\ open' = [open EXCEPT ![p] = path]
        /\ Moves(p, "copy")
        /\ UNCHANGED <<path, legacy>>
  /\ UNCHANGED <<lock, job, todo, loaded, data, why, history>>

(* Two copies at once, one of a migration, may leave a mixture.            *)
EndCopy(p) ==
  /\ pc[p] = "copy"
  /\ \/ previous' = open[p]
     \/ previous' = Torn /\ \E q \in Procs \ {p} : pc[q] = "copy"
  /\ Moves(p, "replace")
  /\ UNCHANGED <<path, legacy, lock, job, todo, locals, history>>

(* os.replace; a save then leaves the lock.                                *)
Replace(p) ==
  /\ pc[p] = "replace"
  /\ path' = data[p]
  /\ \/ /\ why[p] = "migrate"
        /\ Moves(p, "unlink")
        /\ UNCHANGED <<lock, todo, data>>
     \/ /\ why[p] = "commit"
        /\ Moves(p, "next")
        /\ lock' = NoProc
        /\ todo' = [todo EXCEPT ![p] = Tail(@)]
        /\ data' = [data EXCEPT ![p] = Empty]
  /\ UNCHANGED <<previous, legacy, job, loaded, open, why, history>>

(* The migrated file goes; someone else may have taken it first.           *)
Unlink(p) ==
  /\ pc[p] = "unlink"
  /\ \/ legacy = Absent /\ Fail(p)
     \/ /\ legacy # Absent
        /\ legacy' = Absent
        /\ Returns(p, data[p])
        /\ UNCHANGED <<path, previous>>

(* A kill, or an operation on a file that fails: the files stay as they    *)
(* are, and the lock goes with the process or in its finally.              *)
Crash(p) ==
  /\ pc[p] # "idle" /\ crashes + damages < MaxTrouble
  /\ crashes' = crashes + 1
  /\ Gone(p)
  /\ UNCHANGED <<files, upgraded, begun, damages>>

(* Someone else spoils the file: an editor, a newer release, a power cut.  *)
DamageFile ==
  /\ path \in State /\ crashes + damages < MaxTrouble
  /\ path' \in Damage
  /\ damages' = damages + 1
  /\ UNCHANGED <<previous, legacy, lock, pc, job, todo, locals, upgraded, begun, crashes>>

(* What a command does by itself once it has begun, the lock apart.        *)
Runs(p) ==
  \/ Load(p) \/ Finish(p) \/ ReadState(p) \/ FindLegacy(p) \/ ReadLegacy(p)
  \/ ReadPrevious(p) \/ CopyPrevious(p) \/ Reinstate(p) \/ StartCopy(p)
  \/ EndCopy(p) \/ Replace(p) \/ Unlink(p)

Next == DamageFile \/ \E p \in Procs : Begin(p) \/ Lock(p) \/ Runs(p) \/ Crash(p)

(* A command runs on, and a waiter that finds the lock free again and      *)
(* again gets it.                                                          *)
Fairness == \A p \in Procs : WF_vars(Runs(p)) /\ SF_vars(Lock(p))

Spec == Init /\ [][Next]_vars /\ Fairness

TypeOK ==
  /\ path \in File /\ previous \in File
  /\ legacy \in State \cup {Absent, Torn}
  /\ lock \in Procs \cup {NoProc}
  /\ pc \in [Procs -> Phases]
  /\ job \in [Procs -> Command]
  /\ todo \in [Procs -> Seq(Loads \cup Saves)]
  /\ loaded \in [Procs -> State] /\ data \in [Procs -> State]
  /\ open \in [Procs -> File]
  /\ why \in [Procs -> {"commit", "migrate"}]
  /\ upgraded \in BOOLEAN
  /\ begun \in Nat /\ crashes \in Nat /\ damages \in Nat

Saving(p) == pc[p] \in Reading \cup Writing /\ Head(todo[p]) \in Saves

(* The lock is held by the one command that is in a save, from its read to *)
(* its rename, and by none that has failed, died or finished.              *)
LockInv == \A p \in Procs : lock = p <=> Saving(p)

(* Who is where: a command at work has work left, only a save writes what  *)
(* it edited, only a migration takes the legacy file away once there is    *)
(* another, and what is copied was there.                                  *)
PhaseInv == \A p \in Procs :
  /\ pc[p] \in Reading \cup Writing => todo[p] # <<>>
  /\ pc[p] \in Writing /\ why[p] = "commit" => Head(todo[p]) \in Saves
  /\ pc[p] = "unlink" => why[p] = "migrate" /\ path # Absent
  /\ pc[p] = "restore" => previous # Absent
  /\ pc[p] \in {"copy", "reinstate"} => open[p] # Absent

(* Nothing this program does, crashes included, leaves a damaged file: a   *)
(* reader meets one only if someone else damaged it.                       *)
WholeInv == damages = 0 =>
  /\ path \notin Damage
  /\ \A p \in Procs : pc[p] \notin {"recover", "restore", "reinstate"}

(* With no older release's file to migrate and no damage, only saves       *)
(* write, and what a save is about to write is its edit of the state that  *)
(* is still in the file: nobody slipped in between its read and its rename. *)
Current == IF path \in State THEN path ELSE Empty
SaveInv == ~upgraded /\ damages = 0 =>
  /\ legacy = Absent
  /\ \A p \in Procs :
       /\ why[p] = "commit" /\ pc[p] # "read legacy"
       /\ pc[p] = "legacy" /\ Head(todo[p]) \in Saves => path = Absent
       /\ pc[p] \in Writing => data[p] = Edited(p, Current)

StateInv == TypeOK /\ LockInv /\ PhaseInv /\ WholeInv /\ SaveInv

(* _write_state_to: whatever commands run at once and wherever they are    *)
(* killed, the file is whole for every reader.                             *)
NeverTorn == damages = 0 => path \notin Damage

(* _read_state: the legacy file goes only after its successor is there, so *)
(* an upgrade interrupted anywhere still has one of the two.               *)
UpgradeIsKept == upgraded => path # Absent \/ legacy # Absent

(* save_server_fingerprint: the record of what was applied to a workload   *)
(* is changed by the next record for that workload and by nothing else,    *)
(* whatever other commands save meanwhile (no migration, no recovery).     *)
FingerprintsStay ==
  [][~upgraded /\ damages' = 0 /\ path \in State =>
       /\ path' \in State
       /\ \A s \in Servers : path'.fingerprints[s] # path.fingerprints[s] =>
            \E p \in Procs : /\ pc[p] = "replace" /\ pc'[p] # "replace"
                            /\ s \in DOMAIN job[p].fingerprints]_vars

(* set_enabled is documented as "enable/disable of a single server": a     *)
(* server's choice changes only by a command that names the server.        *)
EnabledStays ==
  [][~upgraded /\ damages' = 0 /\ path \in State =>
       /\ path' \in State
       /\ \A s \in Servers : path'.enabled[s] # path.enabled[s] =>
            \E p \in Procs : /\ pc[p] = "replace" /\ pc'[p] # "replace"
                            /\ s \in DOMAIN job[p].enabled]_vars

(* Every command ends: no failure, crash or wait leaves the lock taken.    *)
CommandsEnd == \A p \in Procs : pc[p] # "idle" ~> pc[p] = "idle"
================================================================================
