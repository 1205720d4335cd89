--------------------------- MODULE ServerStateProofs ---------------------------
(***************************************************************************)
(* Proofs about ServerState for any number of commands, servers and        *)
(* parameters: the lock excludes, no crash leaves a torn file, an upgrade  *)
(* keeps what it migrates, and a locked save loses no other's.             *)
(***************************************************************************)
EXTENDS ServerState, SequenceTheorems, TLAPS

(* Putting new entries over old ones gives a map of the same kind.         *)
LEMMA OverType ==
  ASSUME NEW R, NEW new \in Partial(Servers, R),
         NEW old \in [Servers -> R \cup {Unset}]
  PROVE  Over(new, old) \in [Servers -> R \cup {Unset}]
<1>1. PICK D \in SUBSET Servers : new \in [D -> R]
  BY DEF Partial
<1>2. \A s \in Servers : s \in DOMAIN new => new[s] \in R
  BY <1>1
<1>3. QED
  BY <1>2 DEF Over

(* An edit of a state is a state.                                          *)
LEMMA EditedType ==
  ASSUME TypeOK, NEW p \in Procs, NEW d \in State
  PROVE  Edited(p, d) \in State
<1>1. Over(job[p].fingerprints, d.fingerprints) \in [Servers -> Prints \cup {Unset}]
  BY OverType DEF TypeOK, Command, State
<1>2. loaded[p] \in State
  BY DEF TypeOK
<1>3. QED
  BY <1>1, <1>2 DEF Edited, State

(* What a load keeps is typed as what it loaded.                           *)
LEMMA KeepType ==
  ASSUME TypeOK, NEW p \in Procs, NEW d \in State, Keep(p, d)
  PROVE  loaded' \in [Procs -> State]
<1>1. /\ Over(job[p].enabled, d.enabled) \in [Servers -> Choice \cup {Unset}]
      /\ Over(job[p].params, d.params) \in [Servers -> Params \cup {Unset}]
  BY OverType DEF TypeOK, Command, State
<1>2. loaded[p] \in State
  BY DEF TypeOK
<1>3. /\ [loaded[p] EXCEPT !.enabled = Over(job[p].enabled, d.enabled)] \in State
      /\ [loaded[p] EXCEPT !.params = Over(job[p].params, d.params)] \in State
  BY <1>1, <1>2 DEF State
<1>4. QED
  BY <1>3 DEF Keep, TypeOK

(* The empty state is a state, and no command does nothing.                *)
LEMMA EmptyType == /\ Empty \in State
                   /\ NoCommand \in Command
<1>1. Empty \in State
  BY DEF Empty, State
<1>2. \A R : Nothing \in Partial(Servers, R)
  <2>1. \A R : Nothing \in [{} -> R]
    BY DEF Nothing
  <2>2. QED
    BY <2>1 DEF Partial
<1>3. QED
  BY <1>1, <1>2 DEF Command, NoCommand

(* A command that is gone leaves typed what it leaves.                     *)
LEMMA GoneType ==
  ASSUME TypeOK, NEW p \in Procs, Gone(p), UNCHANGED <<files, upgraded>>,
         begun' \in Nat, crashes' \in Nat, damages' \in Nat
  PROVE  TypeOK'
BY EmptyType DEF TypeOK, Gone, Moves, files, Phases, File

(* _read_state returns typed values.                                       *)
LEMMA ReturnsType ==
  ASSUME TypeOK, NEW p \in Procs, NEW d \in State, Returns(p, d), todo[p] # <<>>,
         path' \in File, previous' \in File, legacy' \in State \cup {Absent, Torn}
  PROVE  TypeOK'
<1>1. Tail(todo[p]) \in Seq(Loads \cup Saves)
  BY HeadTailProperties DEF TypeOK
<1>2. todo' \in [Procs -> Seq(Loads \cup Saves)]
  BY <1>1 DEF TypeOK, Returns
<1>3. data' \in [Procs -> State]
  BY EditedType DEF TypeOK, Returns
<1>4. loaded' \in [Procs -> State]
  BY KeepType DEF TypeOK, Returns
<1>5. QED
  BY <1>2, <1>3, <1>4 DEF TypeOK, Returns, Moves, history, Phases, Writing, File

(* Every step keeps the types.                                             *)
LEMMA TypeStep == TypeOK /\ PhaseInv /\ [Next]_vars => TypeOK'
<1> SUFFICES ASSUME TypeOK, PhaseInv, [Next]_vars PROVE TypeOK'
  OBVIOUS
<1>1. CASE UNCHANGED vars
  BY <1>1 DEF TypeOK, vars, files, locals, history
<1>2. CASE DamageFile
  BY <1>2 DEF DamageFile, TypeOK, files, locals, File
<1> SUFFICES ASSUME NEW p \in Procs, Begin(p) \/ Lock(p) \/ Runs(p) \/ Crash(p)
             PROVE  TypeOK'
  BY <1>1, <1>2 DEF Next
<1>3. CASE Begin(p)
  BY <1>3, CommandAssumption
     DEF Begin, TypeOK, files, locals, Moves, Phases, Command
<1>4. CASE Lock(p) \/ Load(p)
  BY <1>4 DEF Lock, Load, TypeOK, files, locals, history, Moves, Phases, Reading
<1>5. CASE Crash(p)
  BY <1>5, GoneType DEF Crash, TypeOK
<1>6. ASSUME Fail(p) PROVE TypeOK'
  BY <1>6, GoneType DEF Fail, TypeOK, history
<1>7. CASE Finish(p)
  BY <1>7, GoneType DEF Finish, TypeOK, history
<1>8. CASE ReadState(p)
  <2>1. CASE path \in State /\ Returns(p, path) /\ UNCHANGED files
    BY <1>8, <2>1, ReturnsType DEF ReadState, PhaseInv, Reading, TypeOK, files
  <2>2. QED
    BY <1>6, <1>8, <2>1
       DEF ReadState, TypeOK, files, locals, history, Moves, Phases, Reading
<1>9. CASE FindLegacy(p)
  <2>1. CASE Returns(p, Empty) /\ UNCHANGED files
    BY <1>9, <2>1, ReturnsType, EmptyType
       DEF FindLegacy, PhaseInv, Reading, TypeOK, files
  <2>2. QED
    BY <1>9, <2>1
       DEF FindLegacy, TypeOK, files, locals, history, Moves, Phases, Reading
<1>10. CASE ReadLegacy(p)
  BY <1>6, <1>10 DEF ReadLegacy, TypeOK, files, history, Moves, Phases, Writing
<1>11. CASE ReadPrevious(p) \/ CopyPrevious(p)
  BY <1>6, <1>11 DEF ReadPrevious, CopyPrevious, TypeOK, files, history, Moves,
                     Phases, Reading
<1>12. CASE Reinstate(p)
  BY <1>12, ReturnsType DEF Reinstate, PhaseInv, Reading, TypeOK
<1>13. CASE StartCopy(p) \/ EndCopy(p)
  BY <1>13 DEF StartCopy, EndCopy, TypeOK, files, locals, history, Moves, Phases,
               Writing, File, Damage
<1>14. CASE Replace(p)
  <2>1. todo[p] # <<>> /\ Tail(todo[p]) \in Seq(Loads \cup Saves)
    BY <1>14, HeadTailProperties DEF Replace, PhaseInv, Writing, TypeOK
  <2>2. todo' \in [Procs -> Seq(Loads \cup Saves)]
    BY <1>14, <2>1 DEF Replace, TypeOK
  <2>3. data' \in [Procs -> State] /\ path' \in File
    BY <1>14, EmptyType DEF Replace, TypeOK, File
  <2>4. QED
    BY <1>14, <2>2, <2>3 DEF Replace, TypeOK, history, Moves, Phases, Writing
<1>15. CASE Unlink(p)
  BY <1>6, <1>15, ReturnsType DEF Unlink, PhaseInv, Writing, TypeOK
<1>16. QED
  BY <1>3, <1>4, <1>5, <1>7, <1>8, <1>9, <1>10, <1>11, <1>12, <1>13, <1>14, <1>15
     DEF Runs

(* The lock changes hands only at the beginning and at the end of a save.  *)
LEMMA LockStep == TypeOK /\ LockInv /\ PhaseInv /\ [Next]_vars => LockInv'
<1> SUFFICES ASSUME TypeOK, LockInv, PhaseInv, [Next]_vars PROVE LockInv'
  OBVIOUS
<1> USE DEF LockInv, Saving
<1>1. CASE UNCHANGED vars \/ DamageFile
  BY <1>1 DEF DamageFile, vars, files, locals, history
<1> SUFFICES ASSUME NEW p \in Procs, Begin(p) \/ Lock(p) \/ Runs(p) \/ Crash(p)
             PROVE  LockInv'
  BY <1>1 DEF Next
<1> USE ProcAssumption DEF TypeOK, Moves, Reading, Writing
<1>2. CASE Begin(p) \/ Lock(p) \/ Load(p)
  BY <1>2 DEF Begin, Lock, Load, Loads, Saves
<1>3. ASSUME Gone(p) PROVE LockInv'
  BY <1>3 DEF Gone
<1>4. CASE Finish(p) \/ Crash(p)
  BY <1>3, <1>4 DEF Finish, Crash
<1>5. ASSUME NEW d, Returns(p, d), pc[p] \in Reading \cup Writing PROVE LockInv'
  BY <1>5 DEF Returns, Loads, Saves
<1>6. CASE ReadState(p) \/ FindLegacy(p) \/ ReadLegacy(p) \/ ReadPrevious(p)
           \/ CopyPrevious(p)
  BY <1>3, <1>5, <1>6 DEF ReadState, FindLegacy, ReadLegacy, ReadPrevious,
                          CopyPrevious, Fail
<1>7. CASE Reinstate(p) \/ Unlink(p)
  BY <1>3, <1>5, <1>7 DEF Reinstate, Unlink, Fail
<1>8. CASE StartCopy(p) \/ EndCopy(p)
  BY <1>8 DEF StartCopy, EndCopy
<1>9. CASE Replace(p)
  BY <1>9 DEF Replace, PhaseInv
<1>10. QED
  BY <1>2, <1>4, <1>6, <1>7, <1>8, <1>9 DEF Runs

(* Who is where survives every step.                                       *)
LEMMA PhaseStep == TypeOK /\ PhaseInv /\ [Next]_vars => PhaseInv'
<1> SUFFICES ASSUME TypeOK, PhaseInv, [Next]_vars PROVE PhaseInv'
  OBVIOUS
<1> USE FileAssumption DEF PhaseInv
<1>1. CASE UNCHANGED vars
  BY <1>1 DEF vars, files, locals, history
<1>2. CASE DamageFile
  BY <1>2 DEF DamageFile, locals, TypeOK
<1> SUFFICES ASSUME NEW p \in Procs, Begin(p) \/ Lock(p) \/ Runs(p) \/ Crash(p)
             PROVE  PhaseInv'
  BY <1>1, <1>2 DEF Next
<1> USE DEF TypeOK, Moves, Reading, Writing, files, locals
<1>3. CASE Begin(p) \/ Lock(p) \/ Load(p)
  BY <1>3 DEF Begin, Lock, Load
<1>4. ASSUME Gone(p), UNCHANGED files PROVE PhaseInv'
  BY <1>4 DEF Gone
<1>5. CASE Finish(p) \/ Crash(p)
  BY <1>4, <1>5 DEF Finish, Crash
<1>6. ASSUME NEW d, Returns(p, d), UNCHANGED previous,
             todo[p] # <<>>, path = Absent \/ path' # Absent
      PROVE  PhaseInv'
  BY <1>6 DEF Returns
<1>7. CASE ReadState(p) \/ FindLegacy(p)
  BY <1>4, <1>6, <1>7 DEF ReadState, FindLegacy, Fail
<1>8. CASE ReadLegacy(p) \/ ReadPrevious(p) \/ CopyPrevious(p)
  BY <1>4, <1>8 DEF ReadLegacy, ReadPrevious, CopyPrevious, Fail, Damage
<1>9. CASE Reinstate(p) \/ Unlink(p)
  BY <1>4, <1>6, <1>9 DEF Reinstate, Unlink, Fail
<1>10. CASE StartCopy(p) \/ EndCopy(p)
  BY <1>10 DEF StartCopy, EndCopy, Damage
<1>11. CASE Replace(p)
  BY <1>11 DEF Replace, Damage
<1>12. QED
  BY <1>3, <1>5, <1>7, <1>8, <1>9, <1>10, <1>11 DEF Runs

(* Nobody but someone else damages the file.                               *)
LEMMA WholeStep == TypeOK /\ WholeInv /\ [Next]_vars => WholeInv'
<1> SUFFICES ASSUME TypeOK, WholeInv, [Next]_vars PROVE WholeInv'
  OBVIOUS
<1> USE FileAssumption DEF WholeInv
<1>1. CASE UNCHANGED vars
  BY <1>1 DEF vars, files, locals, history
<1>2. CASE DamageFile
  BY <1>2 DEF DamageFile, TypeOK
<1> SUFFICES ASSUME NEW p \in Procs, Begin(p) \/ Lock(p) \/ Runs(p) \/ Crash(p)
             PROVE  WholeInv'
  BY <1>1, <1>2 DEF Next
<1> USE DEF TypeOK, Moves, Reading, Writing, files, locals, history
<1>3. CASE Begin(p) \/ Lock(p) \/ Load(p)
  BY <1>3 DEF Begin, Lock, Load
<1>4. ASSUME Gone(p), UNCHANGED <<files, damages>> PROVE WholeInv'
  BY <1>4 DEF Gone
<1>5. CASE Finish(p) \/ Crash(p)
  BY <1>4, <1>5 DEF Finish, Crash
<1>6. ASSUME NEW d, Returns(p, d), UNCHANGED path PROVE WholeInv'
  BY <1>6 DEF Returns
<1>7. CASE ReadState(p) \/ FindLegacy(p)
  BY <1>4, <1>6, <1>7 DEF ReadState, FindLegacy, Fail, Damage
<1>8. CASE ReadLegacy(p) \/ ReadPrevious(p) \/ CopyPrevious(p) \/ Reinstate(p)
  BY <1>4, <1>8 DEF ReadLegacy, ReadPrevious, CopyPrevious, Reinstate, Returns, Fail
<1>9. CASE StartCopy(p) \/ EndCopy(p)
  BY <1>9 DEF StartCopy, EndCopy
<1>10. CASE Replace(p)
  BY <1>10 DEF Replace, Damage
<1>11. CASE Unlink(p)
  BY <1>4, <1>6, <1>11 DEF Unlink, Fail
<1>12. QED
  BY <1>3, <1>5, <1>7, <1>8, <1>9, <1>10, <1>11 DEF Runs

(* What a save is about to write depends on nobody else's step.            *)
LEMMA EditedStays ==
  ASSUME NEW q, NEW d,
         todo'[q] = todo[q], loaded'[q] = loaded[q], job'[q] = job[q]
  PROVE  Edited(q, d)' = Edited(q, d')
BY DEF Edited

(* No step of a command changes what the history says of upgrades and      *)
(* damages.                                                                *)
LEMMA HistoryStays ==
  ASSUME NEW p \in Procs, Begin(p) \/ Lock(p) \/ Runs(p) \/ Crash(p)
  PROVE  UNCHANGED <<upgraded, damages>>
<1> USE DEF history
<1>1. CASE Begin(p) \/ Lock(p) \/ Crash(p)
  BY <1>1 DEF Begin, Lock, Crash
<1>2. CASE Load(p) \/ Finish(p) \/ Fail(p)
  BY <1>2 DEF Load, Finish, Fail
<1>3. ASSUME NEW d, Returns(p, d) PROVE UNCHANGED <<upgraded, damages>>
  BY <1>3 DEF Returns
<1>4. CASE ReadState(p) \/ FindLegacy(p) \/ ReadLegacy(p)
  BY <1>2, <1>3, <1>4 DEF ReadState, FindLegacy, ReadLegacy
<1>5. CASE ReadPrevious(p) \/ CopyPrevious(p) \/ Reinstate(p)
  BY <1>2, <1>3, <1>5 DEF ReadPrevious, CopyPrevious, Reinstate
<1>6. CASE StartCopy(p) \/ EndCopy(p) \/ Replace(p) \/ Unlink(p)
  BY <1>2, <1>3, <1>6 DEF StartCopy, EndCopy, Replace, Unlink
<1>7. QED
  BY <1>1, <1>2, <1>4, <1>5, <1>6 DEF Runs

(* A command changes the file only by renaming another into its place.     *)
LEMMA OnlyRenames ==
  ASSUME NEW p \in Procs, Begin(p) \/ Lock(p) \/ Runs(p) \/ Crash(p), path' # path
  PROVE  Replace(p) \/ Reinstate(p)
<1> USE DEF files
<1>1. CASE Begin(p) \/ Lock(p) \/ Crash(p)
  BY <1>1 DEF Begin, Lock, Crash
<1>2. CASE Load(p) \/ Finish(p) \/ Fail(p)
  BY <1>2 DEF Load, Finish, Fail
<1>3. CASE ReadState(p) \/ FindLegacy(p) \/ ReadLegacy(p)
  BY <1>2, <1>3 DEF ReadState, FindLegacy, ReadLegacy
<1>4. CASE ReadPrevious(p) \/ CopyPrevious(p)
  BY <1>2, <1>4 DEF ReadPrevious, CopyPrevious
<1>5. CASE StartCopy(p) \/ EndCopy(p) \/ Unlink(p)
  BY <1>2, <1>5 DEF StartCopy, EndCopy, Unlink
<1>6. QED
  BY <1>1, <1>2, <1>3, <1>4, <1>5 DEF Runs

(* Only the holder of the lock writes, so nobody slips in.                 *)
LEMMA SaveStep ==
  TypeOK /\ LockInv /\ PhaseInv /\ WholeInv /\ SaveInv /\ [Next]_vars => SaveInv'
<1> SUFFICES ASSUME TypeOK, LockInv, PhaseInv, WholeInv, SaveInv, [Next]_vars,
                    ~upgraded', damages' = 0
             PROVE  /\ legacy' = Absent
                    /\ \A q \in Procs :
                         /\ why'[q] = "commit" /\ pc'[q] # "read legacy"
                         /\ pc'[q] = "legacy" /\ Head(todo'[q]) \in Saves
                              => path' = Absent
                         /\ pc'[q] \in Writing => data'[q] = Edited(q, Current)'
  BY DEF SaveInv
<1>1. CASE UNCHANGED vars
  BY <1>1 DEF SaveInv, vars, files, locals, history, Edited, Current
<1>2. ~upgraded /\ damages = 0
  <2>1. CASE UNCHANGED vars \/ DamageFile
    BY <2>1 DEF vars, history, DamageFile, TypeOK
  <2>2. CASE \E p \in Procs : Begin(p) \/ Lock(p) \/ Runs(p) \/ Crash(p)
    BY <2>2, HistoryStays
  <2>3. QED
    BY <2>1, <2>2 DEF Next
<1>3. ~DamageFile
  BY <1>2 DEF DamageFile
<1> SUFFICES ASSUME NEW p \in Procs, Begin(p) \/ Lock(p) \/ Runs(p) \/ Crash(p)
             PROVE  /\ legacy' = Absent
                    /\ \A q \in Procs :
                         /\ why'[q] = "commit" /\ pc'[q] # "read legacy"
                         /\ pc'[q] = "legacy" /\ Head(todo'[q]) \in Saves
                              => path' = Absent
                         /\ pc'[q] \in Writing => data'[q] = Edited(q, Current)'
  BY <1>1, <1>3 DEF Next
<1>4. /\ legacy = Absent
      /\ \A q \in Procs :
           /\ why[q] = "commit" /\ pc[q] # "read legacy"
           /\ pc[q] = "legacy" /\ Head(todo[q]) \in Saves => path = Absent
           /\ pc[q] \in Writing => data[q] = Edited(q, Current)
  BY <1>2 DEF SaveInv
<1>5. \A q \in Procs : pc[q] \notin {"recover", "restore", "reinstate", "unlink"}
  BY <1>2, <1>4 DEF WholeInv, PhaseInv
<1>6. \A q \in Procs \ {p} :
        /\ pc'[q] = pc[q] /\ todo'[q] = todo[q] /\ loaded'[q] = loaded[q]
        /\ job'[q] = job[q] /\ data'[q] = data[q] /\ why'[q] = why[q]
  BY DEF TypeOK, locals, Begin, Lock, Crash, Gone, Moves, Runs, Load, Finish, ReadState,
         FindLegacy, ReadLegacy, ReadPrevious, CopyPrevious, Reinstate, StartCopy,
         EndCopy, Replace, Unlink, Fail, Returns, Keep
<1>7. legacy' = Absent
  BY <1>4, <1>5 DEF files, Begin, Lock, Crash, Runs, Load, Finish, ReadState, FindLegacy,
         ReadLegacy, ReadPrevious, CopyPrevious, Reinstate, StartCopy, EndCopy,
         Replace, Unlink, Fail
<1>8. CASE path' = path
  <2>1. Current' = Current
    BY <1>8 DEF Current, Empty
  <2>2. \A q \in Procs \ {p} : Edited(q, Current)' = Edited(q, Current)
    BY <1>6, <2>1, EditedStays
  <2>3. ASSUME Gone(p) PROVE why'[p] = "commit" /\ pc'[p] = "idle"
    BY <2>3 DEF Gone, Moves, TypeOK
  <2>4. ASSUME NEW d, Returns(p, d), pc[p] \in Reading, d = Current
        PROVE  /\ why'[p] = "commit"
               /\ pc'[p] \in {"next", "write"}
               /\ pc'[p] = "write" => data'[p] = Edited(p, Current)'
    <3>1. /\ why'[p] = "commit" /\ job' = job
          /\ \/ pc'[p] = "next"
             \/ /\ pc'[p] = "write" /\ data'[p] = Edited(p, Current)
                /\ UNCHANGED <<todo, loaded>>
      BY <2>4 DEF Returns, Moves, TypeOK
    <3>2. UNCHANGED <<job, todo, loaded>> =>
            Edited(p, Current)' = Edited(p, Current)
      BY <2>1, EditedStays
    <3>3. QED
      BY <3>1, <3>2
  <2>5. /\ why'[p] = "commit" /\ pc'[p] # "read legacy"
        /\ pc'[p] = "legacy" /\ Head(todo'[p]) \in Saves => path' = Absent
        /\ pc'[p] \in Writing => data'[p] = Edited(p, Current)'
    <3>1. CASE Begin(p) \/ Lock(p) \/ Load(p)
      BY <1>4, <3>1 DEF Begin, Lock, Load, Moves, TypeOK, locals, Writing
    <3>2. CASE Finish(p) \/ Crash(p) \/ Fail(p)
      BY <2>3, <3>2 DEF Finish, Crash, Fail, Writing
    <3>3. CASE ReadState(p)
      <4>1. CASE path \in State /\ Returns(p, path)
        BY <2>4, <3>3, <4>1 DEF Current, ReadState, Reading, Writing
      <4>2. QED
        BY <1>2, <1>4, <1>8, <3>2, <3>3, <4>1
           DEF ReadState, WholeInv, Damage, Moves, TypeOK, locals, Writing
    <3>4. CASE FindLegacy(p)
      <4>1. Returns(p, Empty)
        BY <1>4, <3>4 DEF FindLegacy
      <4>2. CASE path = Absent
        BY <2>4, <3>4, <4>1, <4>2, FileAssumption
           DEF Current, FindLegacy, Reading, Writing
      <4>3. CASE path # Absent
        BY <1>4, <3>4, <4>1, <4>3 DEF FindLegacy, Returns, Moves, TypeOK, Writing
      <4>4. QED
        BY <4>2, <4>3
    <3>5. CASE StartCopy(p) \/ EndCopy(p)
      <4>1. Edited(p, Current)' = Edited(p, Current)
        BY <2>1, <3>5, EditedStays DEF StartCopy, EndCopy, locals
      <4>2. QED
        BY <1>4, <3>5, <4>1 DEF StartCopy, EndCopy, Moves, TypeOK, locals, Writing
    <3>6. CASE Replace(p)
      BY <1>4, <3>6 DEF Replace, Moves, TypeOK, Writing
    <3>7. QED
      BY <1>4, <1>5, <3>1, <3>2, <3>3, <3>4, <3>5, <3>6
         DEF Runs, ReadLegacy, ReadPrevious, CopyPrevious, Reinstate, Unlink
  <2>6. QED
    BY <1>4, <1>6, <1>7, <1>8, <2>2, <2>5
<1>9. CASE path' # path
  <2>1. Replace(p)
    BY <1>5, <1>9, OnlyRenames DEF Reinstate
  <2>2. lock = p
    BY <1>4, <2>1 DEF Replace, LockInv, Saving, PhaseInv, Writing
  <2>3. \A q \in Procs \ {p} :
          /\ pc[q] \notin Writing
          /\ ~(pc[q] = "legacy" /\ Head(todo[q]) \in Saves)
    BY <1>4, <2>2 DEF LockInv, Saving, PhaseInv, Reading
  <2>4. pc'[p] = "next" /\ why'[p] = "commit"
    BY <1>4, <2>1 DEF Replace, Moves, TypeOK
  <2>5. QED
    BY <1>4, <1>6, <1>7, <2>3, <2>4 DEF Writing
<1>10. QED
  BY <1>8, <1>9

(* The program starts with its lock free and nobody at work.               *)
LEMMA StateInit == Init => StateInv /\ UpgradeIsKept
<1> SUFFICES ASSUME Init PROVE StateInv /\ UpgradeIsKept
  OBVIOUS
<1> USE DEF Init, Reading, Writing
<1>1. TypeOK
  BY EmptyType, StoredAssumption DEF TypeOK, File, Damage, Phases
<1>2. LockInv /\ PhaseInv
  BY ProcAssumption DEF LockInv, PhaseInv, Saving
<1>3. WholeInv /\ SaveInv
  BY FileAssumption, StoredAssumption DEF WholeInv, SaveInv, Damage
<1>4. UpgradeIsKept
  BY DEF UpgradeIsKept
<1>5. QED
  BY <1>1, <1>2, <1>3, <1>4 DEF StateInv

(* Every step keeps the invariant, part by part.                           *)
LEMMA StateStep == StateInv /\ [Next]_vars => StateInv'
BY TypeStep, LockStep, PhaseStep, WholeStep, SaveStep DEF StateInv

(* The lock excludes, and what is written under it is the edit of what is  *)
(* still in the file.                                                      *)
THEOREM StateInvariant == Spec => []StateInv
<1>1. Init => StateInv
  BY StateInit
<1>2. QED
  BY <1>1, StateStep, PTL DEF Spec

(* Wherever commands are killed, the file is whole.                        *)
THEOREM StateIsNeverTorn == Spec => []NeverTorn
<1>1. StateInv => NeverTorn
  BY DEF StateInv, WholeInv, NeverTorn
<1>2. QED
  BY <1>1, StateInvariant, PTL

(* What an older release left is never without a successor.                *)
LEMMA UpgradeStep ==
  StateInv /\ UpgradeIsKept /\ [Next]_vars => UpgradeIsKept'
<1> SUFFICES ASSUME StateInv, UpgradeIsKept, [Next]_vars PROVE UpgradeIsKept'
  OBVIOUS
<1> USE FileAssumption DEF UpgradeIsKept, StateInv, TypeOK, PhaseInv
<1>1. CASE UNCHANGED vars \/ DamageFile
  BY <1>1 DEF vars, files, history, DamageFile
<1>2. CASE \E p \in Procs : Begin(p) \/ Lock(p) \/ Runs(p) \/ Crash(p)
  <2>1. PICK p \in Procs : Begin(p) \/ Lock(p) \/ Runs(p) \/ Crash(p)
    BY <1>2
  <2>2. CASE Reinstate(p) \/ Replace(p) \/ Unlink(p)
    BY <2>2 DEF Reinstate, Replace, Unlink, Returns, Fail, files, history
  <2>3. QED
    BY <2>1, <2>2 DEF files, history, Begin, Lock, Crash, Runs, Load, Finish, ReadState,
           FindLegacy, ReadLegacy, ReadPrevious, CopyPrevious, StartCopy, EndCopy,
           Fail, Returns
<1>3. QED
  BY <1>1, <1>2 DEF Next

(* An upgrade interrupted anywhere still has the file or its successor.    *)
THEOREM UpgradeKeeps == Spec => []UpgradeIsKept
<1>1. Init => StateInv /\ UpgradeIsKept
  BY StateInit
<1>2. StateInv /\ UpgradeIsKept /\ [Next]_vars => (StateInv /\ UpgradeIsKept)'
  BY StateStep, UpgradeStep
<1>3. QED
  BY <1>1, <1>2, PTL DEF Spec

(* Only a save of a fingerprint changes fingerprints, and only those it    *)
(* was asked to.                                                           *)
LEMMA EditedFingerprints ==
  ASSUME TypeOK, NEW p \in Procs, NEW d \in State, NEW s \in Servers,
         Edited(p, d).fingerprints[s] # d.fingerprints[s]
  PROVE  s \in DOMAIN job[p].fingerprints
<1>1. loaded[p] \in State
  BY DEF TypeOK
<1>2. QED
  BY <1>1 DEF Edited, Over, State

(* No locked save of a fingerprint is lost, whatever is saved meanwhile.   *)
THEOREM FingerprintsAreKept == Spec => FingerprintsStay
<1> DEFINE Stay ==
      ~upgraded /\ damages' = 0 /\ path \in State =>
        /\ path' \in State
        /\ \A s \in Servers : path'.fingerprints[s] # path.fingerprints[s] =>
             \E p \in Procs : /\ pc[p] = "replace" /\ pc'[p] # "replace"
                             /\ s \in DOMAIN job[p].fingerprints
<1>1. StateInv /\ [Next]_vars => [Stay]_vars
  <2> SUFFICES ASSUME StateInv, Next, ~upgraded, damages' = 0, path \in State,
                      path' # path
               PROVE  Stay
    BY DEF StateInv
  <2> USE DEF StateInv
  <2>1. damages = 0
    <3>1. CASE DamageFile
      BY <3>1 DEF DamageFile, TypeOK
    <3>2. CASE ~DamageFile
      BY <3>2, HistoryStays DEF Next
    <3>3. QED
      BY <3>1, <3>2
  <2>2. \A q \in Procs : pc[q] # "reinstate" /\ why[q] = "commit"
    BY <2>1 DEF WholeInv, SaveInv
  <2>3. PICK p \in Procs : Replace(p)
    <3>1. ~DamageFile
      BY <2>1 DEF DamageFile
    <3>2. QED
      BY <2>2, <3>1, OnlyRenames DEF Next, Reinstate
  <2>4. path' = Edited(p, path)
    BY <2>1, <2>3 DEF Replace, SaveInv, Writing, Current
  <2>5. pc[p] = "replace" /\ pc'[p] # "replace" /\ path' \in State
    BY <2>3 DEF Replace, Moves, TypeOK
  <2>6. QED
    BY <2>4, <2>5, EditedFingerprints
<1>2. QED
  BY <1>1, StateInvariant, PTL DEF Spec, FingerprintsStay
================================================================================
