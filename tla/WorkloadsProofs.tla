--------------------------- MODULE WorkloadsProofs ---------------------------
(***************************************************************************)
(* What a recorded fingerprint says of the workload that is there, for any *)
(* servers, any changes of their inputs at any time and any failures and   *)
(* kills.  The argument is per thread: between its comparison and its save *)
(* either nothing happens to the spec, or the server is in doubt until its *)
(* workload is created anew.                                               *)
(***************************************************************************)
EXTENDS Workloads, TLAPS

USE WorkloadAssumption

LEMMA WorkloadsInitial == Init => WorkloadsInv
BY DEF Init, WorkloadsInv, WorkloadsTypeOK, ThreadsKnow, ThreadsAtRest, MountIsFile,
       RecordedIsBaked, States, Steps, Missing, AtRest, Nobody, Ours

(* An edit under a thread that has compared or used the spec leaves doubt. *)
LEMMA EditStep == ASSUME WorkloadsInv, NEW s \in Servers, Edit(s) PROVE WorkloadsInv'
<1> USE DEF WorkloadsInv, WorkloadsTypeOK, ThreadsKnow, ThreadsAtRest, MountIsFile,
            RecordedIsBaked, States, Steps, AtRest, Ours
<1>1. /\ UNCHANGED <<enabled, ca, kubefile, status, baked, mounted, recorded, consumed, pc, want,
                     inGroup, allNames, thread, startLock, retries, stopping, polled>>
      /\ clean' = (clean /\ pc = "idle") /\ healthy' = healthy \ {s}
  BY DEF Edit, Changes, Others, toolhive
<1>2. PICK v \in 1..MaxSpec : spec' = [spec EXCEPT ![s] = v]
  BY DEF Edit
<1>3. doubt' = (IF thread[s] \in {"restart", "record"} THEN doubt \union {s} ELSE doubt)
  BY DEF Edit
<1>4. WorkloadsTypeOK'  BY <1>1, <1>2, <1>3
<1>5. ThreadsKnow'  BY <1>1, <1>2, <1>3
<1>6. ThreadsAtRest' /\ MountIsFile' /\ RecordedIsBaked'  BY <1>1, <1>3
<1> QED  BY <1>4, <1>5, <1>6

(* The operator and ToolHive otherwise.                                    *)
LEMMA WorldStep ==
  ASSUME WorkloadsInv, Rotate \/ \E s \in Servers : Toggle(s) \/ ComesUp(s) \/ Breaks(s)
  PROVE  WorkloadsInv'
<1> USE DEF WorkloadsInv, WorkloadsTypeOK, ThreadsKnow, ThreadsAtRest, MountIsFile,
            RecordedIsBaked, States, Steps, AtRest, Ours, toolhive, history, command, declared
<1>1. CASE Rotate  BY <1>1 DEF Rotate, Changes, Others
<1>2. ASSUME NEW s \in Servers, Toggle(s) PROVE WorkloadsInv'  BY <1>2 DEF Toggle, Changes, Others
<1>3. ASSUME NEW s \in Servers, ComesUp(s) PROVE WorkloadsInv'  BY <1>3 DEF ComesUp
<1>4. ASSUME NEW s \in Servers, Breaks(s) PROVE WorkloadsInv'  BY <1>4 DEF Breaks
<1> QED  BY <1>1, <1>2, <1>3, <1>4

LEMMA StartStep == ASSUME WorkloadsInv, Start PROVE WorkloadsInv'
<1> USE DEF WorkloadsInv, WorkloadsTypeOK, ThreadsKnow, ThreadsAtRest, MountIsFile,
            RecordedIsBaked, States, Steps, AtRest, Ours, toolhive, history, declared
<1>1. inGroup' \in [Servers -> States] /\ allNames' \subseteq Servers /\ clean' \in BOOLEAN
  BY DEF Start, Listed, Named, Missing
<1>2. /\ UNCHANGED <<declared, kubefile, toolhive, recorded, history>> /\ want' = enabled
      /\ thread' = [s \in Servers |-> IF s \in enabled THEN "todo" ELSE "done"]
      /\ retries' = Nobody /\ stopping' = {} /\ polled' = {} /\ startLock' = None
      /\ pc' = (IF enabled = {} THEN "idle" ELSE "apply") /\ healthy' \subseteq Servers
  BY DEF Start
<1>3. thread = AtRest
  BY DEF Start
<1>4. WorkloadsTypeOK'  BY <1>1, <1>2 DEF Nobody
<1>5. ThreadsKnow' /\ ThreadsAtRest'  BY <1>2
<1>6. MountIsFile' /\ RecordedIsBaked'  BY <1>2, <1>3
<1> QED  BY <1>4, <1>5, <1>6

(* The steps of one thread.                                                *)
LEMMA RemoveStep == ASSUME WorkloadsInv, NEW s \in Servers, Remove(s) PROVE WorkloadsInv'
<1> USE DEF WorkloadsInv, WorkloadsTypeOK, ThreadsKnow, ThreadsAtRest, MountIsFile,
            RecordedIsBaked, States, Steps, AtRest, Ours
<1>1. /\ pc = "apply" /\ thread[s] = "rm" /\ thread' = [thread EXCEPT ![s] = "run"]
      /\ UNCHANGED <<enabled, spec, ca, kubefile, baked, mounted, recorded, doubt, consumed, want,
                     startLock, pc, inGroup, allNames, retries, stopping, polled, healthy>>
  BY DEF Remove, InApply, Goes, declared, history
<1>2. /\ status' \in [Servers -> States] /\ clean' \in BOOLEAN
      /\ \A t \in Servers : Ours(t)' => Ours(t)
  <2>1. CASE status' = [status EXCEPT ![s] = "absent"] /\ UNCHANGED clean  BY <2>1
  <2>2. CASE UNCHANGED status /\ clean' = FALSE  BY <2>2
  <2> QED  BY <2>1, <2>2 DEF Remove
<1>3. WorkloadsTypeOK'  BY <1>1, <1>2
<1>4. ThreadsKnow' /\ ThreadsAtRest' /\ MountIsFile' /\ RecordedIsBaked'  BY <1>1, <1>2
<1> QED  BY <1>3, <1>4

(* A workload that is created has the spec and the kubeconfig of that      *)
(* moment; the kubeconfigs it writes over are consumed.                    *)
LEMMA RunStep == ASSUME WorkloadsInv, NEW s \in Servers, Run(s) PROVE WorkloadsInv'
<1> USE DEF WorkloadsInv, WorkloadsTypeOK, ThreadsKnow, ThreadsAtRest, MountIsFile,
            RecordedIsBaked, States, Steps, AtRest, Ours
<1>1. /\ startLock = s /\ thread[s] = "run" /\ startLock' = None /\ pc = "apply"
      /\ kubefile' = (IF s \in Kind THEN ca ELSE kubefile)
      /\ UNCHANGED <<enabled, spec, ca, recorded, pc, want, inGroup, allNames, retries, stopping,
                     polled, healthy>>
  BY DEF Run, InApply, declared
<1>2. ASSUME NEW state \in {"starting", "error"}, Creates(s, state),
             thread' = [thread EXCEPT ![s] = IF state = "error" THEN "done" ELSE "record"],
             doubt' = IF state = "error" THEN doubt \union {s} ELSE doubt \ {s},
             clean' \in BOOLEAN
      PROVE  WorkloadsInv'
  <2>1. /\ status' = [status EXCEPT ![s] = state] /\ baked' = [baked EXCEPT ![s] = spec[s]]
        /\ mounted' = [mounted EXCEPT ![s] = ca] /\ consumed' = (consumed \union Overtaken(s)) \ {s}
    BY <1>2 DEF Creates
  <2>2. WorkloadsTypeOK'  BY <1>1, <1>2, <2>1 DEF Overtaken
  <2>3. ThreadsKnow'  BY <1>1, <1>2, <2>1
  <2>4. ThreadsAtRest'  BY <1>1, <1>2
  <2>5. MountIsFile'  BY <1>1, <2>1 DEF Overtaken
  <2>6. RecordedIsBaked'  BY <1>1, <1>2, <2>1
  <2> QED  BY <2>2, <2>3, <2>4, <2>5, <2>6
<1>3. CASE /\ thread' = [thread EXCEPT ![s] = "done"] /\ clean' = FALSE
           /\ consumed' = consumed \union Overtaken(s) /\ UNCHANGED <<toolhive, doubt>>
  <2> USE DEF toolhive
  <2>1. WorkloadsTypeOK'  BY <1>1, <1>3 DEF Overtaken
  <2>2. ThreadsKnow' /\ ThreadsAtRest'  BY <1>1, <1>3
  <2>3. MountIsFile'  BY <1>1, <1>3 DEF Overtaken
  <2>4. RecordedIsBaked'  BY <1>1, <1>3
  <2> QED  BY <2>1, <2>2, <2>3, <2>4
<1>4. CASE Creates(s, "starting") /\ doubt' = doubt \ {s} /\ Goes(s, "record") /\ UNCHANGED clean
  BY <1>2, <1>4 DEF Goes
<1>5. CASE Creates(s, "error") /\ doubt' = doubt \union {s} /\ Goes(s, "done") /\ clean' = FALSE
  BY <1>2, <1>5 DEF Goes
<1> QED  BY <1>3, <1>4, <1>5 DEF Run, Goes

(* A thread restarts a workload, and then records today's spec, only       *)
(* because it found the recorded one unchanged, or leaves doubt.           *)
LEMMA RestartStep == ASSUME WorkloadsInv, NEW s \in Servers, Restart(s) PROVE WorkloadsInv'
<1> USE DEF WorkloadsInv, WorkloadsTypeOK, ThreadsKnow, ThreadsAtRest, MountIsFile,
            RecordedIsBaked, States, Steps, AtRest, Ours
<1>1. /\ startLock = s /\ thread[s] = "restart" /\ startLock' = None /\ pc = "apply"
      /\ UNCHANGED <<enabled, spec, ca, kubefile, baked, mounted, recorded, consumed, pc, want,
                     inGroup, allNames, retries, stopping, polled, healthy>>
  BY DEF Restart, InApply, declared
<1>2. CASE /\ Ours(s) /\ status' = [status EXCEPT ![s] = "starting"]
           /\ doubt' = IF s \in allNames THEN doubt ELSE doubt \union {s}
           /\ thread' = [thread EXCEPT ![s] = "record"] /\ UNCHANGED clean
  <2>1. WorkloadsTypeOK'  BY <1>1, <1>2
  <2>2. s \notin doubt' => baked[s] = spec[s]  BY <1>1, <1>2
  <2>3. ThreadsKnow'  BY <1>1, <1>2, <2>2
  <2>4. ThreadsAtRest' /\ MountIsFile'  BY <1>1, <1>2
  <2>5. RecordedIsBaked'  BY <1>1, <1>2
  <2> QED  BY <2>1, <2>3, <2>4, <2>5
<1>3. CASE thread' = [thread EXCEPT ![s] = "done"] /\ clean' = FALSE /\ UNCHANGED <<status, doubt>>
  <2>1. WorkloadsTypeOK'  BY <1>1, <1>3
  <2>2. ThreadsKnow' /\ ThreadsAtRest' /\ MountIsFile'  BY <1>1, <1>3
  <2>3. RecordedIsBaked'  BY <1>1, <1>3
  <2> QED  BY <2>1, <2>2, <2>3
<1> QED  BY <1>2, <1>3 DEF Restart, Goes

(* A thread that dies before its save leaves doubt.                        *)
LEMMA RaisesStep == ASSUME WorkloadsInv, NEW s \in Servers, Raises(s) PROVE WorkloadsInv'
<1> USE DEF WorkloadsInv, WorkloadsTypeOK, ThreadsKnow, ThreadsAtRest, MountIsFile,
            RecordedIsBaked, States, Steps, AtRest, Ours
<1>1. /\ thread[s] \in {"todo", "record", "run"} /\ pc = "apply" /\ clean' = FALSE
      /\ thread' = [thread EXCEPT ![s] = "raised"]
      /\ UNCHANGED <<enabled, spec, ca, kubefile, status, baked, mounted, recorded, consumed, pc,
                     want, inGroup, allNames, retries, stopping, polled, healthy>>
  BY DEF Raises, InApply, Goes, declared, toolhive
<1>2. doubt' = IF thread[s] = "record" THEN doubt \union {s} ELSE doubt
  BY DEF Raises
<1>3. startLock' = None \/ (thread[s] # "run" /\ startLock' = startLock)
  BY DEF Raises
<1>4. WorkloadsTypeOK'  BY <1>1, <1>2, <1>3
<1>5. ThreadsKnow' /\ ThreadsAtRest' /\ MountIsFile' /\ RecordedIsBaked'  BY <1>1, <1>2
<1> QED  BY <1>4, <1>5

LEMMA ThreadStep ==
  ASSUME WorkloadsInv, NEW s \in Servers,
         \/ Decide(s) \/ Remove(s) \/ Locks(s) \/ Run(s) \/ Restart(s)
         \/ Record(s) \/ Raises(s)
  PROVE  WorkloadsInv'
<1> USE DEF WorkloadsInv, WorkloadsTypeOK, ThreadsKnow, ThreadsAtRest, MountIsFile,
            RecordedIsBaked, States, Steps, AtRest, Ours, toolhive, history, declared, InApply, Goes
<1>1. CASE Decide(s)
  <2>1. /\ pc = "apply" /\ thread[s] = "todo" /\ clean' \in BOOLEAN
        /\ UNCHANGED <<declared, kubefile, toolhive, recorded, history, pc, want, inGroup, allNames,
                       retries, stopping, polled, healthy, startLock>>
    BY <1>1 DEF Decide
  <2>2. PICK stale \in BOOLEAN : thread' = [thread EXCEPT ![s] = Plan(s, stale)]
    BY <1>1 DEF Decide, Stale
  <2>3. /\ Plan(s, stale) \in {"done", "rm", "restart", "run"}
        /\ Plan(s, stale) = "restart" /\ s \in allNames => recorded[s] = spec[s]
    BY DEF Plan, SpecChanged
  <2>4. WorkloadsTypeOK'  BY <2>1, <2>2, <2>3
  <2>5. ThreadsKnow' /\ ThreadsAtRest'  BY <2>1, <2>2, <2>3
  <2>6. MountIsFile' /\ RecordedIsBaked'  BY <2>1, <2>2, <2>3
  <2> QED  BY <2>4, <2>5, <2>6
<1>2. CASE Remove(s)  BY <1>2, RemoveStep
<1>3. CASE Locks(s)  BY <1>3 DEF Locks
<1>4. CASE Run(s)  BY <1>4, RunStep
<1>5. CASE Restart(s)  BY <1>5, RestartStep
<1>6. CASE Record(s)  BY <1>6 DEF Record
<1>7. CASE Raises(s)  BY <1>7, RaisesStep
<1> QED  BY <1>1, <1>2, <1>3, <1>4, <1>5, <1>6, <1>7

(* The recovery, the end of a command, and the stop.                       *)
LEMMA CommandStep ==
  ASSUME WorkloadsInv, Exits \/ Applied \/ Poll \/ GiveUp \/ Stop \/ Kill
  PROVE  WorkloadsInv'
<1> USE DEF WorkloadsInv, WorkloadsTypeOK, ThreadsKnow, ThreadsAtRest, MountIsFile,
            RecordedIsBaked, States, Steps, AtRest, Nobody, Missing, Ours, toolhive, history,
            declared
<1>1. CASE Applied  BY <1>1 DEF Applied
<1>2. ASSUME Return,
             UNCHANGED <<enabled, spec, ca, kubefile, status, baked, mounted, recorded, consumed>>,
             clean' \in BOOLEAN, doubt \subseteq doubt', doubt' \subseteq Servers,
             \A s \in Servers : thread[s] = "record" => s \in doubt'
      PROVE  WorkloadsInv'
  <2>1. /\ pc' = "idle" /\ want' = {} /\ inGroup' = Missing /\ allNames' = {}
        /\ thread' = AtRest /\ startLock' = None
        /\ retries' = Nobody /\ stopping' = {} /\ polled' = {} /\ healthy' = {}
    BY <1>2 DEF Return
  <2>2. /\ inGroup' \in [Servers -> States] /\ thread' \in [Servers -> Steps]
        /\ retries' \in [Servers -> 0..MaxErrorRetries]
    BY <2>1
  <2>3. WorkloadsTypeOK'  BY <1>2, <2>1, <2>2
  <2>4. ThreadsKnow' /\ ThreadsAtRest' /\ MountIsFile'  BY <1>2, <2>1
  <2>5. RecordedIsBaked'  BY <1>2, <2>1
  <2> QED  BY <2>3, <2>4, <2>5
<1>3. CASE Poll
  <2>1. CASE Return  BY <1>2, <1>3, <2>1 DEF Poll
  <2>2. CASE ~Return
    <3>1. /\ inGroup' = Listed /\ polled' \subseteq Servers
          /\ UNCHANGED <<declared, kubefile, toolhive, recorded, history, clean, pc, want, allNames,
                         thread, startLock, retries, stopping, healthy>>
      BY <1>3, <2>2 DEF Poll
    <3>2. WorkloadsTypeOK'  BY <3>1 DEF Listed
    <3> QED  BY <3>1, <3>2
  <2> QED  BY <2>1, <2>2
<1>4. CASE GiveUp  BY <1>2, <1>4 DEF GiveUp
<1>5. CASE Exits  BY <1>2, <1>5 DEF Exits
<1>6. CASE Kill  BY <1>2, <1>6 DEF Kill
<1>7. CASE Stop  BY <1>7 DEF Stop, command
<1> QED  BY <1>1, <1>3, <1>4, <1>5, <1>6, <1>7

LEMMA RecoverStep ==
  ASSUME WorkloadsInv, NEW s \in Servers, Recover(s)
  PROVE  WorkloadsInv'
<1> USE DEF WorkloadsInv, WorkloadsTypeOK, ThreadsKnow, ThreadsAtRest, MountIsFile,
            RecordedIsBaked, States, Steps, AtRest, Ours, declared, history, Waiting
<1>1. /\ UNCHANGED <<declared, kubefile, baked, mounted, recorded, history, want, allNames, thread,
                     startLock, healthy, pc, inGroup>>
      /\ pc = "wait"
  BY DEF Recover
<1>2. status' \in [Servers -> States]
  BY DEF Recover, Becomes
<1>3. \A t \in Servers : Ours(t)' => Ours(t)
  BY DEF Recover, Becomes
<1>4. retries' \in [Servers -> 0..MaxErrorRetries]
  <2>1. CASE ToStop(s) /\ retries' = [retries EXCEPT ![s] = @ + 1]
    BY <2>1 DEF ToStop
  <2> QED  BY <2>1 DEF Recover
<1>5. /\ stopping' \subseteq Servers /\ polled' \subseteq Servers
  BY DEF Recover
<1>6. clean' \in BOOLEAN
  BY DEF Recover, Becomes
<1> QED  BY <1>1, <1>2, <1>3, <1>4, <1>5, <1>6

LEMMA WorkloadsStep == ASSUME WorkloadsInv, [Next]_vars PROVE WorkloadsInv'
<1>1. CASE UNCHANGED vars
  BY <1>1 DEF vars, declared, toolhive, history, command, WorkloadsInv, WorkloadsTypeOK,
     ThreadsKnow, ThreadsAtRest, MountIsFile, RecordedIsBaked, AtRest, Ours
<1> QED
  BY <1>1, EditStep, WorldStep, StartStep, ThreadStep, CommandStep, RecoverStep DEF Next

(* Types, and what threads, fingerprints and mounted kubeconfigs say, in   *)
(* every reachable state.                                                  *)
THEOREM WorkloadsInvariant == Spec => []WorkloadsInv
<1>1. WorkloadsInv /\ [Next]_vars => WorkloadsInv'  BY WorkloadsStep
<1> QED  BY <1>1, WorkloadsInitial, PTL DEF Spec

(* A fingerprint is that of the workload that is there, unless in doubt.   *)
THEOREM FingerprintsAreTrue == Spec => []RecordedIsBaked
<1>1. WorkloadsInv => RecordedIsBaked  BY DEF WorkloadsInv
<1> QED  BY <1>1, WorkloadsInvariant, PTL

(* A healthy workload is left alone while a start applies.                 *)
LEMMA HealthyStep ==
  ASSUME WorkloadsInv, HealthyAreDone, [Next]_vars
  PROVE  HealthyAreDone'
<1> USE DEF WorkloadsInv, WorkloadsTypeOK, HealthyAreDone, SpecChanged, Stale, declared, InApply, Goes
<1>1. ASSUME NEW s \in Servers, Decide(s) PROVE HealthyAreDone'
  <2>1. /\ thread[s] = "todo"
        /\ \/ thread' = [thread EXCEPT ![s] = Plan(s, Stale(s))]
           \/ thread' = [thread EXCEPT ![s] = Plan(s, FALSE)]
        /\ UNCHANGED <<spec, ca, kubefile, recorded, pc, inGroup, healthy>>
    BY <1>1 DEF Decide
  <2>2. pc = "apply" /\ inGroup # Missing /\ s \in healthy
          => Plan(s, Stale(s)) = "done" /\ Plan(s, FALSE) = "done"
    BY <2>1 DEF Plan
  <2>3. Missing' = Missing
    BY DEF Missing
  <2>4. \E x : /\ thread' = [thread EXCEPT ![s] = x]
               /\ pc = "apply" /\ inGroup # Missing /\ s \in healthy => x = "done"
    BY <2>1, <2>2
  <2> HIDE DEF Stale, SpecChanged
  <2>5. \A t \in Servers : SpecChanged(t)' = SpecChanged(t) /\ Stale(t)' = Stale(t)
    BY <2>1 DEF SpecChanged, Stale
  <2> QED  BY <2>1, <2>3, <2>4, <2>5
<1>2. ASSUME NEW s \in Servers, Remove(s) PROVE HealthyAreDone'
  BY <1>2 DEF Remove
<1>3. ASSUME NEW s \in Servers, Run(s) \/ Restart(s) PROVE HealthyAreDone'
  <2>1. /\ pc = "apply" /\ thread[s] \in {"run", "restart"}
        /\ thread' = [thread EXCEPT ![s] = "record"] \/ thread' = [thread EXCEPT ![s] = "done"]
        /\ kubefile' = kubefile \/ kubefile' = ca
        /\ UNCHANGED <<spec, ca, recorded, pc, inGroup, healthy>>
    BY <1>3 DEF Run, Restart, ThreadsAtRest, AtRest
  <2> QED  BY <2>1 DEF Missing
<1>4. ASSUME NEW s \in Servers, Record(s) PROVE HealthyAreDone'
  BY <1>4 DEF Record
<1>5. CASE Start
  <2>1. /\ \A s \in healthy' : status[s] = "running" /\ ~SpecChanged(s) /\ ~Stale(s) /\ s \in enabled
        /\ inGroup' = Listed \/ inGroup' = Missing
        /\ thread' = [s \in Servers |-> IF s \in enabled THEN "todo" ELSE "done"]
        /\ UNCHANGED <<spec, ca, kubefile, recorded>> /\ Missing' = Missing
    BY <1>5 DEF Start, Missing
  <2>2. \A s \in healthy' : Listed[s] = "running"
    BY <1>5, <2>1 DEF Listed, Ours
  <2> QED  BY <2>1, <2>2
<1>6. CASE UNCHANGED <<pc, inGroup, healthy, thread, spec, ca, kubefile, recorded>>
  BY <1>6 DEF Missing
<1>7. CASE pc' # "apply"  BY <1>7
<1>8. ASSUME NEW s \in Servers, Edit(s) PROVE HealthyAreDone'
  <2>1. /\ healthy' = healthy \ {s} /\ \E v : spec' = [spec EXCEPT ![s] = v]
        /\ UNCHANGED <<pc, inGroup, thread, ca, kubefile, recorded>>
    BY <1>8 DEF Edit, Others
  <2> QED  BY <2>1 DEF Missing
<1>9. CASE Rotate
  BY <1>9 DEF Rotate, Others, Missing
<1>10. ASSUME NEW s \in Servers, Raises(s) PROVE HealthyAreDone'
  <2>1. /\ thread' = [thread EXCEPT ![s] = "raised"]
        /\ UNCHANGED <<spec, ca, kubefile, recorded, pc, inGroup, healthy>>
    BY <1>10 DEF Raises
  <2> QED  BY <2>1 DEF Missing
<1>11. ASSUME NEW s \in Servers, Toggle(s) PROVE HealthyAreDone'
  BY <1>6, <1>11 DEF Toggle, Others
<1>12. ASSUME NEW s \in Servers, ComesUp(s) \/ Breaks(s) \/ Locks(s) \/ Recover(s)
       PROVE  HealthyAreDone'
  BY <1>6, <1>7, <1>12 DEF ComesUp, Breaks, Locks, Recover, Waiting, command
<1>13. CASE Exits \/ Applied \/ Poll \/ GiveUp \/ Kill
  BY <1>7, <1>13 DEF Exits, Applied, Poll, GiveUp, Kill, Return
<1>14. CASE Stop \/ UNCHANGED vars
  BY <1>6, <1>14 DEF Stop, vars, command
<1> QED
  BY <1>1, <1>2, <1>3, <1>4, <1>5, <1>8, <1>9, <1>10, <1>11, <1>12, <1>13, <1>14 DEF Next

THEOREM HealthyAreLeft == Spec => HealthyIsLeft
<1> DEFINE Act == pc = "apply" /\ inGroup # Missing => \A s \in healthy :
                    status[s] = "running" => status'[s] \in {"running", "error"}
<1>1. Init => HealthyAreDone  BY DEF Init, HealthyAreDone
<1>2. WorkloadsInv /\ HealthyAreDone /\ [Next]_vars => HealthyAreDone'  BY HealthyStep
<1>3. WorkloadsInv /\ HealthyAreDone /\ [Next]_vars => [Act]_vars
  <2> SUFFICES ASSUME WorkloadsInv, HealthyAreDone, [Next]_vars,
                      pc = "apply", inGroup # Missing, NEW s \in healthy, status[s] = "running"
               PROVE  status'[s] \in {"running", "error"}
    OBVIOUS
  <2> USE DEF WorkloadsInv, WorkloadsTypeOK, HealthyAreDone
  <2>1. ASSUME NEW t \in Servers, Remove(t) \/ Run(t) \/ Restart(t)
        PROVE  t # s /\ (UNCHANGED status \/ \E x : status' = [status EXCEPT ![t] = x])
    BY <2>1 DEF Remove, Run, Restart, Creates, toolhive
  <2>2. ASSUME NEW t \in Servers, ComesUp(t) PROVE t # s /\ \E x : status' = [status EXCEPT ![t] = x]
    BY <2>2 DEF ComesUp
  <2>3. ASSUME NEW t \in Servers, Breaks(t) PROVE status' = [status EXCEPT ![t] = "error"]
    BY <2>3 DEF Breaks
  <2>4. CASE UNCHANGED status  BY <2>4
  <2> QED
    BY <2>1, <2>2, <2>3, <2>4
    DEF Next, vars, toolhive, Edit, Toggle, Rotate, Decide, Locks, Record, Raises, Recover, Start,
        Exits, Applied, Poll, GiveUp, Stop, Kill, InApply
<1> QED  BY <1>1, <1>2, <1>3, WorkloadsInvariant, PTL DEF Spec, HealthyIsLeft

(* A recovered workload is started only from rest.                         *)
LEMMA StoppedStep ==
  ASSUME WorkloadsInv, StoppedStay, [Next]_vars
  PROVE  StoppedStay'
<1> USE DEF WorkloadsInv, WorkloadsTypeOK, StoppedStay, Ours
<1>1. ASSUME NEW s \in Servers, ComesUp(s) \/ Breaks(s) PROVE StoppedStay'
  BY <1>1 DEF ComesUp, Breaks, command
<1>2. ASSUME NEW s \in Servers, Recover(s) PROVE StoppedStay'
  <2>1. /\ polled' = polled \ {s} /\ UNCHANGED <<pc, inGroup>>
        /\ UNCHANGED status \/ \E x : status' = [status EXCEPT ![s] = x]
    BY <1>2 DEF Recover, Becomes
  <2> QED  BY <2>1
<1>3. CASE Poll  BY <1>3 DEF Poll, Listed, Return, toolhive
<1>4. CASE Applied  BY <1>4 DEF Applied, toolhive
<1>5. CASE Start  BY <1>5 DEF Start
<1>6. CASE UNCHANGED <<pc, polled, status, inGroup>>  BY <1>6
<1>7. CASE pc' = "idle"  BY <1>7
<1>8. ASSUME NEW s \in Servers,
             \/ Decide(s) \/ Remove(s) \/ Locks(s) \/ Run(s) \/ Restart(s)
             \/ Record(s) \/ Raises(s)
      PROVE  StoppedStay'
  <2>1. pc = "apply" /\ UNCHANGED <<pc, polled>>
    BY <1>8 DEF Decide, Remove, Locks, Run, Restart, Record, Raises, InApply, ThreadsAtRest, AtRest
  <2> QED  BY <2>1
<1> QED
  BY <1>1, <1>2, <1>3, <1>4, <1>5, <1>6, <1>7, <1>8
  DEF Next, vars, command, toolhive, Edit, Toggle, Rotate, Others, Exits, GiveUp, Return, Stop, Kill

THEOREM RecoveryFromRest == Spec => RecoveryHasOneOwner
<1> DEFINE Act == (pc = "wait" /\ pc' = "wait") => \A s \in Servers :
                    status'[s] = "starting" => status[s] \in {"starting", "stopped"}
<1>1. Init => StoppedStay  BY DEF Init, StoppedStay
<1>2. WorkloadsInv /\ StoppedStay /\ [Next]_vars => StoppedStay'  BY StoppedStep
<1>3. WorkloadsInv /\ StoppedStay /\ [Next]_vars => [Act]_vars
  <2> SUFFICES ASSUME WorkloadsInv, StoppedStay, [Next]_vars, pc = "wait", pc' = "wait",
                      NEW s \in Servers, status'[s] = "starting"
               PROVE  status[s] \in {"starting", "stopped"}
    OBVIOUS
  <2> USE DEF WorkloadsInv, WorkloadsTypeOK, StoppedStay
  <2>1. ASSUME NEW t \in Servers, Recover(t) PROVE status[s] \in {"starting", "stopped"}
    <3>1. t \in polled  BY <2>1 DEF Recover
    <3>2. CASE ToStop(t)
      <4>1. UNCHANGED status \/ status' = [status EXCEPT ![t] = IF Ours(t) THEN "closing" ELSE @]
        BY <2>1, <3>2 DEF Recover, Becomes
      <4> QED  BY <4>1
    <3>3. CASE ~ToStop(t) /\ ToStart(t)
      <4>1. status[t] = "stopped"  BY <3>1, <3>3 DEF ToStart
      <4>2. UNCHANGED status \/ status' = [status EXCEPT ![t] = IF Ours(t) THEN "starting" ELSE @]
        BY <2>1, <3>3 DEF Recover, Becomes
      <4> QED  BY <4>1, <4>2
    <3>4. CASE ~ToStop(t) /\ ~ToStart(t)  BY <2>1, <3>4 DEF Recover
    <3> QED  BY <3>2, <3>3, <3>4
  <2>2. ASSUME NEW t \in Servers, ComesUp(t) \/ Breaks(t) PROVE status[s] \in {"starting", "stopped"}
    BY <2>2 DEF ComesUp, Breaks
  <2>3. CASE UNCHANGED status  BY <2>3
  <2>4. ASSUME NEW t \in Servers, Remove(t) \/ Run(t) \/ Restart(t) PROVE FALSE
    BY <2>4 DEF Remove, Run, Restart, ThreadsAtRest, AtRest
  <2> QED
    BY <2>1, <2>2, <2>3, <2>4
    DEF Next, vars, toolhive, Edit, Toggle, Rotate, Decide, Locks, Record, Raises, Start, Exits,
        Applied, Poll, GiveUp, Stop, Kill, InApply
<1> QED  BY <1>1, <1>2, <1>3, WorkloadsInvariant, PTL DEF Spec, RecoveryHasOneOwner

(* While nothing has failed or changed, a thread is done only where it     *)
(* found the spec unchanged, or recorded what it had brought up, and found *)
(* or wrote the cluster's kubeconfig.                                      *)
LEMMA RecordedStep ==
  ASSUME WorkloadsInv, DoneIsRecorded, [Next]_vars
  PROVE  DoneIsRecorded'
<1> USE DEF WorkloadsInv, WorkloadsTypeOK, DoneIsRecorded, declared, history, InApply, Goes
<1>1. CASE pc' = "idle" \/ clean' = FALSE  BY <1>1
<1>2. CASE UNCHANGED <<enabled, pc, want, inGroup, allNames, thread, spec, ca, kubefile, recorded, doubt>>
           /\ (clean' => clean)
  BY <1>2
<1>3. ASSUME NEW s \in Servers, Decide(s), clean' PROVE DoneIsRecorded'
  <2>1. /\ thread' = [thread EXCEPT ![s] = Plan(s, Stale(s))] /\ clean /\ pc = "apply"
        /\ UNCHANGED <<enabled, want, inGroup, allNames, pc, spec, ca, kubefile, recorded, doubt>>
    BY <1>3 DEF Decide
  <2>2. s \in want /\ Plan(s, Stale(s)) = "done" => recorded[s] = spec[s] /\ ~Stale(s)
    BY DEF Plan, SpecChanged
  <2>3. s \in want /\ Plan(s, Stale(s)) = "restart" => ~Stale(s)
    BY <2>1 DEF Plan
  <2>4. Plan(s, Stale(s)) \in {"done", "rm", "restart", "run"}
    BY DEF Plan
  <2> QED  BY <2>1, <2>2, <2>3, <2>4 DEF Stale
<1>4. ASSUME NEW s \in Servers, Remove(s), clean' PROVE DoneIsRecorded'
  <2>1. /\ thread' = [thread EXCEPT ![s] = "run"] /\ clean
        /\ UNCHANGED <<enabled, want, inGroup, allNames, pc, spec, ca, kubefile, recorded, doubt>>
    BY <1>4 DEF Remove
  <2> QED  BY <2>1
<1>5. ASSUME NEW s \in Servers, Run(s), clean' PROVE DoneIsRecorded'
  <2>1. /\ thread' = [thread EXCEPT ![s] = "record"] /\ clean /\ doubt' = doubt \ {s}
        /\ kubefile' = (IF s \in Kind THEN ca ELSE kubefile)
        /\ UNCHANGED <<enabled, want, inGroup, allNames, pc, spec, ca, recorded>>
    BY <1>5 DEF Run
  <2> QED  BY <2>1
<1>6. ASSUME NEW s \in Servers, Restart(s), clean' PROVE DoneIsRecorded'
  <2>1. /\ thread[s] = "restart" /\ thread' = [thread EXCEPT ![s] = "record"] /\ clean
        /\ doubt \subseteq doubt'
        /\ UNCHANGED <<enabled, want, inGroup, allNames, pc, spec, ca, kubefile, recorded>>
    BY <1>6 DEF Restart
  <2> QED  BY <2>1
<1>7. ASSUME NEW s \in Servers, Record(s) PROVE DoneIsRecorded'
  BY <1>7 DEF Record
<1>8. CASE Start /\ clean'
  <2>1. /\ inGroup' = Listed /\ allNames' = Named /\ want' = enabled /\ enabled' = enabled
        /\ thread' = [s \in Servers |-> IF s \in enabled THEN "todo" ELSE "done"]
    BY <1>8 DEF Start
  <2>2. \A s \in Servers : Listed[s] # "absent" => s \in Named
    BY DEF Listed, Named, Ours
  <2> QED  BY <2>1, <2>2
<1>9. CASE Applied
  <2>1. /\ pc = "apply" /\ pc' = "wait" /\ want' = enabled
        /\ UNCHANGED <<enabled, thread, spec, ca, kubefile, recorded, doubt, clean>>
    BY <1>9 DEF Applied
  <2>2. clean => want = enabled
    BY <2>1
  <2> QED  BY <2>1, <2>2
<1>10. ASSUME NEW s \in Servers, Recover(s) PROVE DoneIsRecorded'
  <2>1. /\ pc = "wait" /\ (clean' => clean)
        /\ UNCHANGED <<enabled, pc, want, thread, spec, ca, kubefile, recorded, doubt>>
    BY <1>10 DEF Recover, Becomes, Waiting
  <2> QED  BY <2>1
<1>11. CASE Poll /\ pc' # "idle"
  <2>1. /\ pc = "wait" /\ UNCHANGED <<enabled, pc, want, thread, spec, ca, kubefile, recorded, doubt, clean>>
    BY <1>11 DEF Poll, Return
  <2> QED  BY <2>1
<1>12. ASSUME NEW s \in Servers, Edit(s) \/ Toggle(s) PROVE DoneIsRecorded'
  BY <1>1, <1>12 DEF Edit, Toggle, Changes, Others
<1>13. CASE Rotate
  BY <1>1, <1>13 DEF Rotate, Changes, Others
<1>14. ASSUME NEW s \in Servers, ComesUp(s) \/ Breaks(s) \/ Locks(s) PROVE DoneIsRecorded'
  BY <1>2, <1>14 DEF ComesUp, Breaks, Locks, command
<1>15. CASE Stop \/ UNCHANGED vars
  BY <1>2, <1>15 DEF Stop, vars, command
<1>16. CASE Exits \/ GiveUp \/ Kill
  BY <1>1, <1>16 DEF Exits, GiveUp, Kill, Return
<1>17. ASSUME NEW s \in Servers, Raises(s) PROVE DoneIsRecorded'
  BY <1>1, <1>17 DEF Raises
<1>18. CASE clean' = FALSE  BY <1>18
<1>19. clean' \in BOOLEAN
  <2>1. WorkloadsInv'  BY WorkloadsStep
  <2> QED  BY <2>1
<1> QED
  BY <1>1, <1>3, <1>4, <1>5, <1>6, <1>7, <1>8, <1>9, <1>10, <1>11, <1>12, <1>13, <1>14, <1>15,
     <1>16, <1>17, <1>19 DEF Next

(* A start in which nothing failed and nothing changed leaves every server *)
(* it found enabled running, with what is declared unless in doubt, and    *)
(* with the cluster's CA unless its kubeconfig was consumed.               *)
THEOREM CleanStartConverges == Spec => StartConverges
<1> DEFINE Act == (pc # "idle" /\ pc' = "idle" /\ clean') => \A s \in want :
                    /\ status'[s] = "running"
                    /\ s \notin doubt => baked'[s] = spec[s]
                    /\ s \in Kind \ consumed => mounted'[s] = ca
<1>1. Init => DoneIsRecorded  BY DEF Init, DoneIsRecorded
<1>2. WorkloadsInv /\ DoneIsRecorded /\ [Next]_vars => DoneIsRecorded'  BY RecordedStep
<1>3. WorkloadsInv /\ DoneIsRecorded /\ [Next]_vars => [Act]_vars
  <2> SUFFICES ASSUME WorkloadsInv, DoneIsRecorded, [Next]_vars, pc # "idle", pc' = "idle", clean',
                      NEW s \in want
               PROVE  /\ status'[s] = "running"
                      /\ s \notin doubt => baked'[s] = spec[s]
                      /\ s \in Kind \ consumed => mounted'[s] = ca
    OBVIOUS
  <2> USE DEF WorkloadsInv, WorkloadsTypeOK
  <2>1. CASE Poll
    <3>1. /\ pc = "wait" /\ clean /\ UNCHANGED <<status, baked, mounted>> /\ AllRunning(Listed)
      BY <2>1 DEF Poll, toolhive
    <3>2. Ours(s) /\ status[s] = "running"
      BY <3>1 DEF AllRunning, Listed
    <3>3. thread[s] = "done"
      BY <3>1 DEF ThreadsAtRest, AtRest
    <3>4. s \notin doubt => recorded[s] = spec[s]
      BY <3>1, <3>3 DEF DoneIsRecorded
    <3>5. s \in Kind => kubefile = ca
      BY <3>1, <3>3 DEF DoneIsRecorded
    <3>6. s \notin doubt => baked[s] = spec[s]
      BY <3>2, <3>3, <3>4 DEF RecordedIsBaked
    <3>7. s \in Kind \ consumed => mounted[s] = ca
      BY <3>2, <3>5 DEF MountIsFile
    <3> QED  BY <3>1, <3>2, <3>6, <3>7
  <2>2. Poll
    <3>1. ASSUME NEW t \in Servers PROVE ~Decide(t) /\ ~Remove(t) /\ ~Locks(t) /\ ~Record(t) /\ ~Recover(t)
      BY DEF Decide, Remove, Locks, Record, Recover, InApply
    <3>2. ASSUME NEW t \in Servers PROVE ~Edit(t) /\ ~Toggle(t) /\ ~ComesUp(t) /\ ~Breaks(t)
      BY DEF Edit, Toggle, Others, ComesUp, Breaks, command
    <3>3. ASSUME NEW t \in Servers PROVE ~Run(t) /\ ~Restart(t) /\ ~Raises(t)
      BY DEF Run, Restart, Raises, InApply
    <3>4. ~Rotate /\ ~Start /\ ~Applied /\ ~GiveUp /\ ~Stop /\ ~Kill /\ ~UNCHANGED vars
      BY DEF Rotate, Others, Start, Applied, GiveUp, Stop, Kill, vars, command
    <3>5. ~Exits
      BY DEF Exits, DoneIsRecorded, ThreadsAtRest
    <3> QED  BY <3>1, <3>2, <3>3, <3>4, <3>5 DEF Next
  <2> QED  BY <2>1, <2>2
<1> QED  BY <1>1, <1>2, <1>3, WorkloadsInvariant, PTL DEF Spec, StartConverges

=============================================================================
