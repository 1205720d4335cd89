------------------------ MODULE StackAndConfigProofs ------------------------
(***************************************************************************)
(* Two components that share no state, each for every value of its         *)
(* constants.                                                              *)
(*                                                                         *)
(* The host stack: what `stop` and `start` promise when they report        *)
(* success, for any set of memberships and any number of changes, commands *)
(* and failures.  Both promises rest on who may bring a listener back: a   *)
(* supervisord, at the socket or lost, with the listener in its            *)
(* configuration.                                                          *)
(*                                                                         *)
(* The agent configurations: whatever file is on the volume and whatever   *)
(* the chart renders, an installed configuration holds the owned sections  *)
(* exactly as rendered.  The reconcilers fold over their sections and      *)
(* routes; a fold is followed turn by turn, and a property of every turn   *)
(* follows from there being no least turn at which it fails.  That later   *)
(* steps leave earlier sections alone rests on the paths: sections begin   *)
(* with different keys, and a graft changes nothing under another key.     *)
(*                                                                         *)
(* The routes of Hermes: each ends with the provider and the model of the  *)
(* file or with those of the chart.  This rests on files in which a route  *)
(* names both or neither, which every chart, edit and installation keeps,  *)
(* and on routes being paths none of which begins with another.            *)
(***************************************************************************)
EXTENDS HostStack, AgentConfig, FiniteSetTheorems, WellFoundedInduction, TLAPS

-----------------------------------------------------------------------------
(* The host stack                                                          *)

LEMMA StackInitial == Init => StackInv
BY DEF Init, StackInv, StackTypeOK, Starting, CommandsReport, OneSupervisor, OptedOut, StopIsFinal,
       Listeners

(* What the invariant reads: a step that leaves it alone preserves it.     *)
seen == <<proc, sup, stray, programs, halted, cmd, already, operator, done>>

LEMMA Unseen == ASSUME StackInv, UNCHANGED seen PROVE StackInv'
BY DEF seen, StackInv, StackTypeOK, CommandsReport, OneSupervisor, OptedOut, StopIsFinal

(* Listeners come, go and lose their parent.                               *)
LEMMA ListenerStep ==
  ASSUME StackInv, NEW p \in Listeners, Revive(p) \/ CrashListener(p)
  PROVE  StackInv'
<1> USE DEF StackInv, StackTypeOK, CommandsReport, OneSupervisor, OptedOut, StopIsFinal,
            Starting, Listeners, cmdVars
<1>1. CASE Revive(p)
  <2>1. /\ UNCHANGED <<sup, stray, programs, halted, cmd, already, operator, done>>
        /\ (sup /\ p \in programs \ halted) \/ (stray /\ ~sup)
    BY <1>1 DEF Revive
  <2>2. \/ proc' = [q \in Listeners |-> IF q \in {p} THEN "sup" ELSE proc[q]]
        \/ proc' = [q \in Listeners |-> IF q \in {p} THEN "stray" ELSE proc[q]]
    BY <1>1 DEF Revive, Become
  <2> QED  BY <2>1, <2>2
<1>2. CASE CrashListener(p)
  <2>1. /\ UNCHANGED <<sup, stray, programs, halted, cmd, already, operator, done>>
        /\ proc' = [q \in Listeners |-> IF q = p THEN "down" ELSE proc[q]]
    BY <1>2 DEF CrashListener, Become
  <2> QED  BY <2>1
<1> QED  BY <1>1, <1>2

LEMMA SupervisorDies == ASSUME StackInv, CrashSupervisor PROVE StackInv'
<1>1. /\ UNCHANGED <<stray, programs, halted, cmd, already, operator, done>>
      /\ sup /\ sup' = FALSE
      /\ proc' = [q \in Listeners |-> IF proc[q] = "sup" THEN "orphan" ELSE proc[q]]
  BY DEF CrashSupervisor, Become, Children, cmdVars
<1> QED
  BY <1>1 DEF StackInv, StackTypeOK, CommandsReport, OneSupervisor, OptedOut, StopIsFinal, Starting,
              Listeners

(* The health watch restarts the scoped vMCP, and only under supervisord.  *)
LEMMA WatchStep == ASSUME StackInv, NEW w \in Watchers, Watch(w) PROVE StackInv'
<1> USE DEF Watching, cmdVars, procVars, seen
<1>1. CASE Compare(w)  BY <1>1, Unseen DEF Compare
<1>2. CASE WatchGenerates(w)  BY <1>2, Unseen DEF WatchGenerates
<1>3. CASE WatchValidates(w)  BY <1>3, Unseen DEF WatchValidates
<1>4. CASE WatchRestarts(w)
  <2>1. UNCHANGED <<sup, stray, programs, cmd, already, operator, done>>
    BY <1>4 DEF WatchRestarts
  <2>2. \/ /\ sup /\ halted' = halted \ {"vmcp"}
           /\ proc' = [q \in Listeners |-> IF q = "vmcp" THEN "sup" ELSE proc[q]]
        \/ halted' = halted /\ proc' = proc
        \/ halted' = halted /\ proc' = [q \in Listeners |->
              IF q = "vmcp" /\ proc[q] = "sup" THEN "down" ELSE proc[q]]
    BY <1>4 DEF WatchRestarts, Restartable, Restarts, Become, Children
  <2> QED
    BY <2>1, <2>2 DEF StackInv, StackTypeOK, CommandsReport, OneSupervisor, OptedOut, StopIsFinal,
                      Starting, Listeners
<1>5. CASE WatchUndoes(w)  BY <1>5, Unseen DEF WatchUndoes
<1> QED  BY <1>1, <1>2, <1>3, <1>4, <1>5 DEF Watch

(* A start: the steps that do not touch the listeners,                     *)
LEMMA StartStep ==
  ASSUME StackInv, Generate \/ Validate \/ Refuse \/ RestartWatch \/ Ready
  PROVE  StackInv'
<1> USE DEF StackInv, StackTypeOK, CommandsReport, OneSupervisor, OptedOut, StopIsFinal,
            Starting, Listeners, procVars, Running, Goes, Ends
<1>1. CASE Generate  BY <1>1 DEF Generate
<1>2. CASE Validate  BY <1>2 DEF Validate
<1>3. CASE Refuse  BY <1>3 DEF Refuse
<1>4. CASE RestartWatch  BY <1>4 DEF RestartWatch
<1>5. CASE Ready  BY <1>5 DEF Ready
<1> QED  BY <1>1, <1>2, <1>3, <1>4, <1>5

(* and those that do.                                                      *)
LEMMA LaunchStep ==
  ASSUME StackInv, KillStrays \/ OptOut \/ Launch \/ Update \/ RestartListeners
  PROVE  StackInv'
<1> USE DEF StackInv, StackTypeOK, CommandsReport, OneSupervisor, OptedOut, StopIsFinal,
            Starting, Listeners, Running, Goes
<1>1. CASE KillStrays
  <2>1. /\ cmd = "strays" /\ cmd' \in {"generate", "optout"} /\ (~operator => cmd' = "optout")
        /\ stray' = FALSE /\ sup' = (sup /\ already)
        /\ UNCHANGED <<already, operator, done, programs, halted>>
    BY <1>1 DEF KillStrays, KillSupervisors
  <2>2. proc' \in [Listeners -> {"down", "sup", "stray", "orphan"}]
    BY <1>1 DEF KillStrays, KillSupervisors, Become
  <2> QED  BY <2>1, <2>2
<1>2. CASE OptOut
  <2>1. /\ cmd = "optout" /\ cmd' = "generate"
        /\ proc' = [q \in Listeners |-> IF q = "operator-vmcp" THEN "down" ELSE proc[q]]
        /\ halted' \subseteq Listeners
        /\ UNCHANGED <<sup, stray, programs, already, operator, done>>
    BY <1>2 DEF OptOut, OptsOut, Become
  <2> QED  BY <2>1
<1>3. CASE Launch
  <2>1. /\ cmd = "launch" /\ cmd' = "ready" /\ sup' = TRUE /\ programs' = Expected /\ halted' = {}
        /\ proc' = [q \in Listeners |-> IF q \in Expected THEN "sup" ELSE proc[q]]
        /\ UNCHANGED <<stray, already, operator, done>>
    BY <1>3 DEF Launch, Become
  <2> QED  BY <2>1 DEF Expected
<1>4. CASE Update  BY <1>4 DEF Update, Expected
<1>5. CASE RestartListeners
  <2>1. /\ cmd = "restart" /\ cmd' = "rewatch" /\ halted' = halted \ Expected
        /\ \A p \in Expected : sup /\ p \in programs
        /\ proc' = [q \in Listeners |-> IF q \in Expected THEN "sup" ELSE proc[q]]
        /\ UNCHANGED <<sup, stray, programs, already, operator, done>>
    BY <1>5 DEF RestartListeners, Restartable, Restarts, Become
  <2> QED  BY <2>1 DEF Expected
<1> QED  BY <1>1, <1>2, <1>3, <1>4, <1>5

(* A stop, and how a command begins and is cut short.                      *)
LEMMA StopStep ==
  ASSUME StackInv, (\E op \in BOOLEAN : Start(op)) \/ Stop \/ Shutdown \/ StopStrays \/ Sweep \/ Abort
  PROVE  StackInv'
<1> USE DEF StackInv, StackTypeOK, CommandsReport, OneSupervisor, OptedOut, StopIsFinal,
            Starting, Listeners, Running, Goes, Ends, procVars
<1>1. CASE \E op \in BOOLEAN : Start(op)  BY <1>1 DEF Start, Asks
<1>2. CASE Stop  BY <1>2 DEF Stop, Asks
<1>3. CASE Shutdown
  <2>1. /\ cmd = "shutdown" /\ cmd' = "down" /\ sup' \in BOOLEAN
        /\ proc' \in [Listeners -> {"down", "sup", "stray", "orphan"}]
        /\ UNCHANGED <<stray, programs, halted, already, operator, done>>
    BY <1>3 DEF Shutdown, Become
  <2> QED  BY <2>1
<1>4. CASE StopStrays
  <2>1. /\ cmd = "down" /\ cmd' = "sweep" /\ sup' = FALSE /\ stray' = FALSE
        /\ proc' \in [Listeners -> {"down", "sup", "stray", "orphan"}]
        /\ UNCHANGED <<programs, halted, already, operator, done>>
    BY <1>4 DEF StopStrays, KillSupervisors, Become
  <2> QED  BY <2>1
<1>5. CASE Sweep
  <2>1. /\ cmd = "sweep" /\ cmd' = "idle"
        /\ \/ proc' = [q \in Listeners |-> "down"] /\ done' \in {"stop", "none"}
           \/ UNCHANGED <<proc, done>>
        /\ UNCHANGED <<sup, stray, programs, halted, already, operator>>
    BY <1>5 DEF Sweep, Become
  <2> QED  BY <2>1
<1>6. CASE Abort  BY <1>6 DEF Abort
<1> QED  BY <1>1, <1>2, <1>3, <1>4, <1>5, <1>6

(* Who may bring what back, in every reachable state.                      *)
THEOREM StackInvariant == Spec => []StackInv
<1>1. StackInv /\ [Next]_vars => StackInv'
  <2> SUFFICES ASSUME StackInv, [Next]_vars PROVE StackInv'  OBVIOUS
  <2>1. CASE UNCHANGED vars  BY <2>1, Unseen DEF vars, seen, procVars, cmdVars
  <2>2. CASE \E m \in Members : Change(m)
    BY <2>2, Unseen DEF Change, seen, procVars, cmdVars
  <2>3. CASE ReviveWatch \/ LosesOutput \/ \E w \in Watchers : CrashWatch(w)
    BY <2>3, Unseen DEF ReviveWatch, LosesOutput, CrashWatch, seen, procVars, cmdVars
  <2> QED
    BY <2>1, <2>2, <2>3, ListenerStep, SupervisorDies, WatchStep, StartStep, LaunchStep, StopStep
    DEF Next, Command
<1> QED  BY <1>1, StackInitial, PTL DEF Spec

(* A stop that reports success leaves nothing that could come back.        *)
THEOREM StopsForGood == Spec => []StopIsFinal
<1>1. StackInv => StopIsFinal  BY DEF StackInv
<1> QED  BY <1>1, StackInvariant, PTL

(* A start without the operator's vMCP leaves none running.                *)
THEOREM OptOutIsKept == Spec => []OptOutHolds
<1>1. StackInv => OptOutHolds  BY DEF StackInv, OptedOut, OptOutHolds
<1> QED  BY <1>1, StackInvariant, PTL

-----------------------------------------------------------------------------
(* The agent configurations                                                *)

LEMMA SequencesArePaths == ASSUME NEW S, NEW p \in Seq(S) PROVE IsPath(p)
<1>1. p \in [1..Len(p) -> S] /\ Len(p) \in Nat  OBVIOUS
<1>2. \A i \in 1..Len(p) : p[i] \in Range(p)  BY <1>1 DEF Range
<1>3. p \in [1..Len(p) -> Range(p)]  BY <1>1, <1>2
<1> QED  BY <1>1, <1>3 DEF IsPath

(* A path that extends another begins with the same key.                   *)
LEMMA PrefixHead ==
  ASSUME NEW p, IsPath(p), NEW q, IsPath(q), p # <<>>, IsPrefix(p, q)
  PROVE  q # <<>> /\ q[1] = p[1]
<1>1. Len(p) >= 1 /\ Len(p) <= Len(q)  BY DEF IsPrefix, IsPath
<1>2. SubSeq(p, 1, Len(p))[1] = p[1] /\ SubSeq(q, 1, Len(p))[1] = q[1]  BY <1>1 DEF IsPath
<1> QED  BY <1>1, <1>2 DEF IsPrefix, IsPath

(* Paths that begin with different keys: no leaf is at or below both.      *)
Apart(p, q) == p # <<>> /\ q # <<>> /\ p[1] # q[1]

(* What is grafted at a path is exactly there.                             *)
LEMMA GraftPuts ==
  ASSUME NEW m, NEW n, NEW p
  PROVE  Same(Graft(m, n, {p}), n, p)
BY DEF Same, Graft, At

(* A graft leaves what is apart from it.                                   *)
LEMMA GraftLeaves ==
  ASSUME NEW m, IsConfig(m), NEW n, IsConfig(n), NEW ps, \A r \in ps : IsPath(r), NEW p, IsPath(p),
         \A r \in ps : Apart(r, p)
  PROVE  Same(Graft(m, n, ps), m, p)
<1> DEFINE new  == UNION {At(n, r) : r \in ps}
           kept == {q \in DOMAIN m : \A r \in ps : ~IsPrefix(r, q) /\ ~IsPrefix(q, r)}
           g    == [q \in kept \union new |-> IF q \in new THEN n[q] ELSE m[q]]
<1>1. ASSUME NEW q \in new, IsPrefix(p, q) PROVE FALSE
  <2>1. PICK r \in ps : q \in DOMAIN n /\ IsPrefix(r, q)  BY DEF At
  <2>2. IsPath(q)  BY <2>1 DEF IsConfig, IsPath
  <2>3. Apart(r, p) /\ IsPath(r)  OBVIOUS
  <2>4. q[1] = r[1]  BY <2>1, <2>2, <2>3, PrefixHead DEF Apart
  <2>5. p # <<>>  BY <2>3 DEF Apart
  <2>6. q[1] = p[1]  BY <1>1, <2>2, <2>5, PrefixHead
  <2> QED  BY <2>3, <2>4, <2>6 DEF Apart
<1>2. ASSUME NEW q \in DOMAIN m, IsPrefix(p, q), ps # {} PROVE q \in kept
  <2>1. IsPath(q)  BY DEF IsConfig, IsPath
  <2>2. p # <<>>  BY <1>2 DEF Apart
  <2>3. q # <<>> /\ q[1] = p[1]  BY <1>2, <2>1, <2>2, PrefixHead
  <2>4. ASSUME NEW r \in ps PROVE ~IsPrefix(r, q) /\ ~IsPrefix(q, r)
    BY <2>1, <2>3, PrefixHead DEF Apart
  <2> QED  BY <2>4
<1>3. CASE ps = {}
  <2>1. new = {} /\ kept = DOMAIN m  BY <1>3
  <2> QED  BY <2>1 DEF Same, At, Graft
<1>4. CASE ps # {}
  <2>1. At(g, p) = At(m, p)  BY <1>1, <1>2, <1>4 DEF At
  <2>2. \A q \in At(m, p) : g[q] = m[q]  BY <1>1, <1>2, <1>4 DEF At
  <2>3. Graft(m, n, ps) = g  BY DEF Graft
  <2> HIDE DEF g
  <2> QED  BY <2>1, <2>2, <2>3 DEF Same
<1> QED  BY <1>3, <1>4

(* A graft of configurations is one.                                       *)
LEMMA GraftIsConfig ==
  ASSUME NEW m, IsConfig(m), NEW n, IsConfig(n), NEW ps
  PROVE  IsConfig(Graft(m, n, ps))
<1>1. DOMAIN Graft(m, n, ps) \subseteq DOMAIN m \union DOMAIN n  BY DEF Graft, At
<1>2. IsFiniteSet(DOMAIN m \union DOMAIN n)  BY FS_Union DEF IsConfig
<1>3. IsFiniteSet(DOMAIN Graft(m, n, ps))  BY <1>1, <1>2, FS_Subset
<1> QED  BY <1>1, <1>3 DEF IsConfig

(* Deleting a path takes it away, leaves what is apart from it, and leaves *)
(* a configuration.                                                        *)
LEMMA DeleteTakes ==
  ASSUME NEW m, IsConfig(m), NEW p, IsPath(p), p # <<>>
  PROVE  /\ At(delete_path(m, p), p) = {}
         /\ IsConfig(delete_path(m, p))
         /\ \A q : IsPath(q) /\ Apart(p, q) => Same(delete_path(m, p), m, q)
<1> DEFINE left == DOMAIN m \ At(m, p)
           bare == {q \in {Front(p)} : /\ q # <<>> /\ Has(m, p)
                                       /\ \A r \in left : ~IsPrefix(q, r)}
           g    == [q \in left \union bare |-> IF q \in bare THEN Empty ELSE m[q]]
<1>1. delete_path(m, p) = g  BY DEF delete_path
<1>2. /\ IsPath(Front(p)) /\ ~IsPrefix(p, Front(p))
      /\ Front(p) # <<>> => Front(p)[1] = p[1]
  <2>1. Len(p) \in Nat /\ Len(p) >= 1  BY DEF IsPath
  <2>2. Front(p) \in Seq(Range(p)) /\ Len(Front(p)) = Len(p) - 1
    <3>1. p \in Seq(Range(p))  BY DEF IsPath
    <3>2. \A i \in 1..(Len(p) - 1) : p[i] \in Range(p)  BY <2>1, <3>1
    <3>3. Front(p) = [i \in 1..(Len(p) - 1) |-> p[i]]  BY <2>1, <3>1 DEF Front
    <3> QED  BY <2>1, <3>2, <3>3
  <2>3. Front(p) # <<>> => Front(p)[1] = p[1]  BY <2>1, <2>2 DEF Front, IsPath
  <2> QED  BY <2>1, <2>2, <2>3, SequencesArePaths DEF IsPrefix
<1>3. At(g, p) = {}  BY <1>2 DEF At
<1>4. IsConfig(g)
  <2>1. DOMAIN g \subseteq DOMAIN m \union {Front(p)}  OBVIOUS
  <2>2. IsFiniteSet(DOMAIN m \union {Front(p)})  BY FS_AddElement DEF IsConfig
  <2>3. IsFiniteSet(DOMAIN g)  BY <2>1, <2>2, FS_Subset
  <2> QED  BY <2>1, <2>3, <1>2 DEF IsConfig, IsPath
<1>5. ASSUME NEW q, IsPath(q), Apart(p, q) PROVE Same(g, m, q)
  <2>1. ASSUME NEW r \in DOMAIN m, IsPrefix(q, r) PROVE r \in left /\ r \notin bare
    <3>1. IsPath(r)  BY DEF IsConfig, IsPath
    <3>2. r # <<>> /\ r[1] = q[1]  BY <1>5, <2>1, <3>1, PrefixHead DEF Apart
    <3>3. ~IsPrefix(p, r)  BY <1>5, <3>1, <3>2, PrefixHead DEF Apart
    <3> QED  BY <1>2, <1>5, <3>2, <3>3 DEF At, Apart
  <2>2. ASSUME NEW r \in bare PROVE ~IsPrefix(q, r)
    BY <1>2, <1>5, PrefixHead DEF Apart
  <2>3. At(g, q) = At(m, q)  BY <2>1, <2>2 DEF At
  <2>4. \A r \in At(m, q) : g[r] = m[r]  BY <2>1 DEF At
  <2> HIDE DEF g
  <2> QED  BY <2>3, <2>4 DEF Same
<1> HIDE DEF g
<1> QED  BY <1>1, <1>3, <1>4, <1>5

LEMMA ReplaceSets ==
  ASSUME NEW m, IsConfig(m), NEW d, IsConfig(d), NEW p, IsPath(p), p # <<>>
  PROVE  /\ Same(replace_path(m, d, p), d, p) /\ IsConfig(replace_path(m, d, p))
         /\ \A q : IsPath(q) /\ Apart(p, q) => Same(replace_path(m, d, p), m, q)
<1>1. CASE Has(d, p)
  <2>1. replace_path(m, d, p) = Graft(m, d, {p})  BY <1>1 DEF replace_path
  <2>2. \A q : IsPath(q) /\ Apart(p, q) => Same(Graft(m, d, {p}), m, q)  BY GraftLeaves
  <2> QED  BY <2>1, <2>2, GraftPuts, GraftIsConfig
<1>2. CASE ~Has(d, p)
  <2>1. replace_path(m, d, p) = delete_path(m, p)  BY <1>2 DEF replace_path
  <2>2. Same(delete_path(m, p), d, p)  BY <1>2, DeleteTakes DEF Has, Same
  <2> QED  BY <2>1, <2>2, DeleteTakes
<1> QED  BY <1>1, <1>2

-----------------------------------------------------------------------------
(* The loops of the reconciler are folds, which the library defines over   *)
(* sets of indices: a fold is its sequence of intermediate results.        *)

(* A nonempty set of numbers has a least one.                              *)
LEMMA LeastNumber ==
  ASSUME NEW T \in SUBSET Nat, T # {}
  PROVE  \E n \in T : \A m \in T : n <= m
<1> DEFINE R == OpToRel(<, Nat)
<1>1. IsWellFoundedOn(R, Nat)  BY NatLessThanWellFounded
<1>2. \A x, y \in Nat : x < y => <<x, y>> \in R  BY DEF OpToRel
<1> HIDE DEF R
<1>3. PICK n \in T : \A m \in T : ~(<<m, n>> \in R)  BY <1>1, WFMin
<1>4. ASSUME NEW m \in T PROVE n <= m
  <2>1. ~(<<m, n>> \in R)  BY <1>3
  <2>2. ~(m < n)  BY <2>1, <1>2
  <2> QED  BY <2>2
<1> QED  BY <1>3, <1>4

(* One turn of either loop.                                                *)
Turn(w, m, p) == IF w.replaces THEN replace_path(m, w.desired, p)
                 ELSE reconcile_route(m, w.desired, p, w.main)
Turns(f, w, b, s, t) == IF t = {} THEN b ELSE Turn(w, f[t \ {Max(t)}], s[Max(t)])
AreTurns(f, w, b, s, n) == f = [t \in SUBSET (1..n) |-> Turns(f, w, b, s, t)]

LEMMA MaxIsIn ==
  ASSUME NEW n \in Nat, NEW t \in SUBSET (1..n), t # {}
  PROVE  Max(t) \in t /\ \A i \in t : i <= Max(t)
<1> DEFINE Above == {k \in Nat : \A i \in t : i <= k}
<1>1. n \in Above  OBVIOUS
<1>2. PICK k \in Above : \A j \in Above : k <= j  BY <1>1, LeastNumber
<1>3. k \in t
  <2> SUFFICES ASSUME k \notin t PROVE FALSE  OBVIOUS
  <2>1. PICK j : j \in t  OBVIOUS
  <2>2. \A i \in t : i \in Nat /\ i >= 1 /\ i <= k /\ i # k  BY <1>2
  <2>3. k \in Nat /\ k >= 1  BY <1>2, <2>1, <2>2
  <2>4. k - 1 \in Nat /\ \A i \in t : i <= k - 1  BY <2>2, <2>3
  <2>5. k - 1 \in Above  BY <2>4
  <2> QED  BY <1>2, <2>3, <2>5
<1>4. \E x \in t : \A y \in t : x >= y  BY <1>2, <1>3
<1> QED  BY <1>4 DEF Max

LEMMA TurnsExist ==
  ASSUME NEW n \in Nat, NEW w, NEW b, NEW s
  PROVE  \E f : AreTurns(f, w, b, s, n)
<1> DEFINE D == SUBSET (1..n)
           UpTo(k, f) == \A t \in D : Cardinality(t) <= k => f[t] = Turns(f, w, b, s, t)
           Bad == {k \in Nat : ~\E f : UpTo(k, f)}
<1>1. IsFiniteSet(1..n) /\ Cardinality(1..n) \in Nat  BY FS_Interval, FS_CardinalityType
<1>2. \A t \in D : IsFiniteSet(t) /\ Cardinality(t) \in Nat /\ Cardinality(t) <= Cardinality(1..n)
  BY <1>1, FS_Subset, FS_CardinalityType
<1>3. Bad = {}
  <2> SUFFICES ASSUME Bad # {} PROVE FALSE  OBVIOUS
  <2>1. PICK k \in Bad : \A j \in Bad : k <= j  BY LeastNumber
  <2>2. k # 0
    <3> DEFINE g == [t \in D |-> b]
    <3>1. \A t \in D : Cardinality(t) <= 0 => t = {}  BY <1>2, FS_EmptySet
    <3>2. \A t \in D : Cardinality(t) <= 0 => g[t] = Turns(g, w, b, s, t)  BY <3>1 DEF Turns
    <3>3. \E f : UpTo(0, f)  BY <3>2
    <3> QED  BY <3>3, <2>1
  <2>3. PICK f : UpTo(k - 1, f)
    <3>1. k - 1 \in Nat /\ ~(k <= k - 1)  BY <2>2
    <3>2. k - 1 \notin Bad  BY <3>1, <2>1
    <3> QED  BY <3>1, <3>2
  <2> DEFINE g == [t \in D |-> Turns(f, w, b, s, t)]
  <2>4. ASSUME NEW t \in D, Cardinality(t) <= k PROVE g[t] = Turns(g, w, b, s, t)
    <3>1. CASE t = {}  BY <3>1 DEF Turns
    <3>2. CASE t # {}
      <4> DEFINE r == t \ {Max(t)}
      <4>1. Max(t) \in t  BY <3>2, MaxIsIn
      <4>2. Cardinality(r) = Cardinality(t) - 1  BY <4>1, <1>2, FS_RemoveElement
      <4>3. r \in D /\ Cardinality(r) <= k - 1
        <5>1. Cardinality(t) \in Nat /\ Cardinality(t) <= k /\ k \in Nat  BY <1>2, <2>4
        <5>2. r \in D  OBVIOUS
        <5> HIDE DEF r, D
        <5> QED  BY <4>2, <5>1, <5>2
      <4>4. f[r] = Turns(f, w, b, s, r)  BY <4>3, <2>3
      <4>5. g[r] = f[r]  BY <4>3, <4>4
      <4>6. g[t] = Turn(w, f[r], s[Max(t)])  BY <3>2 DEF Turns
      <4>7. Turns(g, w, b, s, t) = Turn(w, g[r], s[Max(t)])  BY <3>2 DEF Turns
      <4> HIDE DEF g, r
      <4> QED  BY <4>5, <4>6, <4>7
    <3> QED  BY <3>1, <3>2
  <2>5. UpTo(k, g)  BY <2>4
  <2> QED  BY <2>1, <2>5
<1>4. PICK f : UpTo(Cardinality(1..n), f)  BY <1>1, <1>3
<1>5. \A t \in D : f[t] = Turns(f, w, b, s, t)  BY <1>2, <1>4
<1> DEFINE g == [t \in D |-> f[t]]
<1>6. ASSUME NEW t \in D PROVE g[t] = Turns(g, w, b, s, t)
  <2>1. CASE t = {}  BY <1>5, <2>1 DEF Turns
  <2>2. CASE t # {}
    <3>1. t \ {Max(t)} \in D  OBVIOUS
    <3>2. g[t \ {Max(t)}] = f[t \ {Max(t)}]  BY <3>1
    <3>3. g[t] = Turns(f, w, b, s, t)  BY <1>5
    <3> HIDE DEF g
    <3> QED  BY <2>2, <3>2, <3>3 DEF Turns
  <2> QED  BY <2>1, <2>2
<1>7. g = [t \in D |-> Turns(g, w, b, s, t)]
  <2>1. g = [t \in D |-> g[t]]  OBVIOUS
  <2> HIDE DEF g
  <2> QED  BY <1>6, <2>1
<1>8. AreTurns(g, w, b, s, n)  BY <1>7 DEF AreTurns
<1> QED  BY <1>8

LEMMA TurnByTurn ==
  ASSUME NEW n \in Nat, NEW w, NEW b, NEW s,
         NEW f, AreTurns(f, w, b, s, n)
  PROVE  f[1..0] = b /\ \A k \in 1..n : f[1..k] = Turn(w, f[1..(k - 1)], s[k])
<1>1. \A t \in SUBSET (1..n) : f[t] = Turns(f, w, b, s, t)
  <2>1. f = [t \in SUBSET (1..n) |-> Turns(f, w, b, s, t)]  BY DEF AreTurns
  <2> QED  BY <2>1
<1>2. f[1..0] = b
  <2>1. 1..0 = {}  OBVIOUS
  <2>2. f[{}] = Turns(f, w, b, s, {})  BY <1>1
  <2> QED  BY <2>1, <2>2 DEF Turns
<1>3. ASSUME NEW k \in 1..n PROVE f[1..k] = Turn(w, f[1..(k - 1)], s[k])
  <2>1. 1..k \in SUBSET (1..n) /\ 1..k # {} /\ k \in 1..k  OBVIOUS
  <2>2. Max(1..k) \in 1..k /\ k <= Max(1..k)  BY <2>1, MaxIsIn
  <2>3. Max(1..k) = k  BY <2>2
  <2>4. (1..k) \ {k} = 1..(k - 1)  OBVIOUS
  <2>5. f[1..k] = Turns(f, w, b, s, 1..k)  BY <1>1, <2>1
  <2> QED  BY <2>1, <2>3, <2>4, <2>5 DEF Turns
<1> QED  BY <1>2, <1>3

Replaced(b, d, s) == FoldLeft(LAMBDA m, p : replace_path(m, d, p), b, s)
Routed(b, d, s, main) == FoldLeft(LAMBDA m, p : reconcile_route(m, d, p, main), b, s)

Replaces(f, b, d, s, n) ==
  f[0] = b /\ \A k \in 1..n : f[k] = replace_path(f[k - 1], d, s[k])
Reroutes(f, b, d, s, main, n) ==
  f[0] = b /\ \A k \in 1..n : f[k] = reconcile_route(f[k - 1], d, s[k], main)

(* The loop over the owned sections.                                       *)
LEMMA ReplaceLoop ==
  ASSUME NEW d, NEW b, NEW s, NEW n \in Nat, DOMAIN s = 1..n
  PROVE  \E f : Replaces(f, b, d, s, n) /\ Replaced(b, d, s) = f[n]
<1> DEFINE w == [replaces |-> TRUE, desired |-> d, main |-> d]
           R(F) == F = [t \in SUBSET DOMAIN s |->
                          IF t = {} THEN b ELSE replace_path(F[t \ {Max(t)}], d, s[Max(t)])]
           C == CHOOSE F : R(F)
<1>1. \A m, p : Turn(w, m, p) = replace_path(m, d, p)  BY DEF Turn
<1>2. Replaced(b, d, s) = C[DOMAIN s]  BY DEF Replaced, FoldLeft, MapThenFoldSet
<1> HIDE DEF w
<1>3. PICK F : AreTurns(F, w, b, s, n)  BY TurnsExist
<1>4. R(F)  BY <1>1, <1>3 DEF AreTurns, Turns
<1>5. R(C)  BY <1>4
<1>6. AreTurns(C, w, b, s, n)  BY <1>1, <1>5 DEF AreTurns, Turns
<1> HIDE DEF C
<1>7. C[1..0] = b /\ \A k \in 1..n : C[1..k] = Turn(w, C[1..(k - 1)], s[k])
  BY <1>6, TurnByTurn
<1> DEFINE f == [k \in 0..n |-> C[1..k]]
<1>8. f[0] = b /\ f[n] = C[1..n]  BY <1>7
<1>9. \A k \in 1..n : f[k] = replace_path(f[k - 1], d, s[k])  BY <1>1, <1>7
<1>10. Replaces(f, b, d, s, n)  BY <1>8, <1>9 DEF Replaces
<1> QED  BY <1>2, <1>8, <1>10

(* The loop over the routes.                                               *)
LEMMA RouteLoop ==
  ASSUME NEW d, NEW main, NEW b, NEW s, NEW n \in Nat, DOMAIN s = 1..n
  PROVE  \E f : Reroutes(f, b, d, s, main, n) /\ Routed(b, d, s, main) = f[n]
<1> DEFINE w == [replaces |-> FALSE, desired |-> d, main |-> main]
           R(F) == F = [t \in SUBSET DOMAIN s |->
                          IF t = {} THEN b ELSE reconcile_route(F[t \ {Max(t)}], d, s[Max(t)], main)]
           C == CHOOSE F : R(F)
<1>1. \A m, p : Turn(w, m, p) = reconcile_route(m, d, p, main)  BY DEF Turn
<1>2. Routed(b, d, s, main) = C[DOMAIN s]  BY DEF Routed, FoldLeft, MapThenFoldSet
<1> HIDE DEF w
<1>3. PICK F : AreTurns(F, w, b, s, n)  BY TurnsExist
<1>4. R(F)  BY <1>1, <1>3 DEF AreTurns, Turns
<1>5. R(C)  BY <1>4
<1>6. AreTurns(C, w, b, s, n)  BY <1>1, <1>5 DEF AreTurns, Turns
<1> HIDE DEF C
<1>7. C[1..0] = b /\ \A k \in 1..n : C[1..k] = Turn(w, C[1..(k - 1)], s[k])
  BY <1>6, TurnByTurn
<1> DEFINE f == [k \in 0..n |-> C[1..k]]
<1>8. f[0] = b /\ f[n] = C[1..n]  BY <1>7
<1>9. \A k \in 1..n : f[k] = reconcile_route(f[k - 1], d, s[k], main)  BY <1>1, <1>7
<1>10. Reroutes(f, b, d, s, main, n)  BY <1>8, <1>9 DEF Reroutes
<1> QED  BY <1>2, <1>8, <1>10

-----------------------------------------------------------------------------
(* The image of a finite set, listed.                                      *)
LEMMA FiniteImage ==
  ASSUME NEW f, IsFiniteSet(DOMAIN f)
  PROVE  IsFiniteSet({f[x] : x \in DOMAIN f})
<1> DEFINE T == {f[x] : x \in DOMAIN f}
           g == [x \in DOMAIN f |-> f[x]]
<1>1. g \in Surjection(DOMAIN f, T)  BY DEF Surjection
<1> HIDE DEF g, T
<1>2. IsFiniteSet(T)  BY <1>1, FS_Surjection
<1> QED  BY <1>2 DEF T

LEMMA ListsTheSet ==
  ASSUME NEW S, IsFiniteSet(S)
  PROVE  /\ Cardinality(S) \in Nat /\ SetToSeq(S) \in [1..Cardinality(S) -> S]
         /\ IsInjective(SetToSeq(S))
<1>1. Cardinality(S) \in Nat /\ ExistsBijection(1..Cardinality(S), S)  BY FS_CardinalityType
<1>2. \E f \in [1..Cardinality(S) -> S] : IsInjective(f)
  BY <1>1 DEF ExistsBijection, Bijection, Injection
<1> QED  BY <1>1, <1>2 DEF SetToSeq

(* Paths that begin with different keys, none of them one of X.            *)
AreSections(s, X) ==
  \E n \in Nat : /\ DOMAIN s = 1..n
                 /\ \A i \in 1..n : IsPath(s[i]) /\ s[i] # <<>> /\ s[i][1] \notin X
                 /\ \A i, j \in 1..n : i # j => s[i][1] # s[j][1]

(* The keys under which the reconciler of a kind edits anything else.      *)
Shared(k) == CASE k = "hermes" -> {"agent", "model", "delegation", "auxiliary"}
               [] k \in {"claude-state", "codex"} -> {"projects"}
               [] OTHER -> {}

LEMMA ShortPaths ==
  /\ \A a : IsPath(<<a>>) /\ <<a>> # <<>> /\ <<a>>[1] = a
  /\ \A a, b : IsPath(<<a, b>>) /\ <<a, b>> # <<>> /\ <<a, b>>[1] = a
<1>1. ASSUME NEW a PROVE IsPath(<<a>>) /\ <<a>> # <<>> /\ <<a>>[1] = a
  BY DEF IsPath, Range
<1>2. ASSUME NEW a, NEW b PROVE IsPath(<<a, b>>) /\ <<a, b>> # <<>> /\ <<a, b>>[1] = a
  BY DEF IsPath, Range
<1> QED  BY <1>1, <1>2

LEMMA HermesSections == ASSUME NEW d PROVE AreSections(Owned("hermes", d), Shared("hermes"))
<1> DEFINE s == Owned("hermes", d)
<1>1. DOMAIN s = 1..17  BY DEF Owned
<1>2. \A i \in 1..17 : IsPath(s[i]) /\ s[i] # <<>> /\ s[i][1] \notin Shared("hermes")
  BY ShortPaths DEF Owned, Shared
<1>3. \A i, j \in 1..17 : i # j => s[i][1] # s[j][1]
  BY DEF Owned
<1> QED  BY <1>1, <1>2, <1>3 DEF AreSections

LEMMA OwnedAreSections ==
  ASSUME NEW k, NEW d, IsConfig(d)
  PROVE  AreSections(Owned(k, d), Shared(k))
<1>1. CASE k = "hermes"  BY <1>1, HermesSections
<1>2. CASE k = "claude-settings"
  <2> DEFINE s == Owned("claude-settings", d)
  <2>1. DOMAIN s = 1..5  BY DEF Owned
  <2>2. \A i \in 1..5 : IsPath(s[i]) /\ s[i] # <<>> /\ s[i][1] \notin Shared("claude-settings")
    BY ShortPaths DEF Owned, Shared
  <2>3. \A i, j \in 1..5 : i # j => s[i][1] # s[j][1]  BY DEF Owned
  <2> QED  BY <1>2, <2>1, <2>2, <2>3 DEF AreSections
<1>3. CASE k = "claude-marketplaces"
  <2> DEFINE S == {<<x>> : x \in Keys(d, <<>>)}
             s == SetToSeq(S)
  <2>1. Owned(k, d) = s  BY <1>3 DEF Owned
  <2>2. (\A q \in S : IsPath(q)) /\ IsFiniteSet(S)
    <3> DEFINE f == [q \in DOMAIN d \ {<<>>} |-> <<q[1]>>]
    <3>1. IsFiniteSet(DOMAIN f)  BY FS_Subset DEF IsConfig
    <3>2. IsFiniteSet({f[q] : q \in DOMAIN f})  BY <3>1, FiniteImage
    <3>3. At(d, <<>>) = DOMAIN d
      <4>1. ASSUME NEW q \in DOMAIN d PROVE IsPrefix(<<>>, q)
        <5>1. Len(q) \in Nat /\ SubSeq(q, 1, 0) = <<>>  BY DEF IsConfig, IsPath
        <5> QED  BY <5>1 DEF IsPrefix
      <4> QED  BY <4>1 DEF At
    <3>4. S = {f[q] : q \in DOMAIN f}  BY <3>3 DEF Keys
    <3>5. \A q \in DOMAIN f : IsPath(q) /\ q # <<>>  BY DEF IsConfig, IsPath
    <3>6. \A q \in DOMAIN f : IsPath(f[q])  BY ShortPaths
    <3> HIDE DEF f, S
    <3> QED  BY <3>2, <3>4, <3>6
  <2>3. /\ Cardinality(S) \in Nat /\ s \in [1..Cardinality(S) -> S] /\ IsInjective(s)
    BY <2>2, ListsTheSet
  <2>4. \A t \in S : t # <<>> /\ t = <<t[1]>>  OBVIOUS
  <2>5. Shared(k) = {}  BY <1>3 DEF Shared
  <2> HIDE DEF S, s
  <2>6. DOMAIN s = 1..Cardinality(S) /\ \A i \in 1..Cardinality(S) : s[i] \in S  BY <2>3
  <2>7. \A i, j \in 1..Cardinality(S) : i # j => s[i][1] # s[j][1]
    BY <2>3, <2>4, <2>6 DEF IsInjective
  <2> QED  BY <2>1, <2>2, <2>3, <2>4, <2>5, <2>6, <2>7 DEF AreSections
<1>4. CASE k = "claude-state"
  BY <1>4, ShortPaths DEF Owned, Shared, AreSections
<1>5. CASE k = "codex"
  <2> DEFINE s == Owned("codex", d)
  <2>1. DOMAIN s = 1..8  BY DEF Owned
  <2>2. \A i \in 1..8 : IsPath(s[i]) /\ s[i] # <<>> /\ s[i][1] \notin Shared("codex")
    BY ShortPaths DEF Owned, Shared
  <2>3. \A i, j \in 1..8 : i # j => s[i][1] # s[j][1]  BY DEF Owned
  <2> QED  BY <1>5, <2>1, <2>2, <2>3 DEF AreSections
<1>6. CASE k = "opencode"
  <2> DEFINE s == Owned("opencode", d)
  <2>1. DOMAIN s = 1..5  BY DEF Owned
  <2>2. \A i \in 1..5 : IsPath(s[i]) /\ s[i] # <<>> /\ s[i][1] \notin Shared("opencode")
    BY ShortPaths DEF Owned, Shared
  <2>3. \A i, j \in 1..5 : i # j => s[i][1] # s[j][1]  BY DEF Owned
  <2> QED  BY <1>6, <2>1, <2>2, <2>3 DEF AreSections
<1>7. CASE k \notin {"hermes", "claude-settings", "claude-marketplaces", "claude-state", "codex",
                    "opencode"}
  <2>1. Owned(k, d) = <<>>  BY <1>7 DEF Owned
  <2>2. DOMAIN <<>> = 1..0  OBVIOUS
  <2> QED  BY <2>1, <2>2 DEF AreSections
<1> QED  BY <1>1, <1>2, <1>3, <1>4, <1>5, <1>6, <1>7

(* The loop over the owned sections makes each of them the chart's, and    *)
(* leaves the rest.                                                        *)
Installs(m, b, d, s, n, X) ==
  /\ IsConfig(m)
  /\ \A i \in 1..n : Same(m, d, s[i])
  /\ \A q : IsPath(q) /\ q # <<>> /\ q[1] \in X => Same(m, b, q)

LEMMA SectionTurns ==
  ASSUME NEW d, IsConfig(d), NEW s, NEW X, NEW n \in Nat,
         \A i \in 1..n : IsPath(s[i]) /\ s[i] # <<>> /\ s[i][1] \notin X,
         \A i, j \in 1..n : i # j => s[i][1] # s[j][1],
         NEW f, IsConfig(f[0]), \A k \in 1..n : f[k] = replace_path(f[k - 1], d, s[k])
  PROVE  Installs(f[n], f[0], d, s, n, X)
<1> DEFINE Good(k) == Installs(f[k], f[0], d, s, k, X)
           Bad == {k \in Nat : k <= n /\ ~Good(k)}
<1>1. Good(0)  BY DEF Same, Installs
<1>2. ASSUME NEW k \in 1..n, Good(k - 1) PROVE Good(k)
  <2> USE DEF Installs
  <2>1. k - 1 \in 0..n /\ IsConfig(f[k - 1]) /\ IsPath(s[k]) /\ s[k] # <<>>  BY <1>2
  <2>2. f[k] = replace_path(f[k - 1], d, s[k])  OBVIOUS
  <2>3. /\ Same(f[k], d, s[k]) /\ IsConfig(f[k])
        /\ \A q : IsPath(q) /\ Apart(s[k], q) => Same(f[k], f[k - 1], q)
    BY <2>1, <2>2, ReplaceSets
  <2>4. ASSUME NEW i \in 1..(k - 1) PROVE Same(f[k], d, s[i])
    <3>1. i \in 1..n /\ i # k  OBVIOUS
    <3>2. IsPath(s[i]) /\ Apart(s[k], s[i])  BY <3>1 DEF Apart
    <3>3. Same(f[k], f[k - 1], s[i]) /\ Same(f[k - 1], d, s[i])  BY <1>2, <2>3, <3>2
    <3> QED  BY <3>3 DEF Same
  <2>5. ASSUME NEW q, IsPath(q), q # <<>>, q[1] \in X PROVE Same(f[k], f[0], q)
    <3>1. Apart(s[k], q)  BY <2>1, <2>5 DEF Apart
    <3>2. Same(f[k], f[k - 1], q) /\ Same(f[k - 1], f[0], q)  BY <1>2, <2>3, <2>5, <3>1
    <3> QED  BY <3>2 DEF Same
  <2> QED  BY <2>3, <2>4, <2>5
<1>3. Good(n)
  <2> SUFFICES ASSUME Bad # {} PROVE FALSE  OBVIOUS
  <2> HIDE DEF Good
  <2>1. PICK k \in Bad : \A j \in Bad : k <= j  BY LeastNumber
  <2>2. k \in 1..n /\ k - 1 \in 0..n /\ ~(k <= k - 1)  BY <1>1, <2>1
  <2>3. Good(k - 1)  BY <2>1, <2>2
  <2> QED  BY <1>2, <2>1, <2>2, <2>3
<1> QED  BY <1>3

LEMMA SectionLoop ==
  ASSUME NEW b, IsConfig(b), NEW d, IsConfig(d), NEW s, NEW X, AreSections(s, X)
  PROVE  /\ IsConfig(Replaced(b, d, s))
         /\ \A i \in DOMAIN s : Same(Replaced(b, d, s), d, s[i])
         /\ \A q : IsPath(q) /\ q # <<>> /\ q[1] \in X => Same(Replaced(b, d, s), b, q)
<1>1. PICK n \in Nat : /\ DOMAIN s = 1..n
                      /\ \A k \in 1..n : IsPath(s[k]) /\ s[k] # <<>> /\ s[k][1] \notin X
                      /\ \A i, j \in 1..n : i # j => s[i][1] # s[j][1]
  BY DEF AreSections
<1>2. DOMAIN s = 1..n  BY <1>1
<1>3. PICK f : Replaces(f, b, d, s, n) /\ Replaced(b, d, s) = f[n]  BY <1>2, ReplaceLoop
<1>4. f[0] = b /\ \A k \in 1..n : f[k] = replace_path(f[k - 1], d, s[k])  BY <1>3 DEF Replaces
<1>5. Installs(f[n], f[0], d, s, n, X)  BY <1>1, <1>4, SectionTurns
<1> QED  BY <1>2, <1>3, <1>4, <1>5 DEF Installs

-----------------------------------------------------------------------------
(* What edits only under the keys of X.                                    *)
Elsewhere(n, m, X) ==
  IsConfig(n) /\ \A p : IsPath(p) /\ p # <<>> /\ p[1] \notin X => Same(n, m, p)
Under(ps, X) == \A p \in ps : IsPath(p) /\ p # <<>> /\ p[1] \in X

LEMMA ElsewhereJoins ==
  ASSUME NEW X, NEW m, NEW n, NEW r, Elsewhere(n, m, X), Elsewhere(r, n, X)
  PROVE  Elsewhere(r, m, X)
BY DEF Elsewhere, Same

LEMMA GraftElsewhere ==
  ASSUME NEW m, IsConfig(m), NEW n, IsConfig(n), NEW ps, NEW X, Under(ps, X)
  PROVE  Elsewhere(Graft(m, n, ps), m, X)
<1>1. ASSUME NEW p, IsPath(p), p # <<>>, p[1] \notin X PROVE Same(Graft(m, n, ps), m, p)
  <2>1. \A r \in ps : IsPath(r) /\ Apart(r, p)  BY <1>1 DEF Under, Apart
  <2> QED  BY <1>1, <2>1, GraftLeaves
<1>2. IsConfig(Graft(m, n, ps))  BY GraftIsConfig
<1> QED  BY <1>1, <1>2 DEF Elsewhere

LEMMA LongerPath ==
  ASSUME NEW p, IsPath(p), p # <<>>, NEW x
  PROVE  IsPath(Append(p, x)) /\ Append(p, x) # <<>> /\ Append(p, x)[1] = p[1]
<1>1. p \in Seq(Range(p) \union {x}) /\ Len(p) \in Nat /\ Len(p) >= 1
  <2>1. p \in Seq(Range(p))  BY DEF IsPath
  <2>2. p \in [1..Len(p) -> Range(p) \union {x}] /\ Len(p) \in Nat  BY <2>1
  <2> QED  BY <2>1, <2>2
<1>2. Append(p, x) \in Seq(Range(p) \union {x}) /\ Append(p, x)[1] = p[1] /\ Len(Append(p, x)) = Len(p) + 1
  BY <1>1
<1>3. IsPath(Append(p, x))  BY <1>2, SequencesArePaths
<1> QED  BY <1>1, <1>2, <1>3

LEMMA MergeIsConfig ==
  ASSUME NEW m, IsConfig(m), NEW n, IsConfig(n)
  PROVE  IsConfig(deep_merge(m, n))
<1>1. DOMAIN deep_merge(m, n) \subseteq DOMAIN m \union DOMAIN n  BY DEF deep_merge
<1>2. IsFiniteSet(DOMAIN m \union DOMAIN n)  BY FS_Union DEF IsConfig
<1>3. IsFiniteSet(DOMAIN deep_merge(m, n))  BY <1>1, <1>2, FS_Subset
<1> QED  BY <1>1, <1>3 DEF IsConfig

LEMMA LeavesElsewhere ==
  ASSUME NEW m, IsConfig(m), NEW d, IsConfig(d), NEW e, IsConfig(e),
         NEW X, NEW p, IsPath(p), p # <<>>, p[1] \in X, NEW leaves
  PROVE  Elsewhere(preserve_mapping_leaves(m, d, e, p, leaves), m, X)
<1> DEFINE ks == {k \in {Append(p, l) : l \in leaves} : Has(e, k)}
           g  == Graft(m, d, {p})
<1>1. Under({p}, X) /\ Under(ks, X)
  <2>1. \A l : IsPath(Append(p, l)) /\ Append(p, l) # <<>> /\ Append(p, l)[1] \in X  BY LongerPath
  <2> QED  BY <2>1 DEF Under
<1> HIDE DEF ks
<1>2. Elsewhere(g, m, X)  BY <1>1, GraftElsewhere
<1>3. IsConfig(g)  BY <1>2 DEF Elsewhere
<1> HIDE DEF g
<1>4. Elsewhere(Graft(g, e, ks), m, X)  BY <1>1, <1>2, <1>3, GraftElsewhere, ElsewhereJoins
<1> QED  BY <1>4 DEF preserve_mapping_leaves, g, ks

-----------------------------------------------------------------------------
(* The routes of Hermes.  Routes are paths of which none extends another:  *)
(* what is done to one leaves the others alone.                            *)
Diverge(p, q) == ~IsPrefix(p, q) /\ ~IsPrefix(q, p)

LEMMA PrefixMeans ==
  ASSUME NEW p, IsPath(p), NEW q, IsPath(q)
  PROVE  IsPrefix(p, q) <=> Len(p) <= Len(q) /\ \A i \in 1..Len(p) : p[i] = q[i]
<1>1. Len(p) \in Nat /\ Len(q) \in Nat /\ p \in Seq(Range(p)) /\ q \in Seq(Range(q))
  BY DEF IsPath
<1>2. CASE Len(p) <= Len(q)
  <2>1. SubSeq(p, 1, Len(p)) = [i \in 1..Len(p) |-> p[i]]  BY <1>1
  <2>2. SubSeq(q, 1, Len(p)) = [i \in 1..Len(p) |-> q[i]]  BY <1>1, <1>2
  <2>3. IsPrefix(p, q) <=> [i \in 1..Len(p) |-> p[i]] = [i \in 1..Len(p) |-> q[i]]
    BY <1>2, <2>1, <2>2 DEF IsPrefix
  <2>4. ASSUME [i \in 1..Len(p) |-> p[i]] = [i \in 1..Len(p) |-> q[i]], NEW j \in 1..Len(p)
        PROVE  p[j] = q[j]
    <3> DEFINE f == [i \in 1..Len(p) |-> p[i]]
               g == [i \in 1..Len(p) |-> q[i]]
    <3>1. f[j] = g[j]  BY <2>4
    <3> QED  BY <3>1
  <2> QED  BY <1>2, <2>3, <2>4
<1>3. CASE ~(Len(p) <= Len(q))  BY <1>3 DEF IsPrefix
<1> QED  BY <1>2, <1>3

LEMMA PrefixSelf == ASSUME NEW p, IsPath(p) PROVE IsPrefix(p, p)
<1>1. Len(p) \in Nat  BY DEF IsPath
<1> QED  BY <1>1, PrefixMeans

LEMMA PrefixJoins ==
  ASSUME NEW p, IsPath(p), NEW q, IsPath(q), NEW r, IsPath(r), IsPrefix(p, q), IsPrefix(q, r)
  PROVE  IsPrefix(p, r)
<1>1. Len(p) \in Nat /\ Len(q) \in Nat /\ Len(r) \in Nat  BY DEF IsPath
<1> QED  BY <1>1, PrefixMeans

LEMMA PrefixesCompare ==
  ASSUME NEW p, IsPath(p), NEW q, IsPath(q), NEW r, IsPath(r), IsPrefix(p, r), IsPrefix(q, r)
  PROVE  ~Diverge(p, q)
<1>1. Len(p) \in Nat /\ Len(q) \in Nat /\ Len(r) \in Nat  BY DEF IsPath
<1> QED  BY <1>1, PrefixMeans DEF Diverge

LEMMA SameLengthDiverge ==
  ASSUME NEW p, IsPath(p), NEW q, IsPath(q), Len(p) = Len(q), p # q
  PROVE  Diverge(p, q)
<1>1. /\ Len(p) \in Nat /\ p \in [1..Len(p) -> Range(p)]
      /\ Len(q) \in Nat /\ q \in [1..Len(q) -> Range(q)]
  BY DEF IsPath
<1>2. \E i \in 1..Len(p) : p[i] # q[i]  BY <1>1
<1> QED  BY <1>2, PrefixMeans DEF Diverge

(* The keys of a route.                                                    *)
LEMMA KeyPaths ==
  ASSUME NEW p, IsPath(p), NEW x
  PROVE  /\ IsPath(Append(p, x)) /\ Len(Append(p, x)) = Len(p) + 1 /\ Last(Append(p, x)) = x
         /\ IsPrefix(p, Append(p, x)) /\ p # Append(p, x)
         /\ \A y : y # x => Diverge(Append(p, x), Append(p, y))
         /\ \A q : IsPath(q) /\ IsPrefix(q, Append(p, x)) /\ q # Append(p, x) => IsPrefix(q, p)
<1>1. p \in Seq(Range(p)) /\ Len(p) \in Nat  BY DEF IsPath
<1>2. ASSUME NEW y
      PROVE  /\ IsPath(Append(p, y)) /\ Len(Append(p, y)) = Len(p) + 1
             /\ Append(p, y)[Len(p) + 1] = y /\ \A i \in 1..Len(p) : Append(p, y)[i] = p[i]
  <2>1. p \in Seq(Range(p) \union {y})
    <3>1. p \in [1..Len(p) -> Range(p) \union {y}]  BY <1>1
    <3> QED  BY <1>1, <3>1
  <2>2. Append(p, y) \in Seq(Range(p) \union {y})  BY <2>1
  <2>3. Len(Append(p, y)) = Len(p) + 1 /\ \A i \in 1..Len(p) : Append(p, y)[i] = p[i]
    BY <1>1, <2>1
  <2>4. Append(p, y)[Len(p) + 1] = y  BY <1>1, <2>1
  <2> QED  BY <2>2, <2>3, <2>4, SequencesArePaths
<1> DEFINE a == Append(p, x)
<1>3. /\ IsPath(a) /\ Len(a) = Len(p) + 1 /\ a[Len(p) + 1] = x
      /\ \A i \in 1..Len(p) : a[i] = p[i]
  BY <1>2
<1>4. ASSUME NEW y, y # x PROVE Diverge(a, Append(p, y))
  <2> DEFINE b == Append(p, y)
  <2>1. IsPath(b) /\ Len(b) = Len(a) /\ b[Len(p) + 1] = y  BY <1>2, <1>3
  <2>2. a # b  BY <1>3, <1>4, <2>1
  <2> HIDE DEF a, b
  <2>3. Diverge(a, b)  BY <1>3, <2>1, <2>2, SameLengthDiverge
  <2> QED  BY <2>3 DEF b
<1> HIDE DEF a
<1>5. Last(a) = x  BY <1>3 DEF Last
<1>6. IsPrefix(p, a) /\ p # a  BY <1>1, <1>3, PrefixMeans
<1>7. ASSUME NEW q, IsPath(q), IsPrefix(q, a), q # a PROVE IsPrefix(q, p)
  <2>1. Len(q) # Len(a)  BY <1>3, <1>7, SameLengthDiverge DEF Diverge
  <2>2. Len(q) \in Nat  BY <1>7 DEF IsPath
  <2>3. Len(q) <= Len(a) /\ \A i \in 1..Len(q) : q[i] = a[i]  BY <1>3, <1>7, PrefixMeans
  <2>4. Len(q) <= Len(p) /\ \A i \in 1..Len(q) : q[i] = p[i]  BY <1>1, <1>3, <2>1, <2>2, <2>3
  <2> QED  BY <1>7, <2>4, PrefixMeans
<1> QED  BY <1>3, <1>4, <1>5, <1>6, <1>7 DEF a

(* Two configurations that agree at a path agree below it.                 *)
LEMMA SameBelow ==
  ASSUME NEW m, IsConfig(m), NEW n, IsConfig(n), NEW p, IsPath(p), Same(m, n, p),
         NEW q, IsPath(q), IsPrefix(p, q)
  PROVE  Same(m, n, q)
<1>1. ASSUME NEW k, IsConfig(k) PROVE At(k, q) = {r \in At(k, p) : IsPrefix(q, r)}
  BY <1>1, PrefixJoins DEF At, IsConfig
<1> QED  BY <1>1 DEF Same

(* A graft leaves what no path of it meets, and is exact at each.          *)
LEMMA GraftSpares ==
  ASSUME NEW m, IsConfig(m), NEW n, IsConfig(n), NEW ps, NEW p, IsPath(p),
         \A r \in ps : IsPath(r) /\ Diverge(r, p)
  PROVE  Same(Graft(m, n, ps), m, p)
<1> DEFINE new  == UNION {At(n, r) : r \in ps}
           kept == {q \in DOMAIN m : \A r \in ps : ~IsPrefix(r, q) /\ ~IsPrefix(q, r)}
           g    == [q \in kept \union new |-> IF q \in new THEN n[q] ELSE m[q]]
<1>1. ASSUME NEW q \in new, IsPrefix(p, q) PROVE FALSE
  <2>1. PICK r \in ps : q \in DOMAIN n /\ IsPrefix(r, q)  BY DEF At
  <2>2. IsPath(q) /\ IsPath(r) /\ Diverge(r, p)  BY <2>1 DEF IsConfig
  <2> QED  BY <1>1, <2>1, <2>2, PrefixesCompare
<1>2. ASSUME NEW q \in DOMAIN m, IsPrefix(p, q) PROVE q \in kept
  <2>1. ASSUME NEW r \in ps PROVE ~IsPrefix(r, q) /\ ~IsPrefix(q, r)
    <3>1. IsPath(q) /\ IsPath(r) /\ Diverge(r, p)  BY DEF IsConfig
    <3>2. ~IsPrefix(r, q)  BY <1>2, <3>1, PrefixesCompare
    <3>3. ~IsPrefix(q, r)  BY <1>2, <3>1, PrefixJoins DEF Diverge
    <3> QED  BY <3>2, <3>3
  <2> QED  BY <2>1
<1>3. At(g, p) = At(m, p)  BY <1>1, <1>2 DEF At
<1>4. \A q \in At(m, p) : g[q] = m[q]  BY <1>1, <1>2 DEF At
<1>5. Graft(m, n, ps) = g  BY DEF Graft
<1> HIDE DEF g
<1> QED  BY <1>3, <1>4, <1>5 DEF Same

LEMMA GraftPutsEach ==
  ASSUME NEW m, NEW n, IsConfig(n), NEW ps, NEW p \in ps, IsPath(p),
         \A r \in ps \ {p} : IsPath(r) /\ Diverge(r, p)
  PROVE  Same(Graft(m, n, ps), n, p)
<1> DEFINE new  == UNION {At(n, r) : r \in ps}
           kept == {q \in DOMAIN m : \A r \in ps : ~IsPrefix(r, q) /\ ~IsPrefix(q, r)}
           g    == [q \in kept \union new |-> IF q \in new THEN n[q] ELSE m[q]]
<1>1. \A q \in kept : ~IsPrefix(p, q)  OBVIOUS
<1>2. \A q \in new : q \in DOMAIN n  BY DEF At
<1>3. \A q \in At(n, p) : q \in new  OBVIOUS
<1>4. At(g, p) = At(n, p)  BY <1>1, <1>2, <1>3 DEF At
<1>5. \A q \in At(n, p) : g[q] = n[q]  BY <1>3
<1>6. Graft(m, n, ps) = g  BY DEF Graft
<1> HIDE DEF g
<1> QED  BY <1>4, <1>5, <1>6 DEF Same

(* What edits only at and below one path.                                  *)
Within(n, m, p) == IsConfig(n) /\ \A q : IsPath(q) /\ Diverge(p, q) => Same(n, m, q)

LEMMA WithinJoins ==
  ASSUME NEW p, NEW m, NEW n, NEW r, Within(n, m, p), Within(r, n, p)
  PROVE  Within(r, m, p)
BY DEF Within, Same

LEMMA GraftWithin ==
  ASSUME NEW m, IsConfig(m), NEW n, IsConfig(n), NEW p, IsPath(p), NEW ps,
         \A r \in ps : IsPath(r) /\ IsPrefix(p, r)
  PROVE  Within(Graft(m, n, ps), m, p)
<1>1. ASSUME NEW q, IsPath(q), Diverge(p, q) PROVE Same(Graft(m, n, ps), m, q)
  <2>1. ASSUME NEW r \in ps PROVE IsPath(r) /\ Diverge(r, q)
    <3>1. IsPath(r) /\ IsPrefix(p, r)  OBVIOUS
    <3>2. ~IsPrefix(r, q)  BY <1>1, <3>1, PrefixJoins DEF Diverge
    <3>3. ~IsPrefix(q, r)  BY <1>1, <3>1, PrefixesCompare
    <3> QED  BY <3>1, <3>2, <3>3 DEF Diverge
  <2> QED  BY <1>1, <2>1, GraftSpares
<1> QED  BY <1>1, GraftIsConfig DEF Within

(* reconcile_route in steps.                                               *)
Wanted(m, p, main) == IF Has(m, ProviderKey(p)) THEN m[ProviderKey(p)] ELSE main
Known(m, p, main) == Wanted(m, p, main) \in Keys(m, <<"providers">>)
Named(m, d, p, main) == IF Known(m, p, main) THEN Wanted(m, p, main)
                        ELSE IF Has(d, ProviderKey(p)) THEN d[ProviderKey(p)] ELSE main
FallsBack(m, d, p) == Graft(m, d, {k \in {Append(p, "default"), Append(p, "model")} : Has(d, k)})
Renamed(m, d, p, main) ==
  set_path(IF Known(m, p, main) THEN m ELSE FallsBack(m, d, p), ProviderKey(p), Named(m, d, p, main))
Connection(m, p, provider) == [q \in {Append(p, f) : f \in DOMAIN FieldOf} |->
                                 Get(m, <<"providers", provider, FieldOf[Last(q)]>>)]

LEMMA RouteInSteps ==
  ASSUME NEW m, NEW d, NEW p, NEW main
  PROVE  reconcile_route(m, d, p, main) =
           IF ~IsMapping(m, <<"providers", Named(m, d, p, main)>>)
           THEN IF Known(m, p, main) THEN m ELSE Renamed(m, d, p, main)
           ELSE LET fields == Connection(m, p, Named(m, d, p, main))
                IN  Graft(Renamed(m, d, p, main), fields, DOMAIN fields)
BY DEF reconcile_route, Wanted, Known, Named, FallsBack, Renamed, Connection, ProviderKey

LEMMA ThreeAreFinite == ASSUME NEW x, NEW y, NEW z PROVE IsFiniteSet({x, y, z})
<1>1. IsFiniteSet({x} \union {y}) /\ IsFiniteSet({z})  BY FS_Singleton, FS_Union
<1>2. IsFiniteSet(({x} \union {y}) \union {z})  BY <1>1, FS_Union
<1>3. {x, y, z} = ({x} \union {y}) \union {z}  OBVIOUS
<1> QED  BY <1>2, <1>3

LEMMA ConnectionIs ==
  ASSUME NEW m, NEW p, IsPath(p), NEW provider
  PROVE  LET c == Connection(m, p, provider)
         IN  /\ IsConfig(c) /\ DOMAIN c = {Append(p, f) : f \in DOMAIN FieldOf}
             /\ \A q \in DOMAIN c : IsPath(q) /\ IsPrefix(p, q)
             /\ \A f \in DOMAIN FieldOf : c[Append(p, f)] = Get(m, <<"providers", provider, FieldOf[f]>>)
<1> DEFINE c == Connection(m, p, provider)
<1>1. DOMAIN c = {Append(p, f) : f \in DOMAIN FieldOf}  BY DEF Connection
<1>2. DOMAIN FieldOf = {"base_url", "key_env", "api_mode"}  BY DEF FieldOf
<1> HIDE DEF c
<1>3. \A q \in DOMAIN c : IsPath(q) /\ IsPrefix(p, q)
  <2>1. \A x : IsPath(Append(p, x)) /\ IsPrefix(p, Append(p, x))  BY KeyPaths
  <2> QED  BY <1>1, <2>1
<1>4. IsFiniteSet(DOMAIN c)
  <2>1. DOMAIN c = {Append(p, "base_url"), Append(p, "key_env"), Append(p, "api_mode")}
    BY <1>1, <1>2
  <2>2. IsFiniteSet({Append(p, "base_url"), Append(p, "key_env"), Append(p, "api_mode")})
    BY ThreeAreFinite
  <2> QED  BY <2>1, <2>2
<1>5. ASSUME NEW f \in DOMAIN FieldOf
      PROVE  c[Append(p, f)] = Get(m, <<"providers", provider, FieldOf[f]>>)
  <2>1. Last(Append(p, f)) = f  BY KeyPaths
  <2> QED  BY <2>1 DEF Connection, c
<1>6. IsConfig(c)  BY <1>3, <1>4 DEF IsConfig
<1> QED  BY <1>1, <1>3, <1>5, <1>6 DEF c

LEMMA SetIs ==
  ASSUME NEW m, IsConfig(m), NEW p, IsPath(p), NEW v
  PROVE  /\ At(set_path(m, p, v), p) = {p} /\ set_path(m, p, v)[p] = v
         /\ Within(set_path(m, p, v), m, p)
<1> DEFINE n == [q \in {p} |-> v]
<1>1. DOMAIN n = {p} /\ n[p] = v  OBVIOUS
<1>2. IsConfig(n)  BY <1>1, FS_Singleton DEF IsConfig
<1>3. IsPrefix(p, p)  BY PrefixSelf
<1> HIDE DEF n
<1>4. At(n, p) = {p}  BY <1>1, <1>3 DEF At
<1>5. Same(Graft(m, n, {p}), n, p)  BY GraftPuts
<1>6. Within(Graft(m, n, {p}), m, p)  BY <1>2, <1>3, GraftWithin
<1>7. set_path(m, p, v) = Graft(m, n, {p})  BY DEF set_path, n
<1> QED  BY <1>1, <1>4, <1>5, <1>6, <1>7 DEF Same

LEMMA RenamedWithin ==
  ASSUME NEW m, IsConfig(m), NEW d, IsConfig(d), NEW p, IsPath(p), NEW main
  PROVE  /\ Within(FallsBack(m, d, p), m, p)
         /\ Within(Renamed(m, d, p, main), m, p)
<1>1. \A x : IsPath(Append(p, x)) /\ IsPrefix(p, Append(p, x))  BY KeyPaths
<1>2. Within(FallsBack(m, d, p), m, p)  BY <1>1, GraftWithin DEF FallsBack
<1>3. Within(m, m, p)  BY DEF Within, Same
<1> DEFINE b == IF Known(m, p, main) THEN m ELSE FallsBack(m, d, p)
<1>4. Within(b, m, p) /\ IsConfig(b)  BY <1>2, <1>3 DEF Within
<1> HIDE DEF b
<1>5. Within(set_path(b, ProviderKey(p), Named(m, d, p, main)), b, ProviderKey(p))
  BY <1>1, <1>4, SetIs DEF ProviderKey
<1>6. ASSUME NEW q, IsPath(q), Diverge(p, q) PROVE Diverge(ProviderKey(p), q)
  <2>1. ~IsPrefix(ProviderKey(p), q)  BY <1>1, <1>6, PrefixJoins DEF Diverge, ProviderKey
  <2>2. ~IsPrefix(q, ProviderKey(p))  BY <1>1, <1>6, PrefixesCompare DEF ProviderKey
  <2> QED  BY <2>1, <2>2 DEF Diverge
<1>7. Within(set_path(b, ProviderKey(p), Named(m, d, p, main)), b, p)
  BY <1>5, <1>6 DEF Within
<1> QED  BY <1>2, <1>4, <1>7, WithinJoins DEF Renamed, b

LEMMA RouteWithin ==
  ASSUME NEW m, IsConfig(m), NEW d, IsConfig(d), NEW p, IsPath(p), NEW main
  PROVE  Within(reconcile_route(m, d, p, main), m, p)
<1> DEFINE c == Connection(m, p, Named(m, d, p, main))
           n == Renamed(m, d, p, main)
<1>1. Within(m, m, p)  BY DEF Within, Same
<1>2. Within(n, m, p) /\ IsConfig(n)  BY RenamedWithin DEF Within
<1>3. IsConfig(c) /\ \A q \in DOMAIN c : IsPath(q) /\ IsPrefix(p, q)  BY ConnectionIs
<1> HIDE DEF n, c
<1>4. Within(Graft(n, c, DOMAIN c), m, p)  BY <1>2, <1>3, GraftWithin, WithinJoins
<1> QED  BY <1>1, <1>2, <1>4, RouteInSteps DEF n, c

LEMMA ProviderPaths ==
  /\ \A x : IsPath(<<x>>) /\ Len(<<x>>) = 1
  /\ \A x, y : IsPath(<<x, y>>) /\ Len(<<x, y>>) = 2 /\ IsPrefix(<<x>>, <<x, y>>)
  /\ \A x, y, z : IsPath(<<x, y, z>>) /\ IsPrefix(<<x>>, <<x, y, z>>)
<1>1. ASSUME NEW x PROVE IsPath(<<x>>) /\ Len(<<x>>) = 1  BY DEF IsPath, Range
<1>2. ASSUME NEW x, NEW y PROVE IsPath(<<x, y>>) /\ Len(<<x, y>>) = 2 /\ IsPrefix(<<x>>, <<x, y>>)
  <2>1. IsPath(<<x, y>>) /\ Len(<<x, y>>) = 2  BY DEF IsPath, Range
  <2> QED  BY <1>1, <2>1, PrefixMeans
<1>3. ASSUME NEW x, NEW y, NEW z PROVE IsPath(<<x, y, z>>) /\ IsPrefix(<<x>>, <<x, y, z>>)
  <2>1. IsPath(<<x, y, z>>) /\ Len(<<x, y, z>>) = 3  BY DEF IsPath, Range
  <2> QED  BY <1>1, <2>1, PrefixMeans
<1> QED  BY <1>1, <1>2, <1>3

(* A route is completed in its own section.                                *)
LEMMA RouteElsewhere ==
  ASSUME NEW m, IsConfig(m), NEW d, IsConfig(d), NEW p, IsPath(p), p # <<>>, NEW X, p[1] \in X,
         NEW main
  PROVE  Elsewhere(reconcile_route(m, d, p, main), m, X)
<1> DEFINE r == reconcile_route(m, d, p, main)
<1>1. Within(r, m, p)  BY RouteWithin
<1> HIDE DEF r
<1>2. \A q : IsPath(q) /\ q # <<>> /\ q[1] \notin X => Diverge(p, q)  BY PrefixHead DEF Diverge
<1>3. Elsewhere(r, m, X)  BY <1>1, <1>2 DEF Within, Elsewhere
<1> QED  BY <1>3 DEF r

(* The loop over the routes edits nothing but them.                        *)
LEMMA RouteTurns ==
  ASSUME NEW b, IsConfig(b), NEW d, IsConfig(d), NEW main, NEW s, NEW n \in Nat, NEW X,
         \A i \in 1..n : IsPath(s[i]) /\ s[i] # <<>> /\ s[i][1] \in X,
         NEW f, Reroutes(f, b, d, s, main, n)
  PROVE  Elsewhere(f[n], b, X)
<1> DEFINE Good(k) == Elsewhere(f[k], b, X)
           Bad == {k \in Nat : k <= n /\ ~Good(k)}
<1>1. f[0] = b /\ \A k \in 1..n : f[k] = reconcile_route(f[k - 1], d, s[k], main)  BY DEF Reroutes
<1>2. Good(0)  BY <1>1 DEF Elsewhere, Same
<1>3. ASSUME NEW k \in 1..n, Good(k - 1) PROVE Good(k)
  <2>1. IsConfig(f[k - 1]) /\ IsPath(s[k]) /\ s[k] # <<>> /\ s[k][1] \in X
    BY <1>3 DEF Elsewhere
  <2>2. Elsewhere(reconcile_route(f[k - 1], d, s[k], main), f[k - 1], X)  BY <2>1, RouteElsewhere
  <2>3. Elsewhere(f[k], f[k - 1], X)  BY <1>1, <2>2
  <2> QED  BY <1>3, <2>3, ElsewhereJoins
<1>4. Good(n)
  <2> SUFFICES ASSUME Bad # {} PROVE FALSE  OBVIOUS
  <2> HIDE DEF Good
  <2>1. PICK k \in Bad : \A j \in Bad : k <= j  BY LeastNumber
  <2>2. k \in 1..n /\ k - 1 \in 0..n /\ ~(k <= k - 1)  BY <1>2, <2>1
  <2>3. Good(k - 1)  BY <2>1, <2>2
  <2> QED  BY <1>3, <2>1, <2>2, <2>3
<1> QED  BY <1>4

LEMMA KeysAreFinite == ASSUME NEW m, IsConfig(m), NEW p PROVE IsFiniteSet(Keys(m, p))
<1> DEFINE f == [q \in At(m, p) \ {p} |-> q[Len(p) + 1]]
<1>1. DOMAIN f \subseteq DOMAIN m  BY DEF At
<1>2. IsFiniteSet(DOMAIN f)  BY <1>1, FS_Subset DEF IsConfig
<1>3. IsFiniteSet({f[x] : x \in DOMAIN f})  BY <1>2, FiniteImage
<1>4. Keys(m, p) = {f[x] : x \in DOMAIN f}  BY DEF Keys
<1> QED  BY <1>3, <1>4

LEMMA AuxIsFinite ==
  ASSUME NEW m, IsConfig(m)
  PROVE  /\ IsFiniteSet(Aux(m))
         /\ \A p \in Aux(m) : IsPath(p) /\ p # <<>> /\ p[1] = "auxiliary"
<1> DEFINE f == [k \in Keys(m, <<"auxiliary">>) |-> <<"auxiliary", k>>]
<1>1. IsFiniteSet(DOMAIN f)  BY KeysAreFinite
<1>2. IsFiniteSet({f[x] : x \in DOMAIN f})  BY <1>1, FiniteImage
<1>3. Aux(m) = {f[x] : x \in DOMAIN f}  BY DEF Aux
<1>4. \A p \in Aux(m) : IsPath(p) /\ p # <<>> /\ p[1] = "auxiliary"
  BY ShortPaths DEF Aux
<1> QED  BY <1>2, <1>3, <1>4

(* preserve_choices in steps: each stays in its own section.               *)
Both(n, d, e, p, leaves) ==
  IF IsMapping(d, p) /\ IsMapping(e, p) THEN preserve_mapping_leaves(n, d, e, p, leaves) ELSE n
MainLeaves == {"default", "provider", "context_length", "persist_switch_by_default"}
RouteLeaves == {"model", "provider", "context_length"}
Kept(d, e) == {k \in {Append(p, l) : p \in {q \in Aux(d) : IsMapping(d, q)}, l \in RouteLeaves} :
                 Has(e, k)}
AuxChoices(m, d, e) == IF IsMapping(d, <<"auxiliary">>)
                       THEN Graft(Graft(m, d, {<<"auxiliary">>}), e, Kept(d, e)) ELSE m

LEMMA BothElsewhere ==
  ASSUME NEW m, IsConfig(m), NEW d, IsConfig(d), NEW e, IsConfig(e), NEW x, NEW leaves
  PROVE  Elsewhere(Both(m, d, e, <<x>>, leaves), m, {x})
<1>1. IsPath(<<x>>) /\ <<x>> # <<>> /\ <<x>>[1] \in {x}  BY ShortPaths
<1>2. Elsewhere(preserve_mapping_leaves(m, d, e, <<x>>, leaves), m, {x})  BY <1>1, LeavesElsewhere
<1> QED  BY <1>2 DEF Both, Elsewhere, Same

LEMMA KeptIsAux ==
  ASSUME NEW d, IsConfig(d), NEW e, NEW r \in Kept(d, e)
  PROVE  \E k : \E l \in RouteLeaves :
            /\ r = Append(<<"auxiliary", k>>, l) /\ IsPath(r) /\ Len(r) = 3 /\ r # <<>>
            /\ r[1] = "auxiliary" /\ Has(e, r)
            /\ <<"auxiliary", k>> \in Aux(d) /\ IsMapping(d, <<"auxiliary", k>>)
<1>1. PICK p \in {q \in Aux(d) : IsMapping(d, q)}, l \in RouteLeaves : r = Append(p, l) /\ Has(e, r)
  BY DEF Kept
<1>2. PICK k : p = <<"auxiliary", k>>  BY <1>1 DEF Aux
<1>3. IsPath(p) /\ Len(p) = 2 /\ p # <<>> /\ p[1] = "auxiliary"  BY <1>2, ProviderPaths
<1>4. IsPath(r) /\ Len(r) = 3
  <2>1. IsPath(Append(p, l)) /\ Len(Append(p, l)) = Len(p) + 1  BY <1>3, KeyPaths
  <2> QED  BY <1>1, <1>3, <2>1
<1>5. r # <<>> /\ r[1] = "auxiliary"  BY <1>1, <1>3, LongerPath
<1> QED  BY <1>1, <1>2, <1>4, <1>5

LEMMA AuxElsewhere ==
  ASSUME NEW m, IsConfig(m), NEW d, IsConfig(d), NEW e, IsConfig(e)
  PROVE  Elsewhere(AuxChoices(m, d, e), m, {"auxiliary"})
<1>1. Under({<<"auxiliary">>}, {"auxiliary"})  BY ShortPaths DEF Under
<1>2. Under(Kept(d, e), {"auxiliary"})  BY KeptIsAux DEF Under
<1>3. Elsewhere(Graft(m, d, {<<"auxiliary">>}), m, {"auxiliary"})  BY <1>1, GraftElsewhere
<1>4. Elsewhere(Graft(Graft(m, d, {<<"auxiliary">>}), e, Kept(d, e)), m, {"auxiliary"})
  <2> DEFINE g == Graft(m, d, {<<"auxiliary">>})
  <2>1. IsConfig(g)  BY <1>3 DEF Elsewhere
  <2> HIDE DEF g
  <2>2. Elsewhere(Graft(g, e, Kept(d, e)), g, {"auxiliary"})  BY <1>2, <2>1, GraftElsewhere
  <2> QED  BY <1>3, <2>2, ElsewhereJoins DEF g
<1> QED  BY <1>4 DEF AuxChoices, Elsewhere, Same

LEMMA ChoicesInSteps ==
  ASSUME NEW m, IsConfig(m), NEW d, IsConfig(d), NEW e, IsConfig(e)
  PROVE  \E agent, model, deleg :
            /\ Elsewhere(agent, m, {"agent"})
            /\ model = Both(agent, d, e, <<"model">>, MainLeaves)
            /\ Elsewhere(model, agent, {"model"})
            /\ deleg = Both(model, d, e, <<"delegation">>, RouteLeaves)
            /\ Elsewhere(deleg, model, {"delegation"})
            /\ preserve_choices(m, d, e) = AuxChoices(deleg, d, e)
            /\ Elsewhere(AuxChoices(deleg, d, e), deleg, {"auxiliary"})
<1> DEFINE agent == IF IsMapping(d, <<"agent">>)
                    THEN preserve_mapping_leaves(m, d, e, <<"agent">>,
                             {"reasoning_effort", "service_tier", "system_prompt"})
                    ELSE m
           model == Both(agent, d, e, <<"model">>, MainLeaves)
           deleg == Both(model, d, e, <<"delegation">>, RouteLeaves)
<1>1. preserve_choices(m, d, e) = AuxChoices(deleg, d, e)
  BY DEF preserve_choices, AuxChoices, Both, Kept, MainLeaves, RouteLeaves
<1>2. Elsewhere(agent, m, {"agent"})
  <2>1. IsPath(<<"agent">>) /\ <<"agent">> # <<>> /\ <<"agent">>[1] \in {"agent"}  BY ShortPaths
  <2>2. \A leaves : Elsewhere(preserve_mapping_leaves(m, d, e, <<"agent">>, leaves), m, {"agent"})
    BY <2>1, LeavesElsewhere
  <2> QED  BY <2>2 DEF Elsewhere, Same
<1> HIDE DEF agent
<1>3. Elsewhere(model, agent, {"model"})  BY <1>2, BothElsewhere DEF Elsewhere
<1> HIDE DEF model
<1>4. Elsewhere(deleg, model, {"delegation"})  BY <1>3, BothElsewhere DEF Elsewhere
<1> HIDE DEF deleg
<1>5. Elsewhere(AuxChoices(deleg, d, e), deleg, {"auxiliary"})  BY <1>4, AuxElsewhere DEF Elsewhere
<1> QED  BY <1>1, <1>2, <1>3, <1>4, <1>5 DEF model, deleg

(* The choices of the user stay within their sections.                     *)
LEMMA ChoicesElsewhere ==
  ASSUME NEW m, IsConfig(m), NEW d, IsConfig(d), NEW e, IsConfig(e)
  PROVE  Elsewhere(preserve_choices(m, d, e), m, Shared("hermes"))
<1>1. \A x \in Shared("hermes") : \A n, r : Elsewhere(n, r, {x}) => Elsewhere(n, r, Shared("hermes"))
  BY DEF Elsewhere
<1>2. {"agent", "model", "delegation", "auxiliary"} \subseteq Shared("hermes")  BY DEF Shared
<1> QED  BY <1>1, <1>2, ChoicesInSteps, ElsewhereJoins

-----------------------------------------------------------------------------
(* reconcile_hermes, step by step.                                         *)
OwnedFirst(k, e, d) == Replaced(deep_merge(d, e), d, Owned(k, d))
Chosen(e, d) == preserve_choices(OwnedFirst("hermes", e, d), d, e)
FirstOf(d) == IF Has(d, <<"model", "provider">>) THEN d[<<"model", "provider">>] ELSE "anthropic"
ModelOnce(e, d) == reconcile_route(Chosen(e, d), d, <<"model">>, FirstOf(d))
MainOf(m, d) == IF Has(m, <<"model", "provider">>) THEN m[<<"model", "provider">>] ELSE FirstOf(d)
OtherRoutes(m, d) == {p \in {<<"delegation">>} \union Aux(m) :
                        IsMapping(m, p) /\ (p = <<"delegation">> => IsMapping(d, p))}
Completes(m, d) == \A p \in {<<"providers">>, <<"model">>} : IsMapping(m, p) /\ IsMapping(d, p)

LEMMA HermesInSteps ==
  ASSUME NEW e, NEW d
  PROVE  reconcile_hermes(e, d) =
           IF Completes(Chosen(e, d), d)
           THEN Routed(ModelOnce(e, d), d, SetToSeq(OtherRoutes(ModelOnce(e, d), d)),
                       MainOf(ModelOnce(e, d), d))
           ELSE Chosen(e, d)
BY DEF reconcile_hermes, OwnedFirst, Chosen, FirstOf, ModelOnce, MainOf, OtherRoutes, Completes,
       Replaced, Routed

LEMMA ReconcileInSteps ==
  ASSUME NEW k, NEW e, NEW d
  PROVE  Reconcile(k, e, d) =
    CASE k = "hermes"       -> reconcile_hermes(e, d)
      [] k = "claude-state" ->
            force_desired_mapping_leaves(OwnedFirst(k, e, d), d, "projects", "hasTrustDialogAccepted")
      [] k = "codex"        -> force_desired_mapping_leaves(OwnedFirst(k, e, d), d, "projects", "trust_level")
      [] OTHER              -> OwnedFirst(k, e, d)
BY DEF Reconcile, OwnedFirst, Replaced

LEMMA OwnedFirstIsExact ==
  ASSUME NEW k, NEW e, IsConfig(e), NEW d, IsConfig(d)
  PROVE  /\ IsConfig(OwnedFirst(k, e, d))
         /\ \A i \in DOMAIN Owned(k, d) : Same(OwnedFirst(k, e, d), d, Owned(k, d)[i])
         /\ \A q : IsPath(q) /\ q # <<>> /\ q[1] \in Shared(k)
                      => Same(OwnedFirst(k, e, d), deep_merge(d, e), q)
<1>1. IsConfig(deep_merge(d, e))  BY MergeIsConfig
<1>2. AreSections(Owned(k, d), Shared(k))  BY OwnedAreSections
<1> QED  BY <1>1, <1>2, SectionLoop DEF OwnedFirst

LEMMA ForceElsewhere ==
  ASSUME NEW m, IsConfig(m), NEW d, IsConfig(d), NEW X, NEW coll \in X, NEW leaf
  PROVE  Elsewhere(force_desired_mapping_leaves(m, d, coll, leaf), m, X)
<1> DEFINE ps == {p \in {<<coll, k, leaf>> : k \in Keys(d, <<coll>>)} : Has(d, p)}
<1>1. ASSUME NEW k PROVE IsPath(<<coll, k, leaf>>) /\ <<coll, k, leaf>> # <<>>
                         /\ <<coll, k, leaf>>[1] = coll
  BY DEF IsPath, Range
<1>2. Under(ps, X)  BY <1>1 DEF Under
<1> HIDE DEF ps
<1>3. Elsewhere(Graft(m, d, ps), m, X)  BY <1>2, GraftElsewhere
<1> QED  BY <1>3 DEF force_desired_mapping_leaves, ps

LEMMA HermesElsewhere ==
  ASSUME NEW e, IsConfig(e), NEW d, IsConfig(d)
  PROVE  Elsewhere(reconcile_hermes(e, d), OwnedFirst("hermes", e, d), Shared("hermes"))
<1> DEFINE X == Shared("hermes")
           b == OwnedFirst("hermes", e, d)
           c == Chosen(e, d)
           m == ModelOnce(e, d)
           S == OtherRoutes(m, d)
           s == SetToSeq(S)
           main == MainOf(m, d)
<1>1. {"model", "delegation", "auxiliary"} \subseteq X  BY DEF Shared
<1>2. IsConfig(b)  BY OwnedFirstIsExact
<1>3. Elsewhere(c, b, X)  BY <1>2, ChoicesElsewhere DEF Chosen
<1>4. IsConfig(c)  BY <1>3 DEF Elsewhere
<1>5. Elsewhere(m, c, X)
  <2>1. IsPath(<<"model">>) /\ <<"model">> # <<>> /\ <<"model">>[1] \in X  BY <1>1, ShortPaths
  <2> QED  BY <1>4, <2>1, RouteElsewhere DEF ModelOnce
<1>6. IsConfig(m) /\ Elsewhere(m, b, X)  BY <1>3, <1>5, ElsewhereJoins DEF Elsewhere
<1>7. IsFiniteSet(S) /\ \A p \in S : IsPath(p) /\ p # <<>> /\ p[1] \in X
  <2>1. IsFiniteSet({<<"delegation">>} \union Aux(m))
    BY <1>6, AuxIsFinite, FS_Singleton, FS_Union
  <2>2. \A p \in {<<"delegation">>} \union Aux(m) : IsPath(p) /\ p # <<>> /\ p[1] \in X
    BY <1>1, <1>6, AuxIsFinite, ShortPaths
  <2>3. S \subseteq {<<"delegation">>} \union Aux(m)  BY DEF OtherRoutes
  <2> QED  BY <2>1, <2>2, <2>3, FS_Subset
<1>8. /\ Cardinality(S) \in Nat /\ DOMAIN s = 1..Cardinality(S)
      /\ \A i \in 1..Cardinality(S) : s[i] \in S
  BY <1>7, ListsTheSet
<1> HIDE DEF X, b, c, m, S, s, main
<1>9. Elsewhere(Routed(m, d, s, main), b, X)
  <2>1. PICK f : Reroutes(f, m, d, s, main, Cardinality(S)) /\ Routed(m, d, s, main) = f[Cardinality(S)]
    BY <1>8, RouteLoop
  <2>2. \A i \in 1..Cardinality(S) : IsPath(s[i]) /\ s[i] # <<>> /\ s[i][1] \in X  BY <1>7, <1>8
  <2>3. Elsewhere(f[Cardinality(S)], m, X)  BY <1>6, <1>8, <2>1, <2>2, RouteTurns
  <2> QED  BY <1>6, <2>1, <2>3, ElsewhereJoins
<1>10. Elsewhere(reconcile_hermes(e, d), b, X)
  BY <1>3, <1>9, HermesInSteps DEF c, m, s, S, main
<1> QED  BY <1>10 DEF b, X

(* Whatever else a reconciler does, it does elsewhere.                     *)
LEMMA ReconcileElsewhere ==
  ASSUME NEW k, NEW e, IsConfig(e), NEW d, IsConfig(d)
  PROVE  Elsewhere(Reconcile(k, e, d), OwnedFirst(k, e, d), Shared(k))
<1>1. IsConfig(OwnedFirst(k, e, d))  BY OwnedFirstIsExact
<1>2. CASE k = "hermes"  BY <1>2, HermesElsewhere, ReconcileInSteps
<1>3. CASE k = "claude-state" \/ k = "codex"
  <2>1. "projects" \in Shared(k)  BY <1>3 DEF Shared
  <2>2. \A leaf : Elsewhere(force_desired_mapping_leaves(OwnedFirst(k, e, d), d, "projects", leaf),
                            OwnedFirst(k, e, d), Shared(k))
    BY <1>1, <2>1, ForceElsewhere
  <2>3. \E leaf : Reconcile(k, e, d) =
                    force_desired_mapping_leaves(OwnedFirst(k, e, d), d, "projects", leaf)
    BY <1>3, ReconcileInSteps
  <2> QED  BY <2>2, <2>3
<1>4. CASE k \notin {"hermes", "claude-state", "codex"}
  <2>1. Reconcile(k, e, d) = OwnedFirst(k, e, d)  BY <1>4, ReconcileInSteps
  <2> QED  BY <1>1, <2>1 DEF Elsewhere, Same
<1> QED  BY <1>2, <1>3, <1>4

LEMMA ReconcileOwns ==
  ASSUME NEW k, NEW e, IsConfig(e), NEW d, IsConfig(d)
  PROVE  /\ IsConfig(Reconcile(k, e, d))
         /\ \A i \in DOMAIN Owned(k, d) : Same(Reconcile(k, e, d), d, Owned(k, d)[i])
<1>1. Elsewhere(Reconcile(k, e, d), OwnedFirst(k, e, d), Shared(k))  BY ReconcileElsewhere
<1>2. AreSections(Owned(k, d), Shared(k))  BY OwnedAreSections
<1>3. ASSUME NEW i \in DOMAIN Owned(k, d) PROVE Same(Reconcile(k, e, d), d, Owned(k, d)[i])
  <2>1. IsPath(Owned(k, d)[i]) /\ Owned(k, d)[i] # <<>> /\ Owned(k, d)[i][1] \notin Shared(k)
    BY <1>2 DEF AreSections
  <2>2. Same(Reconcile(k, e, d), OwnedFirst(k, e, d), Owned(k, d)[i])  BY <1>1, <2>1 DEF Elsewhere
  <2>3. Same(OwnedFirst(k, e, d), d, Owned(k, d)[i])  BY OwnedFirstIsExact
  <2> QED  BY <2>2, <2>3 DEF Same
<1> QED  BY <1>1, <1>3 DEF Elsewhere

-----------------------------------------------------------------------------
LEMMA ConfigInitial == ConfigInit => ConfigInv
BY DEF ConfigInit, ConfigInv

LEMMA ConfigStep == ConfigInv /\ [ConfigNext]_configVars => ConfigInv'
<1> SUFFICES ASSUME ConfigInv, [ConfigNext]_configVars PROVE ConfigInv'  OBVIOUS
<1> USE DEF ConfigInv
<1>1. \A k \in Kinds : \A c \in Charts[k] \union Edits[k] : IsConfig(c)  BY ConfigsAssumption
<1>2. CASE Seed  BY <1>1, <1>2 DEF Seed
<1>3. CASE Write
  <2>1. IsConfig(existing)  BY <1>3 DEF Write, Loads, Unseeded
  <2> QED  BY <1>3, <2>1 DEF Write
<1>4. CASE Install
  <2>1. IsConfig(temporary)  BY <1>1, <1>4, ReconcileOwns DEF Install
  <2> QED  BY <1>4, <2>1 DEF Install
<1>5. CASE Crash
  <2>1. IsConfig(NoConfig)  BY FS_EmptySet DEF IsConfig, NoConfig
  <2>2. existing' \in {Absent, Torn} \/ IsConfig(existing')  BY <1>5, <2>1 DEF Crash
  <2> QED  BY <1>5, <2>2 DEF Crash
<1>6. CASE Edit
  <2>1. PICK c \in Edits[kind] : existing' = deep_merge(existing, c)  BY <1>6 DEF Edit
  <2>2. IsConfig(existing')  BY <1>1, <1>6, <2>1, MergeIsConfig DEF Edit
  <2> QED  BY <1>6, <2>2 DEF Edit
<1>7. CASE Restart  BY <1>7 DEF Restart
<1>8. CASE UNCHANGED configVars  BY <1>8 DEF configVars
<1> QED  BY <1>2, <1>3, <1>4, <1>5, <1>6, <1>7, <1>8 DEF ConfigNext

(* The invariant of the configuration file.                                *)
THEOREM ConfigInvariant == ConfigSpec => []ConfigInv
BY ConfigInitial, ConfigStep, PTL DEF ConfigSpec

(* Whatever the harness or its user wrote, every start that completes      *)
(* leaves each section the project owns exactly as the chart renders it:   *)
(* for any file, any chart, all seven kinds (reconcile_hermes to           *)
(* reconcile_opencode).                                                    *)
THEOREM OwnedIsAlwaysExact == ConfigSpec => OwnedIsExact
<1> DEFINE Act == Install => \A i \in DOMAIN Owned(kind, desired) :
                               Same(existing', desired, Owned(kind, desired)[i])
<1>1. ConfigInv /\ [ConfigNext]_configVars => [Act]_configVars
  <2> SUFFICES ASSUME ConfigInv, Install PROVE Act  OBVIOUS
  <2>1. IsConfig(desired) /\ IsConfig(existing) /\ existing' = Reconcile(kind, existing, desired)
    BY ConfigsAssumption DEF ConfigInv, Install
  <2> QED  BY <2>1, ReconcileOwns
<1> QED  BY <1>1, ConfigInvariant, PTL DEF ConfigSpec, OwnedIsExact

-----------------------------------------------------------------------------
(* A route that names a provider and a model, of a chart that does, ends   *)
(* with the provider and model of one of the two, and the connection of    *)
(* that provider.                                                          *)
From(m, d, p) == IF m[ProviderKey(p)] \in Keys(d, <<"providers">>) THEN m ELSE d
Connects(r, d, p) ==
  \A f \in DOMAIN FieldOf :
      Get(r, Append(p, f)) = Get(d, <<"providers", r[ProviderKey(p)], FieldOf[f]>>)

LEMMA RouteCompletes ==
  ASSUME NEW m, IsConfig(m), NEW d, IsConfig(d), NEW p, IsPath(p), NEW main,
         Same(m, d, <<"providers">>),
         \A k \in Keys(d, <<"providers">>) : IsMapping(d, <<"providers", k>>),
         d[ProviderKey(p)] \in Keys(d, <<"providers">>),
         \A c \in {m, d}, k \in {ProviderKey(p), ModelKey(p)} : At(c, k) = {k}
  PROVE  LET r == reconcile_route(m, d, p, main) IN
         /\ \A k \in {ProviderKey(p), ModelKey(p)} : At(r, k) = {k} /\ r[k] = From(m, d, p)[k]
         /\ Connects(r, d, p)
<1> DEFINE P == Keys(d, <<"providers">>)
           pk == ProviderKey(p)
           mk == ModelKey(p)
           r == reconcile_route(m, d, p, main)
           w == Named(m, d, p, main)
           n == Renamed(m, d, p, main)
           b == IF Known(m, p, main) THEN m ELSE FallsBack(m, d, p)
           c == Connection(m, p, w)
           ks == {k \in {Append(p, "default"), Append(p, "model")} : Has(d, k)}
<1>1. /\ \A x : IsPath(Append(p, x)) /\ IsPrefix(p, Append(p, x))
      /\ \A x, y : x # y => Diverge(Append(p, x), Append(p, y))
  BY KeyPaths
<1>2. /\ pk = Append(p, "provider") /\ mk \in {Append(p, "default"), Append(p, "model")}
      /\ IsPath(pk) /\ IsPath(mk) /\ Diverge(pk, mk)
  BY <1>1 DEF ProviderKey, ModelKey
<1>3. Wanted(m, p, main) = m[pk] /\ Has(d, pk)
  BY DEF Wanted, Has
<1>4. Keys(m, <<"providers">>) = P  BY DEF Keys, Same
<1>5. Known(m, p, main) <=> m[pk] \in P  BY <1>3, <1>4 DEF Known
<1>6. w = From(m, d, p)[pk] /\ w \in P  BY <1>3, <1>5 DEF Named, From
<1>7. IsConfig(b)  BY RenamedWithin DEF Within
<1>8. At(b, mk) = {mk} /\ b[mk] = From(m, d, p)[mk]
  <2>1. CASE Known(m, p, main)  BY <1>5, <2>1 DEF From
  <2>2. CASE ~Known(m, p, main)
    <3>1. mk \in ks  BY <1>2 DEF Has
    <3>2. ASSUME NEW k \in ks \ {mk} PROVE IsPath(k) /\ Diverge(k, mk)
      <4>1. \E x, y \in {"default", "model"} : k = Append(p, x) /\ mk = Append(p, y) /\ x # y
        BY <1>2
      <4> HIDE DEF ks, mk
      <4> QED  BY <1>1, <4>1
    <3> HIDE DEF ks
    <3>3. Same(Graft(m, d, ks), d, mk)  BY <1>2, <3>1, <3>2, GraftPutsEach
    <3>4. Same(b, d, mk)  BY <2>2, <3>3 DEF FallsBack, ks
    <3> QED  BY <1>5, <2>2, <3>4 DEF Same, From
  <2> QED  BY <2>1, <2>2
<1> HIDE DEF b
<1>9. n = set_path(b, pk, w)  BY DEF Renamed, b
<1> HIDE DEF n, w, pk, mk
<1>10. At(n, pk) = {pk} /\ n[pk] = w /\ IsConfig(n) /\ Same(n, b, mk)
  <2>1. /\ At(set_path(b, pk, w), pk) = {pk} /\ set_path(b, pk, w)[pk] = w
        /\ Within(set_path(b, pk, w), b, pk)
    <3>1. IsPath(pk)  BY <1>2
    <3>2. At(set_path(b, pk, w), pk) = {pk}  BY <1>7, <3>1, SetIs
    <3>3. set_path(b, pk, w)[pk] = w  BY <1>7, <3>1, SetIs
    <3>4. Within(set_path(b, pk, w), b, pk)  BY <1>7, <3>1, SetIs
    <3> QED  BY <3>2, <3>3, <3>4
  <2>2. Same(n, b, mk)  BY <1>2, <1>9, <2>1 DEF Within
  <2> QED  BY <1>9, <2>1, <2>2 DEF Within
<1> USE DEF pk, mk
<1> HIDE DEF n, w
<1>11. At(n, mk) = {mk} /\ n[mk] = From(m, d, p)[mk]  BY <1>8, <1>10 DEF Same
<1>12. /\ IsConfig(c) /\ DOMAIN c = {Append(p, f) : f \in DOMAIN FieldOf}
       /\ \A f \in DOMAIN FieldOf : c[Append(p, f)] = Get(m, <<"providers", w, FieldOf[f]>>)
  BY ConnectionIs
<1> HIDE DEF c
<1>13. r = Graft(n, c, DOMAIN c)
  <2>1. IsMapping(m, <<"providers", w>>)
    <3>1. IsMapping(d, <<"providers", w>>)  BY <1>6
    <3>2. Same(m, d, <<"providers", w>>)  BY ProviderPaths, SameBelow
    <3> QED  BY <3>1, <3>2 DEF IsMapping, Same
  <2> QED  BY <2>1, RouteInSteps DEF n, c, w
<1>14. DOMAIN FieldOf = {"base_url", "key_env", "api_mode"}  BY DEF FieldOf
<1>15. ASSUME NEW k \in {pk, mk} PROVE At(r, k) = {k} /\ r[k] = From(m, d, p)[k]
  <2>1. ASSUME NEW q \in DOMAIN c PROVE IsPath(q) /\ Diverge(q, k)
    <3>1. PICK f \in DOMAIN FieldOf : q = Append(p, f)  BY <1>12
    <3>2. PICK x \in {"provider", "default", "model"} : k = Append(p, x)  BY <1>2
    <3>3. f # x  BY <1>14
    <3> HIDE DEF pk, mk
    <3> QED  BY <1>1, <3>1, <3>2, <3>3
  <2>2. Same(Graft(n, c, DOMAIN c), n, k)  BY <1>2, <1>10, <1>12, <2>1, GraftSpares
  <2> QED  BY <1>6, <1>10, <1>11, <1>13, <2>2 DEF Same
<1>16. ASSUME NEW f \in DOMAIN FieldOf
       PROVE  Get(r, Append(p, f)) = Get(d, <<"providers", r[pk], FieldOf[f]>>)
  <2> DEFINE q == Append(p, f)
             x == <<"providers", w, FieldOf[f]>>
  <2>1. q \in DOMAIN c /\ IsPath(q) /\ \A y \in DOMAIN c \ {q} : IsPath(y) /\ Diverge(y, q)
    <3>1. q \in DOMAIN c /\ IsPath(q)  BY <1>1, <1>12
    <3>2. ASSUME NEW y \in DOMAIN c \ {q} PROVE IsPath(y) /\ Diverge(y, q)
      <4>1. PICK g \in DOMAIN FieldOf : y = Append(p, g)  BY <1>12
      <4>2. g # f  BY <4>1
      <4> QED  BY <1>1, <4>1, <4>2
    <3> QED  BY <3>1, <3>2
  <2>2. Same(Graft(n, c, DOMAIN c), c, q)  BY <1>12, <2>1, GraftPutsEach
  <2>3. IsPrefix(q, q)  BY <2>1, PrefixSelf
  <2>4. q \in DOMAIN r /\ r[q] = c[q]  BY <1>13, <2>1, <2>2, <2>3 DEF Same, At
  <2>5. Get(r, q) = Get(m, x)  BY <1>12, <2>4 DEF Get
  <2>6. IsPath(x) /\ IsPrefix(<<"providers">>, x)  BY ProviderPaths
  <2>7. Same(m, d, x)  BY <2>6, ProviderPaths, SameBelow
  <2> HIDE DEF x, q
  <2>8. IsPrefix(x, x)  BY <2>6, PrefixSelf
  <2>9. Get(m, x) = Get(d, x)  BY <2>7, <2>8 DEF Same, At, Get
  <2>10. r[pk] = w  BY <1>6, <1>15
  <2> QED  BY <2>5, <2>9, <2>10 DEF x, q
<1> QED  BY <1>15, <1>16 DEF Connects

-----------------------------------------------------------------------------
(* What is chosen at a route: each key is the file's if it has it, the     *)
(* chart's otherwise.                                                      *)
RouteKeys(p) == {ProviderKey(p), ModelKey(p)}
Chooses(c, d, e, p) == \A k \in RouteKeys(p) : Same(c, IF Has(e, k) THEN e ELSE d, k)

LEMMA LeavesPut ==
  ASSUME NEW m, IsConfig(m), NEW d, IsConfig(d), NEW e, IsConfig(e), NEW p, IsPath(p),
         NEW leaves, NEW l \in leaves
  PROVE  LET k == Append(p, l)
         IN  Same(preserve_mapping_leaves(m, d, e, p, leaves), IF Has(e, k) THEN e ELSE d, k)
<1> DEFINE k  == Append(p, l)
           g  == Graft(m, d, {p})
           ks == {q \in {Append(p, x) : x \in leaves} : Has(e, q)}
<1>1. preserve_mapping_leaves(m, d, e, p, leaves) = Graft(g, e, ks)
  BY DEF preserve_mapping_leaves
<1>2. IsPath(k) /\ IsPrefix(p, k)  BY KeyPaths
<1>3. ASSUME NEW q \in ks \ {k} PROVE IsPath(q) /\ Diverge(q, k)
  <2>1. PICK x \in leaves : q = Append(p, x)  OBVIOUS
  <2>2. x # l  BY <1>3, <2>1
  <2> HIDE DEF ks
  <2> QED  BY <2>1, <2>2, KeyPaths
<1>4. IsConfig(g)  BY GraftIsConfig
<1>5. CASE Has(e, k)
  <2>1. k \in ks  BY <1>5
  <2> HIDE DEF k, ks, g
  <2>2. Same(Graft(g, e, ks), e, k)  BY <1>2, <1>3, <2>1, GraftPutsEach
  <2> QED  BY <1>1, <1>5, <2>2 DEF k
<1>6. CASE ~Has(e, k)
  <2>1. k \notin ks  BY <1>6
  <2>2. Same(g, d, p)  BY GraftPuts
  <2> HIDE DEF k, ks, g
  <2>3. Same(Graft(g, e, ks), g, k)  BY <1>2, <1>3, <1>4, <2>1, GraftSpares
  <2>4. Same(g, d, k)  BY <1>2, <1>4, <2>2, SameBelow
  <2> QED  BY <1>1, <1>6, <2>3, <2>4 DEF k, Same
<1> QED  BY <1>5, <1>6

LEMMA BothPuts ==
  ASSUME NEW m, IsConfig(m), NEW d, IsConfig(d), NEW e, IsConfig(e), NEW p, IsPath(p),
         NEW leaves, \A k \in RouteKeys(p) : \E l \in leaves : k = Append(p, l),
         IsMapping(d, p), IsMapping(e, p)
  PROVE  Chooses(Both(m, d, e, p, leaves), d, e, p)
<1>1. ASSUME NEW k \in RouteKeys(p)
      PROVE  Same(preserve_mapping_leaves(m, d, e, p, leaves), IF Has(e, k) THEN e ELSE d, k)
  <2>1. PICK l \in leaves : k = Append(p, l)  OBVIOUS
  <2>2. Same(preserve_mapping_leaves(m, d, e, p, leaves),
             IF Has(e, Append(p, l)) THEN e ELSE d, Append(p, l))
    BY LeavesPut
  <2> QED  BY <2>1, <2>2
<1> QED  BY <1>1 DEF Both, Chooses

(* A route lies in a section of its own.                                   *)
IsRoute(p) == p = <<"model">> \/ p = <<"delegation">> \/ \E k : p = <<"auxiliary", k>>

LEMMA RoutePaths ==
  ASSUME NEW p, IsRoute(p)
  PROVE  /\ IsPath(p) /\ p # <<>> /\ p[1] \in {"model", "delegation", "auxiliary"}
         /\ Diverge(p, <<"providers">>)
         /\ \A k \in RouteKeys(p) :
               /\ IsPath(k) /\ k # <<>> /\ k[1] = p[1] /\ IsPrefix(p, k) /\ p # k
               /\ \A q : IsPath(q) /\ IsPrefix(q, k) /\ q # k => IsPrefix(q, p)
<1>1. IsPath(p) /\ p # <<>> /\ p[1] \in {"model", "delegation", "auxiliary"}
  BY ShortPaths DEF IsRoute
<1>2. IsPath(<<"providers">>) /\ <<"providers">>[1] = "providers"  BY ShortPaths
<1>3. Diverge(p, <<"providers">>)  BY <1>1, <1>2, PrefixHead DEF Diverge
<1>4. ASSUME NEW k \in RouteKeys(p) PROVE \E x : k = Append(p, x)
  BY DEF RouteKeys, ProviderKey, ModelKey
<1>5. ASSUME NEW k \in RouteKeys(p)
      PROVE  /\ IsPath(k) /\ k # <<>> /\ k[1] = p[1] /\ IsPrefix(p, k) /\ p # k
             /\ \A q : IsPath(q) /\ IsPrefix(q, k) /\ q # k => IsPrefix(q, p)
  <2>1. PICK x : k = Append(p, x)  BY <1>4
  <2>2. /\ IsPath(Append(p, x)) /\ IsPrefix(p, Append(p, x)) /\ p # Append(p, x)
        /\ \A q : IsPath(q) /\ IsPrefix(q, Append(p, x)) /\ q # Append(p, x) => IsPrefix(q, p)
    BY <1>1, KeyPaths
  <2>3. Append(p, x) # <<>> /\ Append(p, x)[1] = p[1]  BY <1>1, LongerPath
  <2> QED  BY <2>1, <2>2, <2>3
<1> QED  BY <1>1, <1>3, <1>5

(* A route that is no mapping has no keys.                                 *)
LEMMA NoKeys ==
  ASSUME NEW m, NEW p, IsRoute(p),
         IsConfig(m), ~IsMapping(m, p)
  PROVE  \A k \in RouteKeys(p) : At(m, k) = {}
<1>1. ASSUME NEW k \in RouteKeys(p), NEW q \in At(m, k) PROVE FALSE
  <2>1. IsPath(p) /\ IsPath(k) /\ IsPrefix(p, k) /\ p # k
        /\ \A r : IsPath(r) /\ IsPrefix(r, k) /\ r # k => IsPrefix(r, p)
    BY RoutePaths
  <2>2. IsPath(q) /\ q \in DOMAIN m /\ IsPrefix(k, q)  BY DEF At, IsConfig
  <2>3. IsPrefix(p, q)  BY <2>1, <2>2, PrefixJoins
  <2>4. q # p
    <3>1. Len(p) \in Nat /\ Len(k) \in Nat  BY <2>1 DEF IsPath
    <3>2. q = p => Diverge(p, k) \/ p = k  BY <2>1, <2>2, <3>1, PrefixMeans, SameLengthDiverge
    <3> QED  BY <2>1, <3>2 DEF Diverge
  <2> QED  BY <2>2, <2>3, <2>4 DEF At, IsMapping
<1> QED  BY <1>1

LEMMA SameKeys ==
  ASSUME NEW m, NEW n, IsConfig(m), IsConfig(n), NEW p,
         IsRoute(p),
         NEW X, Elsewhere(m, n, X), p[1] \notin X
  PROVE  Same(m, n, p) /\ \A k \in RouteKeys(p) : Same(m, n, k)
<1>1. /\ IsPath(p) /\ p # <<>>
      /\ \A k \in RouteKeys(p) : IsPath(k) /\ k # <<>> /\ k[1] = p[1]
  BY RoutePaths
<1> QED  BY <1>1 DEF Elsewhere

LEMMA ModelChosen ==
  ASSUME NEW m, IsConfig(m), NEW d, IsConfig(d), NEW e, IsConfig(e),
         IsMapping(d, <<"model">>), IsMapping(e, <<"model">>)
  PROVE  Chooses(preserve_choices(m, d, e), d, e, <<"model">>)
<1> DEFINE p == <<"model">>
           all == preserve_choices(m, d, e)
<1>1. PICK agent, model, deleg :
            /\ Elsewhere(agent, m, {"agent"})
            /\ model = Both(agent, d, e, p, MainLeaves)
            /\ Elsewhere(model, agent, {"model"})
            /\ Elsewhere(deleg, model, {"delegation"})
            /\ Elsewhere(all, deleg, {"auxiliary"})
  BY ChoicesInSteps
<1>2. IsConfig(agent) /\ IsConfig(model) /\ IsConfig(deleg) /\ IsConfig(all)  BY <1>1 DEF Elsewhere
<1>3. \A k \in RouteKeys(p) : \E l \in MainLeaves : k = Append(p, l)
  BY DEF RouteKeys, ProviderKey, ModelKey, MainLeaves
<1>4. IsRoute(p) /\ IsPath(p) /\ p[1] = "model"  BY ShortPaths DEF IsRoute
<1> HIDE DEF all
<1>5. Chooses(model, d, e, p)  BY <1>1, <1>2, <1>3, <1>4, BothPuts
<1>6. \A k \in RouteKeys(p) : Same(deleg, model, k)
  BY <1>1, <1>2, <1>4, SameKeys
<1>7. \A k \in RouteKeys(p) : Same(all, deleg, k)
  BY <1>1, <1>2, <1>4, SameKeys
<1> QED  BY <1>5, <1>6, <1>7 DEF Chooses, Same, all

LEMMA DelegationChosen ==
  ASSUME NEW m, IsConfig(m), NEW d, IsConfig(d), NEW e, IsConfig(e),
         IsMapping(d, <<"delegation">>),
         IsMapping(e, <<"delegation">>) \/ Same(m, d, <<"delegation">>) \/ ~IsMapping(m, <<"delegation">>),
         IsMapping(preserve_choices(m, d, e), <<"delegation">>)
  PROVE  Chooses(preserve_choices(m, d, e), d, e, <<"delegation">>)
<1> DEFINE p == <<"delegation">>
           all == preserve_choices(m, d, e)
<1>1. PICK agent, model, deleg :
            /\ Elsewhere(agent, m, {"agent"})
            /\ Elsewhere(model, agent, {"model"})
            /\ deleg = Both(model, d, e, <<"delegation">>, RouteLeaves)
            /\ Elsewhere(deleg, model, {"delegation"})
            /\ Elsewhere(all, deleg, {"auxiliary"})
  BY ChoicesInSteps
<1>2. IsConfig(agent) /\ IsConfig(model) /\ IsConfig(deleg) /\ IsConfig(all)  BY <1>1 DEF Elsewhere
<1>3. \A k \in RouteKeys(p) : \E l \in RouteLeaves : k = Append(p, l)
  BY DEF RouteKeys, ProviderKey, ModelKey, RouteLeaves
<1>4. IsRoute(p) /\ IsPath(p) /\ p[1] = "delegation"  BY ShortPaths DEF IsRoute
<1> HIDE DEF all
<1>5. Same(all, deleg, p) /\ \A k \in RouteKeys(p) : Same(all, deleg, k)
  BY <1>1, <1>2, <1>4, SameKeys
<1>6. CASE IsMapping(e, p)
  <2>1. Chooses(deleg, d, e, p)  BY <1>1, <1>2, <1>3, <1>4, <1>6, BothPuts
  <2> QED  BY <1>5, <2>1 DEF Chooses, Same, all
<1>7. CASE ~IsMapping(e, p)
  <2>1. deleg = model  BY <1>1, <1>7 DEF Both
  <2>2. Same(model, agent, p) /\ Same(agent, m, p)  BY <1>1, <1>2, <1>4, SameKeys
  <2>3. Same(all, m, p)  BY <1>5, <2>1, <2>2 DEF Same
  <2>4. IsMapping(m, p)  BY <2>3 DEF IsMapping, Same, all
  <2>5. Same(all, d, p)  BY <1>7, <2>3, <2>4 DEF Same
  <2>6. \A k \in RouteKeys(p) : Same(all, d, k)
    <3>1. \A k \in RouteKeys(p) : IsPath(k) /\ IsPrefix(p, k)  BY <1>4, RoutePaths
    <3> QED  BY <1>2, <1>4, <2>5, <3>1, SameBelow
  <2>7. \A k \in RouteKeys(p) : ~Has(e, k)  BY <1>2, <1>4, <1>7, NoKeys DEF Has
  <2> QED  BY <2>6, <2>7 DEF Chooses, all
<1> QED  BY <1>6, <1>7

(* A mapping in the auxiliary section is one of its routes.                *)
LEMMA AuxIs ==
  ASSUME NEW m, IsConfig(m), NEW x, IsMapping(m, <<"auxiliary", x>>)
  PROVE  <<"auxiliary", x>> \in Aux(m)
<1> DEFINE p == <<"auxiliary", x>>
           a == <<"auxiliary">>
<1>1. PICK q : q \in At(m, p)  BY DEF IsMapping
<1>2. IsPath(a) /\ IsPath(p) /\ Len(p) = 2 /\ Len(a) = 1 /\ IsPrefix(a, p)  BY ProviderPaths
<1>3. IsPath(q) /\ IsPrefix(p, q) /\ q \in DOMAIN m  BY <1>1 DEF At, IsConfig
<1> HIDE DEF a, p
<1>4. IsPrefix(a, q)  BY <1>2, <1>3, PrefixJoins
<1>5. Len(p) <= Len(q) /\ \A i \in 1..Len(p) : q[i] = p[i]  BY <1>2, <1>3, PrefixMeans
<1>6. Len(q) >= 2 /\ q[2] = x  BY <1>2, <1>5 DEF p
<1>7. q \in At(m, a) \ {a}
  <2>1. q # a  BY <1>2, <1>6
  <2> QED  BY <1>3, <1>4, <2>1 DEF At
<1> QED  BY <1>2, <1>6, <1>7 DEF Aux, Keys, a, p

LEMMA AuxChosen ==
  ASSUME NEW m, IsConfig(m), NEW d, IsConfig(d), NEW e, IsConfig(e), NEW x,
         IsMapping(d, <<"auxiliary">>),
         IsMapping(preserve_choices(m, d, e), <<"auxiliary", x>>)
  PROVE  /\ <<"auxiliary", x>> \in Aux(d) /\ IsMapping(d, <<"auxiliary", x>>)
         /\ Chooses(preserve_choices(m, d, e), d, e, <<"auxiliary", x>>)
<1> DEFINE p == <<"auxiliary", x>>
           a == <<"auxiliary">>
           all == preserve_choices(m, d, e)
<1>1. PICK deleg : IsConfig(deleg) /\ all = AuxChoices(deleg, d, e)
  BY ChoicesInSteps DEF Elsewhere
<1> DEFINE g == Graft(deleg, d, {a})
           ks == Kept(d, e)
<1>2. all = Graft(g, e, ks)  BY <1>1 DEF AuxChoices
<1>3. IsConfig(g)  BY <1>1, GraftIsConfig
<1>4. IsPath(a) /\ IsPath(p) /\ Len(p) = 2 /\ IsPrefix(a, p) /\ p[1] = "auxiliary"
  BY ProviderPaths, ShortPaths
<1>5. Same(g, d, a)  BY GraftPuts
<1> HIDE DEF g, all, a
<1>6. Same(g, d, p)  BY <1>3, <1>4, <1>5, SameBelow
<1>7. \A y : y # x => Diverge(<<"auxiliary", y>>, p)
  <2>1. ASSUME NEW y, y # x PROVE Diverge(<<"auxiliary", y>>, p)
    <3>1. IsPath(<<"auxiliary", y>>) /\ Len(<<"auxiliary", y>>) = 2 /\ <<"auxiliary", y>> # p
      BY <2>1, ProviderPaths
    <3> QED  BY <1>4, <3>1, SameLengthDiverge
  <2> QED  BY <2>1
<1>8. p \in Aux(d) /\ IsMapping(d, p)
  <2> SUFFICES ASSUME ~(p \in Aux(d) /\ IsMapping(d, p)) PROVE FALSE  OBVIOUS
  <2>1. ASSUME NEW r \in ks PROVE IsPath(r) /\ Diverge(r, p)
    <3>1. PICK y : \E l \in RouteLeaves :
            /\ r = Append(<<"auxiliary", y>>, l) /\ IsPath(r) /\ Len(r) = 3 /\ r # <<>>
            /\ r[1] = "auxiliary" /\ Has(e, r)
            /\ <<"auxiliary", y>> \in Aux(d) /\ IsMapping(d, <<"auxiliary", y>>)
      BY KeptIsAux, Zenon
    <3>2. y # x  BY <3>1
    <3>3. IsPath(<<"auxiliary", y>>) /\ IsPrefix(<<"auxiliary", y>>, r)
      BY <3>1, ProviderPaths, KeyPaths
    <3>4. Diverge(<<"auxiliary", y>>, p)  BY <1>7, <3>2
    <3> HIDE DEF p
    <3>5. ~IsPrefix(r, p)  BY <1>4, <3>1, <3>3, <3>4, PrefixJoins DEF Diverge
    <3>6. ~IsPrefix(p, r)  BY <1>4, <3>1, <3>3, <3>4, PrefixesCompare
    <3> QED  BY <3>1, <3>5, <3>6 DEF Diverge
  <2> HIDE DEF p, ks
  <2>2. Same(Graft(g, e, ks), g, p)  BY <1>3, <1>4, <2>1, GraftSpares
  <2>3. Same(all, d, p)  BY <1>2, <1>6, <2>2 DEF Same
  <2>4. IsMapping(d, p)  BY <2>3 DEF IsMapping, Same, all, p
  <2>5. p \in Aux(d)  BY <2>4, AuxIs DEF p
  <2> QED  BY <2>4, <2>5
<1>9. ASSUME NEW k \in RouteKeys(p) PROVE Same(all, IF Has(e, k) THEN e ELSE d, k)
  <2>1. PICK l \in RouteLeaves : k = Append(p, l)
    <3>1. p # <<"model">>  BY ProviderPaths
    <3> QED  BY <3>1 DEF RouteKeys, ProviderKey, ModelKey, RouteLeaves
  <2>2. IsPath(Append(p, l)) /\ IsPrefix(p, Append(p, l)) /\ Len(Append(p, l)) = 3
    BY <1>4, KeyPaths
  <2>3. IsPath(k) /\ IsPrefix(p, k) /\ Len(k) = 3  BY <2>1, <2>2
  <2>4. ASSUME NEW r \in ks \ {k} PROVE IsPath(r) /\ Diverge(r, k)
    <3>1. IsPath(r) /\ Len(r) = 3  BY KeptIsAux
    <3> QED  BY <2>3, <2>4, <3>1, SameLengthDiverge
  <2>5. CASE Has(e, k)
    <3> HIDE DEF p
    <3>1. k \in ks
      <4>1. p \in {u \in Aux(d) : IsMapping(d, u)}  BY <1>8
      <4>2. k \in {Append(q, y) : q \in {u \in Aux(d) : IsMapping(d, u)}, y \in RouteLeaves}
        BY <2>1, <4>1
      <4> QED  BY <2>5, <4>2 DEF Kept
    <3> HIDE DEF ks, p
    <3>2. Same(Graft(g, e, ks), e, k)  BY <2>3, <2>4, <3>1, GraftPutsEach
    <3> QED  BY <1>2, <2>5, <3>2
  <2>6. CASE ~Has(e, k)
    <3>1. k \notin ks  BY <2>6 DEF Kept
    <3> HIDE DEF ks, p
    <3>2. Same(Graft(g, e, ks), g, k)  BY <1>3, <2>3, <2>4, <3>1, GraftSpares
    <3>3. Same(g, d, k)  BY <1>3, <1>4, <1>6, <2>3, SameBelow
    <3> QED  BY <1>2, <2>6, <3>2, <3>3 DEF Same
  <2> QED  BY <2>5, <2>6
<1> QED  BY <1>8, <1>9 DEF Chooses, all

-----------------------------------------------------------------------------
(* A route, and what makes it whole.                                       *)
WholeAt(m, p) == \/ \A k \in RouteKeys(p) : At(m, k) = {}
                 \/ \A k \in RouteKeys(p) : At(m, k) = {k}

LEMMA WholeEverywhere ==
  ASSUME NEW m, IsConfig(m)
  PROVE  Whole(m) <=> \A p : IsRoute(p) => WholeAt(m, p)
<1>1. Whole(m) <=> \A p \in {<<"model">>, <<"delegation">>} \union Aux(m) : WholeAt(m, p)
  BY DEF Whole, WholeAt, RouteKeys
<1>2. \A p \in {<<"model">>, <<"delegation">>} \union Aux(m) : IsRoute(p)  BY DEF IsRoute, Aux
<1>3. ASSUME NEW p, IsRoute(p), p \notin {<<"model">>, <<"delegation">>} \union Aux(m)
      PROVE  WholeAt(m, p)
  <2>1. ~IsMapping(m, p)  BY <1>3, AuxIs DEF IsRoute
  <2>2. \A k \in RouteKeys(p) : At(m, k) = {}  BY <1>3, <2>1, NoKeys
  <2> QED  BY <2>2 DEF WholeAt
<1> QED  BY <1>1, <1>2, <1>3

LEMMA RoutesDiverge ==
  ASSUME NEW p, IsRoute(p), NEW q, IsRoute(q), p # q
  PROVE  Diverge(p, q)
<1>1. IsPath(p) /\ IsPath(q) /\ p # <<>> /\ q # <<>>  BY RoutePaths
<1>2. CASE p[1] # q[1]  BY <1>1, <1>2, PrefixHead DEF Diverge
<1>3. CASE p[1] = q[1]
  <2>1. Len(p) = Len(q)  BY <1>3, ProviderPaths, ShortPaths DEF IsRoute
  <2> QED  BY <1>1, <2>1, SameLengthDiverge
<1> QED  BY <1>2, <1>3

(* The chart's routes are whole, and of its catalog.                       *)
LEMMA RendersKeys ==
  ASSUME NEW d, IsConfig(d), RendersRoutes(d), NEW p \in Routes(d)
  PROVE  /\ IsRoute(p) /\ d[ProviderKey(p)] \in Keys(d, <<"providers">>)
         /\ \A k \in RouteKeys(p) : At(d, k) = {k}
<1>1. IsRoute(p)  BY DEF Routes, Aux, IsRoute
<1>2. ProviderOf(d, p) \in Keys(d, <<"providers">>) /\ ProviderOf(d, p) # Null
  BY DEF RendersRoutes
<1>3. ProviderKey(p) \in DOMAIN d /\ d[ProviderKey(p)] = ProviderOf(d, p)
  BY <1>2 DEF ProviderOf, Get
<1>4. ProviderKey(p) \in RouteKeys(p) /\ IsPath(ProviderKey(p))
  BY <1>1, RoutePaths DEF RouteKeys
<1>5. At(d, ProviderKey(p)) # {}  BY <1>3, <1>4, PrefixSelf DEF At
<1>6. WholeAt(d, p)  BY <1>1, WholeEverywhere DEF RendersRoutes
<1> QED  BY <1>1, <1>2, <1>3, <1>4, <1>5, <1>6 DEF WholeAt

LEMMA TwoKeys == ASSUME NEW x, NEW y PROVE Append(<<x>>, y) = <<x, y>>
<1> DEFINE p == <<x>>
           k == Append(p, y)
           r == <<x, y>>
<1>1. IsPath(p) /\ Len(p) = 1 /\ p[1] = x  BY ProviderPaths
<1>2. IsPath(r) /\ Len(r) = 2 /\ r[1] = x /\ r[2] = y  BY ProviderPaths
<1> HIDE DEF p, r
<1>3. IsPath(k) /\ Len(k) = 2 /\ Last(k) = y /\ IsPrefix(p, k)
  <2>1. /\ IsPath(Append(p, y)) /\ Len(Append(p, y)) = Len(p) + 1 /\ Last(Append(p, y)) = y
        /\ IsPrefix(p, Append(p, y))
    BY <1>1, KeyPaths
  <2> QED  BY <1>1, <2>1
<1> HIDE DEF k
<1>4. k[1] = x /\ k[2] = y  BY <1>1, <1>3, PrefixMeans DEF Last
<1>5. IsPrefix(k, r)  BY <1>2, <1>3, <1>4, PrefixMeans
<1>6. k = r  BY <1>2, <1>3, <1>5, SameLengthDiverge DEF Diverge
<1> QED  BY <1>6 DEF k, r, p

LEMMA ModelRendered ==
  ASSUME NEW d, IsConfig(d), RendersRoutes(d)
  PROVE  <<"model">> \in Routes(d) /\ RouteConfig(d) /\ IsMapping(d, <<"providers">>)
<1>1. <<"model">> \in Routes(d)  BY DEF Routes, RendersRoutes
<1>2. ProviderKey(<<"model">>) = <<"model", "provider">>  BY TwoKeys DEF ProviderKey
<1>3. d[<<"model", "provider">>] \in Keys(d, <<"providers">>) /\ At(d, <<"model", "provider">>) # {}
      /\ <<"model", "provider">> \in At(d, <<"model", "provider">>)
  BY <1>1, <1>2, RendersKeys DEF RouteKeys
<1>4. IsMapping(d, <<"providers">>)  BY <1>3 DEF Keys, IsMapping
<1> QED  BY <1>1, <1>3, <1>4 DEF RouteConfig, RendersRoutes, At

(* Merging the file into the chart leaves a section of the chart, unless   *)
(* the file has it.                                                        *)
LEMMA MergeLeaves ==
  ASSUME NEW d, IsConfig(d), NEW e, IsConfig(e), NEW p, IsPath(p), ~IsMapping(e, p)
  PROVE  Same(deep_merge(d, e), d, p) \/ ~IsMapping(deep_merge(d, e), p)
<1> DEFINE hidden == {q \in DOMAIN d : \E r \in DOMAIN e :
                         IsPrefix(q, r) \/ (IsPrefix(r, q) /\ e[r] # Empty)}
           taken  == {r \in DOMAIN e :
                         e[r] # Empty \/ \A q \in DOMAIN d : ~IsStrictPrefix(r, q)}
           m == [q \in (DOMAIN d \ hidden) \union taken |-> IF q \in taken THEN e[q] ELSE d[q]]
<1>1. deep_merge(d, e) = m  BY DEF deep_merge
<1>2. (\A q \in DOMAIN d : IsPath(q)) /\ (\A q \in DOMAIN e : IsPath(q))  BY DEF IsConfig
<1>3. \A r \in DOMAIN e : IsPrefix(p, r) => r = p /\ e[r] # Empty  BY DEF IsMapping, At
<1>4. IsPrefix(p, p)  BY PrefixSelf
<1>5. CASE \E r \in DOMAIN e : IsPrefix(r, p) /\ e[r] # Empty
  <2>1. \A q \in DOMAIN d : IsPrefix(p, q) => q \in hidden  BY <1>2, <1>5, PrefixJoins
  <2>2. \A q \in At(m, p) : q \in taken  BY <2>1 DEF At
  <2>3. \A q \in At(m, p) : q \in DOMAIN e /\ m[q] = e[q] /\ IsPrefix(p, q)  BY <2>2 DEF At
  <2> HIDE DEF m
  <2>4. ~IsMapping(m, p)  BY <1>3, <2>3 DEF IsMapping
  <2> QED  BY <1>1, <2>4
<1>6. CASE ~\E r \in DOMAIN e : IsPrefix(r, p) /\ e[r] # Empty
  <2>1. \A r \in DOMAIN e : ~IsPrefix(p, r)  BY <1>3, <1>4, <1>6
  <2>2. ASSUME NEW q \in DOMAIN d, IsPrefix(p, q) PROVE q \notin hidden
    <3>1. ASSUME NEW r \in DOMAIN e PROVE ~IsPrefix(q, r)  BY <1>2, <2>1, <2>2, PrefixJoins
    <3>2. ASSUME NEW r \in DOMAIN e, e[r] # Empty PROVE ~IsPrefix(r, q)
      BY <1>2, <1>6, <2>1, <2>2, <3>2, PrefixesCompare DEF Diverge
    <3> QED  BY <3>1, <3>2
  <2>3. \A q \in taken : ~IsPrefix(p, q)  BY <2>1
  <2>4. At(m, p) = At(d, p)  BY <2>2, <2>3 DEF At
  <2>5. \A q \in At(d, p) : m[q] = d[q]  BY <2>2, <2>3 DEF At
  <2> HIDE DEF m
  <2> QED  BY <1>1, <2>4, <2>5 DEF Same
<1> QED  BY <1>5, <1>6

(* Before they are completed, the routes are the file's or the chart's.    *)
LEMMA RouteChosen ==
  ASSUME NEW e, IsConfig(e), RouteConfig(e), NEW d, IsConfig(d), RendersRoutes(d), NEW p, IsRoute(p),
         IsMapping(Chosen(e, d), p)
  PROVE  p \in Routes(d) /\ Chooses(Chosen(e, d), d, e, p)
<1> DEFINE o == OwnedFirst("hermes", e, d)
<1>1. IsConfig(o)  BY OwnedFirstIsExact
<1>2. Chosen(e, d) = preserve_choices(o, d, e)  BY DEF Chosen
<1>3. \A s \in {"model", "delegation", "auxiliary"} : IsMapping(d, <<s>>)  BY DEF RendersRoutes
<1>4. CASE p = <<"model">>
  <2>1. IsMapping(e, <<"model">>)
    <3>1. <<"model", "provider">> \in DOMAIN e /\ IsPrefix(<<"model">>, <<"model", "provider">>)
      BY ProviderPaths DEF RouteConfig
    <3> QED  BY <3>1 DEF IsMapping, At
  <2> QED  BY <1>1, <1>2, <1>3, <1>4, <2>1, ModelChosen DEF Routes
<1>5. CASE p = <<"delegation">>
  <2>1. IsPath(p) /\ p # <<>> /\ p[1] \in Shared("hermes")  BY <1>5, ShortPaths DEF Shared
  <2>2. Same(o, deep_merge(d, e), p)  BY <2>1, OwnedFirstIsExact
  <2> HIDE DEF o
  <2>3. IsMapping(e, p) \/ Same(deep_merge(d, e), d, p) \/ ~IsMapping(deep_merge(d, e), p)
    BY <2>1, MergeLeaves
  <2>4. IsMapping(e, p) \/ Same(o, d, p) \/ ~IsMapping(o, p)
    BY <2>2, <2>3 DEF Same, IsMapping
  <2> QED  BY <1>1, <1>2, <1>3, <1>5, <2>4, DelegationChosen DEF Routes
<1>6. CASE \E x : p = <<"auxiliary", x>>
  <2>1. PICK x : p = <<"auxiliary", x>>  BY <1>6
  <2> HIDE DEF o
  <2> QED  BY <1>1, <1>2, <1>3, <2>1, AuxChosen DEF Routes
<1> QED  BY <1>4, <1>5, <1>6 DEF IsRoute

-----------------------------------------------------------------------------
(* What RoutesHold says of one route of the new file.                      *)
Done(r, e, d, p) ==
  LET from == IF ProviderOf(e, p) \in Keys(d, <<"providers">>) THEN e ELSE d
  IN  /\ \A k \in RouteKeys(p) : At(r, k) = {k} /\ k \in DOMAIN r
      /\ ProviderOf(r, p) \in Keys(d, <<"providers">>)
      /\ Connects(r, d, p)
      /\ ProviderOf(r, p) = ProviderOf(from, p)
      /\ ModelOf(r, p) = ModelOf(from, p)

LEMMA TurnCompletes ==
  ASSUME NEW e, IsConfig(e), RouteConfig(e), NEW d, IsConfig(d), RendersRoutes(d), NEW p, IsRoute(p),
         IsMapping(Chosen(e, d), p),
         NEW m, IsConfig(m), Same(m, Chosen(e, d), p), IsConfig(Chosen(e, d)),
         Same(m, d, <<"providers">>), NEW main
  PROVE  Done(reconcile_route(m, d, p, main), e, d, p)
<1> DEFINE P == Keys(d, <<"providers">>)
           pk == ProviderKey(p)
           mk == ModelKey(p)
           c == Chosen(e, d)
           r == reconcile_route(m, d, p, main)
<1>1. RouteKeys(p) = {pk, mk}  BY DEF RouteKeys
<1>2. IsPath(p) /\ \A k \in RouteKeys(p) : IsPath(k) /\ IsPrefix(p, k)  BY RoutePaths
<1>3. p \in Routes(d) /\ \A k \in RouteKeys(p) : Same(c, IF Has(e, k) THEN e ELSE d, k)
  BY RouteChosen DEF Chooses
<1>4. d[pk] \in P /\ \A k \in RouteKeys(p) : At(d, k) = {k}  BY <1>3, RendersKeys
<1>5. WholeAt(e, p)  BY WholeEverywhere DEF RouteConfig
<1>6. \A k \in RouteKeys(p) : Same(m, c, k)  BY <1>2, SameBelow
<1>7. Null \notin P /\ \A k \in P : IsMapping(d, <<"providers", k>>)  BY DEF RendersRoutes
<1> HIDE DEF c, r, P
<1>8. PICK s \in {e, d} :
         /\ \A k \in RouteKeys(p) : At(m, k) = {k} /\ m[k] = s[k] /\ At(s, k) = {k}
         /\ s # e => \A k \in RouteKeys(p) : At(e, k) = {}
  <2>1. CASE \A k \in RouteKeys(p) : At(e, k) = {}
    <3>1. \A k \in RouteKeys(p) : Same(m, d, k)  BY <1>3, <1>6, <2>1 DEF Has, Same
    <3>2. \A k \in RouteKeys(p) : At(m, k) = {k} /\ m[k] = d[k]  BY <1>4, <3>1 DEF Same
    <3> QED  BY <1>4, <2>1, <3>2
  <2>2. CASE \A k \in RouteKeys(p) : At(e, k) = {k}
    <3>1. \A k \in RouteKeys(p) : Same(m, e, k)  BY <1>3, <1>6, <2>2 DEF Has, Same
    <3>2. \A k \in RouteKeys(p) : At(m, k) = {k} /\ m[k] = e[k]  BY <2>2, <3>1 DEF Same
    <3> QED  BY <2>2, <3>2
  <2> QED  BY <1>5, <2>1, <2>2 DEF WholeAt
<1>9. \A k \in RouteKeys(p) : At(m, k) = {k} /\ At(d, k) = {k}  BY <1>4, <1>8
<1>10. /\ \A k \in {pk, mk} : At(r, k) = {k} /\ r[k] = From(m, d, p)[k]
       /\ Connects(r, d, p)
  <2>1. \A k \in Keys(d, <<"providers">>) : IsMapping(d, <<"providers", k>>)  BY <1>7 DEF P
  <2>2. d[ProviderKey(p)] \in Keys(d, <<"providers">>)  BY <1>4 DEF P
  <2>3. \A n \in {m, d}, k \in {ProviderKey(p), ModelKey(p)} : At(n, k) = {k}  BY <1>1, <1>9
  <2> QED  BY <1>2, <2>1, <2>2, <2>3, RouteCompletes DEF r
<1>11. \A n : \A k : At(n, k) = {k} => k \in DOMAIN n /\ Get(n, k) = n[k]  BY DEF At, Get
<1>12. \A n : ProviderOf(n, p) = Get(n, pk) /\ ModelOf(n, p) = Get(n, mk)
  BY DEF ProviderOf, ModelOf
<1> HIDE DEF pk, mk
<1>13. From(m, d, p) = IF m[pk] \in P THEN m ELSE d  BY DEF From, P, pk
<1> DEFINE from == IF ProviderOf(e, p) \in P THEN e ELSE d
           Chose == /\ ProviderOf(r, p) \in P
                    /\ ProviderOf(r, p) = ProviderOf(from, p) /\ ModelOf(r, p) = ModelOf(from, p)
<1>14. ASSUME s = e PROVE Chose
  <2>1. At(m, pk) = {pk} /\ At(e, pk) = {pk} /\ m[pk] = e[pk] /\ m[mk] = e[mk] /\ At(e, mk) = {mk}
        /\ At(d, pk) = {pk} /\ At(d, mk) = {mk}
    BY <1>1, <1>8, <1>9, <1>14
  <2>2. ProviderOf(e, p) = e[pk] /\ ModelOf(e, p) = e[mk] /\ ProviderOf(d, p) = d[pk]
        /\ ModelOf(d, p) = d[mk]
    BY <1>11, <1>12, <2>1
  <2>3. ProviderOf(r, p) = r[pk] /\ ModelOf(r, p) = r[mk]  BY <1>10, <1>11, <1>12
  <2>4. d[pk] \in P  BY <1>4 DEF pk
  <2> QED  BY <1>10, <1>13, <2>1, <2>2, <2>3, <2>4
<1>15. ASSUME s # e PROVE Chose
  <2>1. At(d, pk) = {pk} /\ At(d, mk) = {mk} /\ m[pk] = d[pk] /\ m[mk] = d[mk] /\ At(e, pk) = {}
    BY <1>1, <1>8, <1>9, <1>15
  <2>2. ProviderOf(e, p) = Null
    <3>1. pk \notin DOMAIN e  BY <1>1, <1>2, <2>1, PrefixSelf DEF At
    <3> QED  BY <1>12, <3>1 DEF Get
  <2>3. ProviderOf(d, p) = d[pk] /\ ModelOf(d, p) = d[mk]  BY <1>11, <1>12, <2>1
  <2>4. ProviderOf(r, p) = r[pk] /\ ModelOf(r, p) = r[mk]  BY <1>10, <1>11, <1>12
  <2>5. r[pk] = d[pk] /\ r[mk] = d[mk]  BY <1>10, <1>13, <2>1
  <2>6. d[pk] \in P  BY <1>4 DEF pk
  <2> QED  BY <1>7, <2>2, <2>3, <2>4, <2>5, <2>6
<1>16. \A k \in RouteKeys(p) : At(r, k) = {k} /\ k \in DOMAIN r  BY <1>1, <1>10, <1>11
<1>17. Chose  BY <1>14, <1>15
<1> QED  BY <1>10, <1>16, <1>17 DEF Done, P, r

LEMMA DoneStays ==
  ASSUME NEW m, IsConfig(m), NEW n, IsConfig(n), NEW e, NEW d, NEW p, IsRoute(p), Done(m, e, d, p),
         Same(n, m, p)
  PROVE  Done(n, e, d, p)
<1>1. IsPath(p) /\ \A k \in RouteKeys(p) : IsPath(k) /\ IsPrefix(p, k)  BY RoutePaths
<1>2. \A x : IsPath(Append(p, x)) /\ IsPrefix(p, Append(p, x))  BY <1>1, KeyPaths
<1>3. \A q : IsPrefix(p, q) => Get(n, q) = Get(m, q) /\ (q \in DOMAIN n <=> q \in DOMAIN m)
                               /\ (q \in DOMAIN m => n[q] = m[q])
  BY DEF Same, At, Get
<1>4. \A k \in RouteKeys(p) : At(n, k) = At(m, k)  BY <1>1, SameBelow DEF Same
<1>5. ProviderKey(p) \in RouteKeys(p) /\ ModelKey(p) \in RouteKeys(p)  BY DEF RouteKeys
<1>6. ProviderOf(n, p) = ProviderOf(m, p) /\ ModelOf(n, p) = ModelOf(m, p)
  BY <1>1, <1>3, <1>5 DEF ProviderOf, ModelOf
<1>7. n[ProviderKey(p)] = m[ProviderKey(p)]  BY <1>1, <1>3, <1>5 DEF Done
<1>8. Connects(n, d, p)  BY <1>2, <1>3, <1>7 DEF Done, Connects
<1> QED  BY <1>1, <1>3, <1>4, <1>6, <1>8 DEF Done

(* The loop over the routes completes each.                                *)
AreRoutes(s, n, b, e, d) ==
  /\ \A i \in 1..n : /\ IsRoute(s[i]) /\ Same(b, Chosen(e, d), s[i])
                     /\ IsMapping(Chosen(e, d), s[i])
  /\ \A i, j \in 1..n : i # j => s[i] # s[j]
AllDone(m, b, e, d, s, n) ==
  /\ IsConfig(m)
  /\ \A i \in 1..n : Done(m, e, d, s[i])
  /\ \A q : IsRoute(q) /\ (\A i \in 1..n : s[i] # q) => Same(m, b, q)

LEMMA RoutesDone ==
  ASSUME NEW e, IsConfig(e), RouteConfig(e), NEW d, IsConfig(d), RendersRoutes(d),
         IsConfig(Chosen(e, d)), NEW b, IsConfig(b), Same(b, d, <<"providers">>),
         NEW main, NEW n \in Nat, NEW s, AreRoutes(s, n, b, e, d),
         NEW f, Reroutes(f, b, d, s, main, n)
  PROVE  AllDone(f[n], b, e, d, s, n)
<1> USE DEF AreRoutes
<1> DEFINE Good(k) ==
             /\ IsConfig(f[k]) /\ Same(f[k], d, <<"providers">>)
             /\ \A i \in 1..k : Done(f[k], e, d, s[i])
             /\ \A q : IsRoute(q) /\ (\A i \in 1..k : s[i] # q) => Same(f[k], b, q)
           Bad == {k \in Nat : k <= n /\ ~Good(k)}
<1>1. f[0] = b /\ \A k \in 1..n : f[k] = reconcile_route(f[k - 1], d, s[k], main)  BY DEF Reroutes
<1>2. Good(0)  BY <1>1 DEF Same
<1>3. ASSUME NEW k \in 1..n, Good(k - 1) PROVE Good(k)
  <2> DEFINE m == f[k - 1]
             p == s[k]
  <2>1. IsRoute(p) /\ IsPath(p) /\ Diverge(p, <<"providers">>)  BY RoutePaths
  <2>2. IsConfig(m) /\ Same(m, d, <<"providers">>)  BY <1>3
  <2>3. Same(m, Chosen(e, d), p)
    <3>1. \A i \in 1..(k - 1) : s[i] # s[k]  OBVIOUS
    <3>2. Same(m, b, p)  BY <1>3, <2>1, <3>1
    <3> QED  BY <3>2 DEF Same
  <2>4. f[k] = reconcile_route(m, d, p, main)  BY <1>1
  <2> HIDE DEF m
  <2>5. Done(f[k], e, d, p)  BY <2>1, <2>2, <2>3, <2>4, TurnCompletes
  <2>6. Within(f[k], m, p)  BY <2>1, <2>2, <2>4, RouteWithin
  <2>7. IsConfig(f[k]) /\ Same(f[k], d, <<"providers">>)
    BY <2>1, <2>2, <2>6, ProviderPaths DEF Within, Same
  <2>8. \A q : IsRoute(q) /\ q # p => Same(f[k], m, q)
    BY <2>1, <2>6, RoutesDiverge, RoutePaths DEF Within
  <2>9. ASSUME NEW i \in 1..(k - 1) PROVE Done(f[k], e, d, s[i])
    <3>1. i \in 1..n /\ s[i] # p /\ IsRoute(s[i])  OBVIOUS
    <3>2. Done(m, e, d, s[i])  BY <1>3 DEF m
    <3>3. Same(f[k], m, s[i])  BY <2>8, <3>1
    <3> QED  BY <2>2, <2>7, <3>1, <3>2, <3>3, DoneStays
  <2>10. ASSUME NEW q, IsRoute(q), \A i \in 1..k : s[i] # q PROVE Same(f[k], b, q)
    <3>1. q # p /\ \A i \in 1..(k - 1) : s[i] # q  BY <2>10
    <3>2. Same(m, b, q)  BY <1>3, <2>10, <3>1 DEF m
    <3>3. Same(f[k], m, q)  BY <2>8, <2>10, <3>1
    <3> QED  BY <3>2, <3>3 DEF Same
  <2>11. \A i \in 1..k : Done(f[k], e, d, s[i])
    <3>1. \A i \in 1..k : i = k \/ i \in 1..(k - 1)  OBVIOUS
    <3> QED  BY <2>5, <2>9, <3>1
  <2> QED  BY <2>7, <2>10, <2>11
<1>4. Good(n)
  <2> SUFFICES ASSUME Bad # {} PROVE FALSE  OBVIOUS
  <2> HIDE DEF Good
  <2>1. PICK k \in Bad : \A j \in Bad : k <= j  BY LeastNumber
  <2>2. k \in 1..n /\ k - 1 \in 0..n /\ ~(k <= k - 1)  BY <1>2, <2>1
  <2>3. Good(k - 1)  BY <2>1, <2>2
  <2> QED  BY <1>3, <2>1, <2>2, <2>3
<1> QED  BY <1>4 DEF AllDone

(* A sequence with the elements of a finite set has every one of them.     *)
LEMMA ListsAll ==
  ASSUME NEW S, IsFiniteSet(S)
  PROVE  \A x \in S : \E i \in 1..Cardinality(S) : SetToSeq(S)[i] = x
<1> DEFINE n == Cardinality(S)
           s == SetToSeq(S)
<1>1. n \in Nat /\ s \in [1..n -> S] /\ IsInjective(s)  BY ListsTheSet
<1>2. IsFiniteSet(1..n) /\ Cardinality(1..n) = n  BY <1>1, FS_Interval
<1> HIDE DEF s
<1>3. s \in Injection(1..n, S)  BY <1>1 DEF IsInjective, Injection
<1>4. s \in Surjection(1..n, S)  BY <1>2, <1>3, FS_Injection
<1> QED  BY <1>4 DEF Surjection, s

(* reconcile_hermes completes every route of the file.                     *)
LEMMA HermesCompletes ==
  ASSUME NEW e, IsConfig(e), RouteConfig(e), NEW d, IsConfig(d), RendersRoutes(d)
  PROVE  /\ IsConfig(reconcile_hermes(e, d)) /\ <<"model", "provider">> \in DOMAIN reconcile_hermes(e, d)
         /\ \A p : IsRoute(p) /\ IsMapping(reconcile_hermes(e, d), p)
                     => Done(reconcile_hermes(e, d), e, d, p)
<1> DEFINE r == reconcile_hermes(e, d)
           c == Chosen(e, d)
           b == ModelOnce(e, d)
           main == MainOf(b, d)
           S == OtherRoutes(b, d)
           s == SetToSeq(S)
           n == Cardinality(S)
           mp == <<"model">>
           pp == <<"providers">>
           o == OwnedFirst("hermes", e, d)
<1>1. IsRoute(mp) /\ IsPath(mp) /\ Diverge(mp, pp) /\ IsPath(pp) /\ ProviderKey(mp) = <<"model", "provider">>
  BY RoutePaths, ProviderPaths, TwoKeys DEF IsRoute, ProviderKey
<1>2. IsConfig(o) /\ Elsewhere(c, o, Shared("hermes")) /\ IsConfig(c)
  <2>1. IsConfig(o)  BY OwnedFirstIsExact
  <2> HIDE DEF o
  <2>2. Elsewhere(preserve_choices(o, d, e), o, Shared("hermes"))  BY <2>1, ChoicesElsewhere
  <2> QED  BY <2>1, <2>2 DEF Chosen, Elsewhere, o
<1>3. Same(c, d, pp)
  <2>1. DOMAIN Owned("hermes", d) = 1..17 /\ Owned("hermes", d)[1] = pp  BY DEF Owned
  <2>2. Same(o, d, pp)
    <3>1. 1 \in DOMAIN Owned("hermes", d)  BY <2>1
    <3>2. Same(OwnedFirst("hermes", e, d), d, Owned("hermes", d)[1])  BY <3>1, OwnedFirstIsExact
    <3> QED  BY <2>1, <3>2
  <2>3. pp # <<>> /\ pp[1] \notin Shared("hermes")  BY DEF Shared
  <2> HIDE DEF pp, o
  <2>4. Same(c, o, pp)  BY <1>1, <1>2, <2>3 DEF Elsewhere
  <2> QED  BY <2>2, <2>4 DEF Same
<1>4. mp \in Routes(d) /\ IsMapping(d, pp) /\ IsMapping(d, mp) /\ IsMapping(d, <<"delegation">>)
  BY ModelRendered DEF RendersRoutes
<1>5. IsMapping(c, mp)
  <2>1. Chooses(c, d, e, mp)
    <3>1. <<"model", "provider">> \in At(e, mp)
      <4>1. IsPrefix(mp, <<"model", "provider">>)  BY ProviderPaths
      <4> QED  BY <4>1 DEF RouteConfig, At
    <3>2. IsMapping(e, mp)  BY <3>1 DEF IsMapping
    <3> HIDE DEF o
    <3>3. Chooses(preserve_choices(o, d, e), d, e, mp)  BY <1>2, <1>4, <3>2, ModelChosen
    <3> QED  BY <3>3 DEF Chosen, o
  <2>2. Same(c, e, ProviderKey(mp))
    <3>1. IsPrefix(ProviderKey(mp), ProviderKey(mp))  BY <1>1, ProviderPaths, PrefixSelf
    <3>2. Has(e, ProviderKey(mp))  BY <1>1, <3>1 DEF RouteConfig, Has, At
    <3> QED  BY <2>1, <3>2 DEF Chooses, RouteKeys
  <2>3. <<"model", "provider">> \in At(e, <<"model", "provider">>)
    BY ProviderPaths, PrefixSelf DEF RouteConfig, At
  <2>4. <<"model", "provider">> \in DOMAIN c  BY <1>1, <2>2, <2>3 DEF Same, At
  <2>5. IsPrefix(mp, <<"model", "provider">>) /\ mp # <<"model", "provider">>  BY ProviderPaths
  <2> QED  BY <2>4, <2>5 DEF IsMapping, At
<1>6. r = Routed(b, d, s, main)
  <2>1. IsMapping(c, pp)  BY <1>3, <1>4 DEF IsMapping, Same
  <2>2. Completes(c, d)  BY <1>4, <1>5, <2>1 DEF Completes
  <2> QED  BY <2>2, HermesInSteps
<1>7. IsConfig(b) /\ Same(b, d, pp) /\ Within(b, c, mp)
  <2>1. Within(b, c, mp)  BY <1>1, <1>2, RouteWithin DEF ModelOnce
  <2> QED  BY <1>1, <1>3, <2>1 DEF Within, Same
<1>8. Done(b, e, d, mp)
  <2>1. Same(c, c, mp)  BY DEF Same
  <2> QED  BY <1>1, <1>2, <1>3, <1>5, <2>1, TurnCompletes DEF ModelOnce
<1>9. \A p : IsRoute(p) /\ p # mp => Same(b, c, p)
  BY <1>1, <1>7, RoutesDiverge, RoutePaths DEF Within
<1>10. /\ n \in Nat /\ DOMAIN s = 1..n /\ \A i \in 1..n : s[i] \in S
       /\ \A p \in S : \E i \in 1..n : s[i] = p
       /\ \A i, j \in 1..n : i # j => s[i] # s[j]
  <2>1. IsFiniteSet({<<"delegation">>} \union Aux(b))
    BY <1>7, AuxIsFinite, FS_Singleton, FS_Union
  <2>2. S \subseteq {<<"delegation">>} \union Aux(b)  BY DEF OtherRoutes
  <2>3. IsFiniteSet(S)  BY <2>1, <2>2, FS_Subset
  <2> HIDE DEF S
  <2>4. n \in Nat /\ s \in [1..n -> S] /\ IsInjective(s)  BY <2>3, ListsTheSet
  <2>5. \A p \in S : \E i \in 1..n : s[i] = p  BY <2>3, ListsAll
  <2> QED  BY <2>4, <2>5 DEF IsInjective
<1>11. \A p \in S : IsRoute(p) /\ p # mp /\ IsMapping(b, p)
  <2>1. \A p \in S : (p = <<"delegation">> \/ p \in Aux(b)) /\ IsMapping(b, p)  BY DEF OtherRoutes
  <2>2. \A x : <<"auxiliary", x>> # mp  BY ProviderPaths
  <2>3. <<"delegation">> # mp
    <3>1. <<"delegation">>[1] = "delegation" /\ mp[1] = "model"  BY ShortPaths
    <3> QED  BY <3>1
  <2>4. \A p \in Aux(b) : \E x : p = <<"auxiliary", x>>  BY DEF Aux
  <2> QED  BY <2>1, <2>2, <2>3, <2>4 DEF IsRoute
<1>12. \A p : IsRoute(p) /\ p # mp /\ IsMapping(b, p) => p \in S
  <2>1. \A p : IsRoute(p) /\ p # mp /\ IsMapping(b, p) => p = <<"delegation">> \/ p \in Aux(b)
    BY <1>7, AuxIs DEF IsRoute
  <2> QED  BY <1>4, <2>1 DEF OtherRoutes
<1> HIDE DEF r, c, b, main, S, s, n, o
<1>13. AreRoutes(s, n, b, e, d)
  <2>1. \A i \in 1..n : IsRoute(s[i]) /\ s[i] # mp /\ IsMapping(b, s[i])  BY <1>10, <1>11
  <2>2. \A i \in 1..n : Same(b, c, s[i])  BY <1>9, <2>1
  <2>3. \A i \in 1..n : IsMapping(c, s[i])  BY <2>1, <2>2 DEF Same, IsMapping
  <2> QED  BY <1>10, <2>1, <2>2, <2>3 DEF AreRoutes, c
<1>14. PICK f : Reroutes(f, b, d, s, main, n) /\ Routed(b, d, s, main) = f[n]
  BY <1>10, RouteLoop
<1>15. /\ IsConfig(r) /\ \A i \in 1..n : Done(r, e, d, s[i])
       /\ \A q : IsRoute(q) /\ (\A i \in 1..n : s[i] # q) => Same(r, b, q)
  <2>1. AllDone(f[n], b, e, d, s, n)  BY <1>2, <1>7, <1>10, <1>13, <1>14, RoutesDone DEF c
  <2> QED  BY <1>6, <1>14, <2>1 DEF AllDone
<1>16. Done(r, e, d, mp)
  <2>1. \A i \in 1..n : s[i] # mp  BY <1>10, <1>11
  <2>2. Same(r, b, mp)  BY <1>1, <1>15, <2>1
  <2> QED  BY <1>1, <1>7, <1>8, <1>15, <2>2, DoneStays
<1>17. ASSUME NEW p, IsRoute(p), IsMapping(r, p), p # mp PROVE Done(r, e, d, p)
  <2>1. CASE \E i \in 1..n : s[i] = p  BY <1>15, <2>1
  <2>2. CASE \A i \in 1..n : s[i] # p
    <3>1. Same(r, b, p)  BY <1>15, <1>17, <2>2
    <3>2. IsMapping(b, p)  BY <1>17, <3>1 DEF Same, IsMapping
    <3>3. p \in S  BY <1>12, <1>17, <3>2
    <3>4. \E i \in 1..n : s[i] = p  BY <1>10, <3>3
    <3> QED  BY <2>2, <3>4
  <2> QED  BY <2>1, <2>2
<1>18. <<"model", "provider">> \in DOMAIN r  BY <1>1, <1>16 DEF Done, RouteKeys
<1> QED  BY <1>15, <1>16, <1>17, <1>18 DEF r

LEMMA HermesKeepsRoutes ==
  ASSUME NEW e, IsConfig(e), RouteConfig(e), NEW d, IsConfig(d), RendersRoutes(d)
  PROVE  RouteConfig(reconcile_hermes(e, d))
<1> DEFINE r == reconcile_hermes(e, d)
<1>1. /\ IsConfig(r) /\ <<"model", "provider">> \in DOMAIN r
      /\ \A p : IsRoute(p) /\ IsMapping(r, p) => Done(r, e, d, p)
  BY HermesCompletes
<1> HIDE DEF r
<1>2. ASSUME NEW p, IsRoute(p) PROVE WholeAt(r, p)
  <2>1. CASE IsMapping(r, p)  BY <1>1, <1>2, <2>1 DEF Done, WholeAt
  <2>2. CASE ~IsMapping(r, p)
    <3>1. \A k \in RouteKeys(p) : At(r, k) = {}  BY <1>1, <1>2, <2>2, NoKeys
    <3> QED  BY <3>1 DEF WholeAt
  <2> QED  BY <2>1, <2>2
<1>3. Whole(r)  BY <1>1, <1>2, WholeEverywhere
<1> QED  BY <1>1, <1>3 DEF RouteConfig, r

(* An edit of the harness keeps the routes whole.                          *)
LEMMA MergeAt ==
  ASSUME NEW m, IsConfig(m), NEW n, IsConfig(n), NEW k, IsPath(k)
  PROVE  /\ At(n, k) = {k} /\ At(m, k) \subseteq {k} => At(deep_merge(m, n), k) = {k}
         /\ At(n, k) = {} => At(deep_merge(m, n), k) =
               IF \E r \in DOMAIN n : IsPrefix(r, k) /\ n[r] # Empty THEN {} ELSE At(m, k)
<1> DEFINE hidden == {q \in DOMAIN m : \E r \in DOMAIN n :
                         IsPrefix(q, r) \/ (IsPrefix(r, q) /\ n[r] # Empty)}
           taken  == {r \in DOMAIN n :
                         n[r] # Empty \/ \A q \in DOMAIN m : ~IsStrictPrefix(r, q)}
           D == (DOMAIN m \ hidden) \union taken
<1>1. DOMAIN deep_merge(m, n) = D  BY DEF deep_merge
<1>2. (\A q \in DOMAIN m : IsPath(q)) /\ (\A q \in DOMAIN n : IsPath(q))  BY DEF IsConfig
<1>3. IsPrefix(k, k)  BY PrefixSelf
<1>4. At(deep_merge(m, n), k) = {q \in D : IsPrefix(k, q)}  BY <1>1 DEF At
<1>5. ASSUME At(n, k) = {k}, At(m, k) \subseteq {k} PROVE {q \in D : IsPrefix(k, q)} = {k}
  <2>1. \A q \in DOMAIN m : ~IsStrictPrefix(k, q)  BY <1>5 DEF At, IsStrictPrefix
  <2>2. k \in taken  BY <1>5, <2>1 DEF At
  <2>3. \A q \in D : IsPrefix(k, q) => q = k  BY <1>5 DEF At
  <2> QED  BY <1>3, <2>2, <2>3
<1>6. ASSUME At(n, k) = {}, NEW r \in DOMAIN n, IsPrefix(r, k), n[r] # Empty
      PROVE  {q \in D : IsPrefix(k, q)} = {}
  <2>1. \A q \in DOMAIN m : IsPrefix(k, q) => q \in hidden  BY <1>2, <1>6, PrefixJoins
  <2>2. \A q \in taken : ~IsPrefix(k, q)  BY <1>6 DEF At
  <2> QED  BY <2>1, <2>2
<1>7. ASSUME At(n, k) = {}, ~\E r \in DOMAIN n : IsPrefix(r, k) /\ n[r] # Empty
      PROVE  {q \in D : IsPrefix(k, q)} = At(m, k)
  <2>1. \A r \in DOMAIN n : ~IsPrefix(k, r)  BY <1>7 DEF At
  <2>2. ASSUME NEW q \in DOMAIN m, IsPrefix(k, q) PROVE q \notin hidden
    <3>1. ASSUME NEW r \in DOMAIN n PROVE ~IsPrefix(q, r)  BY <1>2, <2>1, <2>2, PrefixJoins
    <3>2. ASSUME NEW r \in DOMAIN n, n[r] # Empty PROVE ~IsPrefix(r, q)
      BY <1>2, <1>7, <2>1, <2>2, <3>2, PrefixesCompare DEF Diverge
    <3> QED  BY <3>1, <3>2
  <2> QED  BY <2>1, <2>2 DEF At
<1> QED  BY <1>4, <1>5, <1>6, <1>7

LEMMA EditKeepsRoutes ==
  ASSUME NEW m, IsConfig(m), RouteConfig(m), NEW e, IsConfig(e), ChoosesWhole(e)
  PROVE  RouteConfig(deep_merge(m, e))
<1> DEFINE r == deep_merge(m, e)
           mp == <<"model">>
           pk == <<"model", "provider">>
<1>1. IsConfig(r)  BY MergeIsConfig
<1> HIDE DEF r
<1>2. ASSUME NEW p, IsRoute(p) PROVE WholeAt(r, p)
  <2>1. WholeAt(m, p) /\ WholeAt(e, p)  BY <1>2, WholeEverywhere DEF RouteConfig, ChoosesWhole
  <2>2. \A k \in RouteKeys(p) : /\ IsPath(k) /\ IsPrefix(p, k)
                                /\ \A q : IsPath(q) /\ IsPrefix(q, k) /\ q # k => IsPrefix(q, p)
    BY <1>2, RoutePaths
  <2>3. CASE \A k \in RouteKeys(p) : At(e, k) = {k}
    <3>1. \A k \in RouteKeys(p) : At(m, k) \subseteq {k}  BY <2>1 DEF WholeAt
    <3>2. \A k \in RouteKeys(p) : At(r, k) = {k}  BY <2>2, <2>3, <3>1, MergeAt DEF r
    <3> QED  BY <3>2 DEF WholeAt
  <2>4. CASE \A k \in RouteKeys(p) : At(e, k) = {}
    <3> DEFINE Hides(k) == \E q \in DOMAIN e : IsPrefix(q, k) /\ e[q] # Empty
    <3>1. ASSUME NEW k \in RouteKeys(p) PROVE Hides(k) <=> Hides(p)
      <4>1. k \notin DOMAIN e  BY <2>2, <2>4, PrefixSelf DEF At
      <4>2. IsPath(p)  BY <1>2, RoutePaths
      <4>3. \A q \in DOMAIN e : IsPath(q)  BY DEF IsConfig
      <4>4. \A q \in DOMAIN e : IsPrefix(q, k) <=> IsPrefix(q, p)
        BY <2>2, <4>1, <4>2, <4>3, PrefixJoins
      <4> QED  BY <4>4
    <3>2. \A k \in RouteKeys(p) : At(r, k) = IF Hides(k) THEN {} ELSE At(m, k)
      BY <2>2, <2>4, MergeAt DEF r
    <3> HIDE DEF Hides
    <3> QED  BY <2>1, <3>1, <3>2 DEF WholeAt
  <2> QED  BY <2>1, <2>3, <2>4 DEF WholeAt
<1>3. pk \in DOMAIN r
  <2>1. IsRoute(mp) /\ IsPath(mp) /\ IsPath(pk) /\ IsPrefix(pk, pk) /\ pk \in RouteKeys(mp)
    BY ProviderPaths, PrefixSelf, TwoKeys DEF IsRoute, RouteKeys, ProviderKey
  <2>2. WholeAt(m, mp) /\ WholeAt(e, mp)  BY <2>1, WholeEverywhere DEF RouteConfig, ChoosesWhole
  <2>3. At(m, pk) = {pk}  BY <2>1, <2>2 DEF WholeAt, RouteConfig, At
  <2>4. CASE At(e, pk) = {pk}
    <3>1. At(r, pk) = {pk}  BY <2>1, <2>3, <2>4, MergeAt DEF r
    <3> QED  BY <3>1 DEF At
  <2>5. CASE At(e, pk) = {}
    <3>1. ASSUME NEW q \in DOMAIN e, IsPrefix(q, pk), e[q] # Empty PROVE FALSE
      <4>1. IsPath(q) /\ q # pk  BY <2>1, <2>5 DEF IsConfig, At
      <4>2. IsPrefix(q, mp)  BY <2>1, <3>1, <4>1, RoutePaths
      <4>3. q = <<>> \/ q = mp
        <5>1. Len(mp) = 1 /\ Len(q) \in Nat /\ Len(q) <= 1
          <6>1. Len(mp) = 1  BY ProviderPaths
          <6>2. Len(q) <= Len(mp)  BY <2>1, <4>1, <4>2, PrefixMeans
          <6>3. Len(q) \in Nat  BY <4>1 DEF IsPath
          <6> QED  BY <6>1, <6>2, <6>3
        <5>2. Len(q) = 0 => q = <<>>  BY <4>1 DEF IsPath
        <5>3. Len(q) = 1 => q = mp  BY <2>1, <4>1, <4>2, <5>1, SameLengthDiverge DEF Diverge
        <5> QED  BY <5>1, <5>2, <5>3
      <4> QED  BY <3>1, <4>3 DEF ChoosesWhole
    <3>2. At(r, pk) = {pk}  BY <2>1, <2>3, <2>5, <3>1, MergeAt DEF r
    <3> QED  BY <3>2 DEF At
  <2> QED  BY <2>1, <2>2, <2>4, <2>5 DEF WholeAt
<1>4. Whole(r)  BY <1>1, <1>2, WholeEverywhere
<1> QED  BY <1>3, <1>4 DEF RouteConfig, r

-----------------------------------------------------------------------------
LEMMA RouteInitial == ConfigInit => RouteInv
BY DEF ConfigInit, RouteInv

LEMMA RouteStep == ConfigInv /\ RouteInv /\ [ConfigNext]_configVars => RouteInv'
<1> SUFFICES ASSUME ConfigInv, RouteInv, [ConfigNext]_configVars, kind' = "hermes" PROVE RouteInv'
  BY DEF RouteInv
<1>1. kind' = kind /\ kind = "hermes"
  BY DEF ConfigNext, Seed, Write, Install, Crash, Edit, Restart, configVars
<1>2. /\ "hermes" \in Kinds /\ desired \in Charts["hermes"] /\ IsConfig(desired)
      /\ RendersRoutes(desired)
  BY <1>1, ConfigsAssumption, HermesAssumption DEF ConfigInv
<1> USE DEF RouteInv
<1>3. CASE Seed
  <2>1. RouteConfig(desired)  BY <1>2, ModelRendered
  <2> QED  BY <1>3, <2>1 DEF Seed
<1>4. CASE Write  BY <1>1, <1>4 DEF Write, Loads, Unseeded
<1>5. CASE Install
  <2>1. IsConfig(existing) /\ RouteConfig(existing) /\ temporary = Reconcile("hermes", existing, desired)
    BY <1>1, <1>5 DEF Install, ConfigInv
  <2>2. existing' = reconcile_hermes(existing, desired)  BY <1>5, <2>1, ReconcileInSteps DEF Install
  <2>3. RouteConfig(existing')  BY <1>2, <2>1, <2>2, HermesKeepsRoutes
  <2> QED  BY <2>3
<1>6. CASE Crash  BY <1>1, <1>6 DEF Crash
<1>7. CASE Edit
  <2>1. PICK e \in Edits["hermes"] : existing' = deep_merge(existing, e)  BY <1>1, <1>7 DEF Edit
  <2>2. IsConfig(e) /\ ChoosesWhole(e)  BY <1>2, ConfigsAssumption, HermesAssumption
  <2>3. IsConfig(existing) /\ RouteConfig(existing)  BY <1>1, <1>7 DEF Edit, ConfigInv
  <2>4. RouteConfig(existing')  BY <2>1, <2>2, <2>3, EditKeepsRoutes
  <2> QED  BY <2>4
<1>8. CASE Restart  BY <1>1, <1>8 DEF Restart
<1>9. CASE UNCHANGED configVars  BY <1>9 DEF configVars
<1> QED  BY <1>3, <1>4, <1>5, <1>6, <1>7, <1>8, <1>9 DEF ConfigNext

(* In every file a start reads, and every one it leaves, a route names its *)
(* provider and its model together.                                        *)
THEOREM RouteInvariant == ConfigSpec => []RouteInv
BY RouteInitial, RouteStep, ConfigInvariant, PTL DEF ConfigSpec

(* After every start, each route of Hermes names a provider of the catalog *)
(* and carries its connection, and provider and model are both the file's  *)
(* or both the chart's (reconcile_hermes, reconcile_route): for any chart, *)
(* file and edits of the kind HermesAssumption says.                       *)
THEOREM RoutesAlwaysHold == ConfigSpec => RoutesHold
<1> DEFINE Act == (Install /\ kind = "hermes") =>
                     \A p \in Routes(existing') :
                        LET provider == ProviderOf(existing', p)
                            from == IF ProviderOf(existing, p) \in Keys(desired, <<"providers">>)
                                    THEN existing ELSE desired
                        IN  /\ provider \in Keys(desired, <<"providers">>)
                            /\ \A f \in DOMAIN FieldOf :
                                  Get(existing', Append(p, f))
                                      = Get(desired, <<"providers", provider, FieldOf[f]>>)
                            /\ provider = ProviderOf(from, p)
                            /\ ModelOf(existing', p) = ModelOf(from, p)
<1>1. ASSUME ConfigInv, RouteInv, Install, kind = "hermes", NEW p \in Routes(existing')
      PROVE  /\ Done(existing', existing, desired, p)
             /\ ProviderOf(existing', p) = existing'[ProviderKey(p)]
  <2>1. /\ "hermes" \in Kinds /\ desired \in Charts["hermes"] /\ IsConfig(desired)
        /\ RendersRoutes(desired)
    BY <1>1, ConfigsAssumption, HermesAssumption DEF ConfigInv
  <2>2. IsConfig(existing) /\ RouteConfig(existing) /\ temporary = Reconcile("hermes", existing, desired)
    BY <1>1 DEF Install, ConfigInv, RouteInv
  <2>3. existing' = reconcile_hermes(existing, desired)  BY <1>1, <2>2, ReconcileInSteps DEF Install
  <2>4. IsRoute(p) /\ IsMapping(existing', p)  BY DEF Routes, Aux, IsRoute
  <2>5. Done(existing', existing, desired, p)  BY <2>1, <2>2, <2>3, <2>4, HermesCompletes
  <2> QED  BY <2>5 DEF Done, RouteKeys, ProviderOf, Get
<1>2. ConfigInv /\ RouteInv /\ [ConfigNext]_configVars => [Act]_configVars
  BY <1>1 DEF Done, Connects
<1> QED  BY <1>2, ConfigInvariant, RouteInvariant, PTL DEF ConfigSpec, RoutesHold

=============================================================================
