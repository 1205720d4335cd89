--------------------------- MODULE McpClientsProofs ---------------------------
(***************************************************************************)
(* Proofs about the two MCP clients: the shim's shared session, for any     *)
(* number of callers, sessions and evictions, and the bridge of an agent    *)
(* process, for any requests, batch size and number of messages.           *)
(***************************************************************************)
EXTENDS McpSession, VmcpBridge, FiniteSetTheorems, TLAPS

-------------------------------------------------------------------------------
(* McpSession.                                                             *)

(* Every step keeps the types of the session client's state.               *)
LEMMA TypeStep ==
  ASSUME SessionInv, [Next]_vars
  PROVE  TypeOK'
<1> USE DEF SessionInv, TypeOK, SidInv,
       Moves, clientVars, callerVars, serverVars, NoPast, NoSession,
       Phases, Waiting, Handshaking, Posting, Ended
<1>1. ASSUME NEW c \in Callers, CallTool(c) PROVE TypeOK'
  BY <1>1 DEF CallTool
<1>2. ASSUME NEW c \in Callers, ReuseSession(c) PROVE TypeOK'
  BY <1>2 DEF ReuseSession
<1>3. ASSUME NEW c \in Callers, LockAndInitialize(c) PROVE TypeOK'
  BY <1>3 DEF LockAndInitialize
<1>4. ASSUME NEW c \in Callers, Initialized(c) PROVE TypeOK'
  BY <1>4 DEF Initialized, ServerOpens
<1>5. ASSUME NEW c \in Callers, Notified(c) PROVE TypeOK'
  BY <1>5 DEF Notified
<1>6. ASSUME NEW c \in Callers, HandshakeFails(c) PROVE TypeOK'
  <2>1. CASE ServerOpens
    BY <1>6, <2>1 DEF HandshakeFails, ServerOpens
  <2>2. CASE UNCHANGED serverVars
    BY <1>6, <2>2 DEF HandshakeFails
  <2>3. QED
    BY <1>6, <2>1, <2>2 DEF HandshakeFails
<1>7. ASSUME NEW c \in Callers, ToolRuns(c) PROVE TypeOK'
  <2>1. /\ past' \in [Callers -> [evictions : Nat, runs : Nat, bad : BOOLEAN]]
        /\ UNCHANGED <<mu, sessionID, handshakes, attempt, sid, issued, live,
                        evictions, condemned>>
    BY <1>7 DEF ToolRuns
  <2>2. pc' \in [Callers -> Phases]
    BY <1>7 DEF ToolRuns
  <2>3. QED
    BY <2>1, <2>2
<1>8. ASSUME NEW c \in Callers, CallFails(c) PROVE TypeOK'
  BY <1>8 DEF CallFails
<1>9. ASSUME NEW c \in Callers, SessionUnknown(c) PROVE TypeOK'
  <2>1. sid[c] \in 1..issued
    BY <1>9 DEF SessionUnknown
  <2>2. /\ pc' \in [Callers -> Phases]
        /\ condemned' = condemned \cup {sid[c]}
        /\ UNCHANGED <<mu, sessionID, handshakes, attempt, sid, issued, live,
                        evictions, past>>
    BY <1>9 DEF SessionUnknown, Rejects
  <2>3. QED
    BY <2>1, <2>2
<1>10. ASSUME NEW c \in Callers, BadRequest(c) PROVE TypeOK'
  BY <1>10 DEF BadRequest, Rejects
<1>11. ASSUME NEW c \in Callers, InvalidateSession(c) PROVE TypeOK'
  BY <1>11 DEF InvalidateSession
<1>12. ASSUME NEW c \in Callers, Return(c) PROVE TypeOK'
  BY <1>12 DEF Return
<1>13. ASSUME NEW s \in live, Evict(s) PROVE TypeOK'
  BY <1>13 DEF Evict
<1>14. CASE UNCHANGED vars
  BY <1>14 DEF vars
<1>15. QED
  BY <1>1, <1>2, <1>3, <1>4, <1>5, <1>6, <1>7, <1>8, <1>9, <1>10, <1>11, <1>12, <1>13, <1>14 DEF Next, Locks, Posts

(* The lock excludes: one handshake at a time, and none over a cached       *)
(* session.                                                                *)
LEMMA LockStep ==
  ASSUME SessionInv, [Next]_vars
  PROVE  LockInv'
<1> USE CallersAssumption DEF SessionInv, TypeOK, LockInv,
       Moves, clientVars, callerVars, serverVars, NoPast, NoSession,
       Phases, Waiting, Handshaking, Posting, Ended
<1>1. ASSUME NEW c \in Callers, CallTool(c) PROVE LockInv'
  BY <1>1 DEF CallTool
<1>2. ASSUME NEW c \in Callers, ReuseSession(c) PROVE LockInv'
  BY <1>2 DEF ReuseSession
<1>3. ASSUME NEW c \in Callers, LockAndInitialize(c) PROVE LockInv'
  BY <1>3 DEF LockAndInitialize
<1>4. ASSUME NEW c \in Callers, Initialized(c) PROVE LockInv'
  BY <1>4 DEF Initialized, ServerOpens
<1>5. ASSUME NEW c \in Callers, Notified(c) PROVE LockInv'
  BY <1>5 DEF Notified, SidInv
<1>6. ASSUME NEW c \in Callers, HandshakeFails(c) PROVE LockInv'
  BY <1>6 DEF HandshakeFails, ServerOpens
<1>7. ASSUME NEW c \in Callers, ToolRuns(c) PROVE LockInv'
  BY <1>7 DEF ToolRuns
<1>8. ASSUME NEW c \in Callers, CallFails(c) PROVE LockInv'
  BY <1>8 DEF CallFails
<1>9. ASSUME NEW c \in Callers, SessionUnknown(c) PROVE LockInv'
  BY <1>9 DEF SessionUnknown, Rejects
<1>10. ASSUME NEW c \in Callers, BadRequest(c) PROVE LockInv'
  BY <1>10 DEF BadRequest, Rejects
<1>11. ASSUME NEW c \in Callers, InvalidateSession(c) PROVE LockInv'
  BY <1>11 DEF InvalidateSession
<1>12. ASSUME NEW c \in Callers, Return(c) PROVE LockInv'
  BY <1>12 DEF Return
<1>13. ASSUME NEW s \in live, Evict(s) PROVE LockInv'
  BY <1>13 DEF Evict
<1>14. CASE UNCHANGED vars
  BY <1>14 DEF vars
<1>15. QED
  BY <1>1, <1>2, <1>3, <1>4, <1>5, <1>6, <1>7, <1>8, <1>9, <1>10, <1>11, <1>12, <1>13, <1>14 DEF Next, Locks, Posts

(* Sessions in the making stay private, and a retry never meets the session *)
(* it was rejected on.                                                     *)
LEMMA SidStep ==
  ASSUME SessionInv, [Next]_vars
  PROVE  SidInv'
<1> USE CallersAssumption DEF SessionInv, TypeOK, LockInv, SidInv,
       Moves, clientVars, callerVars, serverVars, NoPast, NoSession,
       Phases, Waiting, Handshaking, Posting, Ended
<1>1. ASSUME NEW c \in Callers, CallTool(c) PROVE SidInv'
  <2>1. /\ UNCHANGED <<mu, sessionID, attempt, sid, issued, condemned>>
        /\ pc'[c] = "lock" /\ pc[c] = "idle"
        /\ \A d \in Callers \ {c} : pc'[d] = pc[d]
    BY <1>1 DEF CallTool
  <2>2. attempt[c] = 1
    BY <2>1
  <2>3. QED
    BY <2>1, <2>2
<1>2. ASSUME NEW c \in Callers, ReuseSession(c) PROVE SidInv'
  BY <1>2 DEF ReuseSession
<1>3. ASSUME NEW c \in Callers, LockAndInitialize(c) PROVE SidInv'
  BY <1>3 DEF LockAndInitialize
<1>4. ASSUME NEW c \in Callers, Initialized(c) PROVE SidInv'
  BY <1>4 DEF Initialized, ServerOpens
<1>5. ASSUME NEW c \in Callers, Notified(c) PROVE SidInv'
  BY <1>5 DEF Notified
<1>6. ASSUME NEW c \in Callers, HandshakeFails(c) PROVE SidInv'
  <2>1. CASE ServerOpens
    BY <1>6, <2>1 DEF HandshakeFails, ServerOpens
  <2>2. CASE UNCHANGED serverVars
    BY <1>6, <2>2 DEF HandshakeFails
  <2>3. QED
    BY <1>6, <2>1, <2>2 DEF HandshakeFails
<1>7. ASSUME NEW c \in Callers, ToolRuns(c) PROVE SidInv'
  BY <1>7 DEF ToolRuns
<1>8. ASSUME NEW c \in Callers, CallFails(c) PROVE SidInv'
  BY <1>8 DEF CallFails
<1>9. ASSUME NEW c \in Callers, SessionUnknown(c) PROVE SidInv'
  BY <1>9 DEF SessionUnknown, Rejects
<1>10. ASSUME NEW c \in Callers, BadRequest(c) PROVE SidInv'
  BY <1>10 DEF BadRequest, Rejects
<1>11. ASSUME NEW c \in Callers, InvalidateSession(c) PROVE SidInv'
  <2>1. /\ UNCHANGED <<mu, sid, issued, condemned>>
        /\ mu = NoOne
        /\ pc[c] = "invalidate" /\ pc'[c] = "lock"
        /\ \A d \in Callers \ {c} : pc'[d] = pc[d] /\ attempt'[d] = attempt[d]
        /\ sessionID' = IF sessionID = sid[c] THEN NoSession ELSE sessionID
    BY <1>11 DEF InvalidateSession
  <2>2. \A d \in Callers : pc[d] # "notify" /\ pc'[d] # "notify"
    BY <2>1
  <2>3. sid[c] # NoSession /\ sessionID' # sid[c]
    BY <2>1
  <2>4. ASSUME NEW d \in Callers, d # c, attempt'[d] = 2, pc'[d] = "lock"
        PROVE  sessionID' # sid[d]
    BY <2>1, <2>4
  <2>5. QED
    BY <2>1, <2>2, <2>3, <2>4
<1>12. ASSUME NEW c \in Callers, Return(c) PROVE SidInv'
  BY <1>12 DEF Return
<1>13. ASSUME NEW s \in live, Evict(s) PROVE SidInv'
  BY <1>13 DEF Evict
<1>14. CASE UNCHANGED vars
  BY <1>14 DEF vars
<1>15. QED
  BY <1>1, <1>2, <1>3, <1>4, <1>5, <1>6, <1>7, <1>8, <1>9, <1>10, <1>11, <1>12, <1>13, <1>14 DEF Next, Locks, Posts

(* A tool runs only for the call that posted it, and once.                 *)
LEMMA RunsStep ==
  ASSUME SessionInv, [Next]_vars
  PROVE  RunsInv'
<1> USE DEF SessionInv, TypeOK, RunsInv,
       Moves, clientVars, callerVars, serverVars, NoPast, NoSession,
       Phases, Waiting, Handshaking, Posting, Ended
<1>1. ASSUME NEW c \in Callers, CallTool(c) PROVE RunsInv'
  BY <1>1 DEF CallTool
<1>2. ASSUME NEW c \in Callers, ReuseSession(c) PROVE RunsInv'
  BY <1>2 DEF ReuseSession
<1>3. ASSUME NEW c \in Callers, LockAndInitialize(c) PROVE RunsInv'
  BY <1>3 DEF LockAndInitialize
<1>4. ASSUME NEW c \in Callers, Initialized(c) PROVE RunsInv'
  BY <1>4 DEF Initialized, ServerOpens
<1>5. ASSUME NEW c \in Callers, Notified(c) PROVE RunsInv'
  BY <1>5 DEF Notified
<1>6. ASSUME NEW c \in Callers, HandshakeFails(c) PROVE RunsInv'
  BY <1>6 DEF HandshakeFails, ServerOpens
<1>7. ASSUME NEW c \in Callers, ToolRuns(c) PROVE RunsInv'
  BY <1>7 DEF ToolRuns
<1>8. ASSUME NEW c \in Callers, CallFails(c) PROVE RunsInv'
  BY <1>8 DEF CallFails
<1>9. ASSUME NEW c \in Callers, SessionUnknown(c) PROVE RunsInv'
  BY <1>9 DEF SessionUnknown, Rejects
<1>10. ASSUME NEW c \in Callers, BadRequest(c) PROVE RunsInv'
  BY <1>10 DEF BadRequest, Rejects
<1>11. ASSUME NEW c \in Callers, InvalidateSession(c) PROVE RunsInv'
  BY <1>11 DEF InvalidateSession
<1>12. ASSUME NEW c \in Callers, Return(c) PROVE RunsInv'
  BY <1>12 DEF Return
<1>13. ASSUME NEW s \in live, Evict(s) PROVE RunsInv'
  BY <1>13 DEF Evict
<1>14. CASE UNCHANGED vars
  BY <1>14 DEF vars
<1>15. QED
  BY <1>1, <1>2, <1>3, <1>4, <1>5, <1>6, <1>7, <1>8, <1>9, <1>10, <1>11, <1>12, <1>13, <1>14 DEF Next, Locks, Posts

(* Rejected sessions are finitely many, and one more counts for one more.   *)
LEMMA CondemnedCount ==
  ASSUME TypeOK
  PROVE  /\ Cardinality(condemned) \in Nat
         /\ \A s : Cardinality(condemned \cup {s}) =
              Cardinality(condemned) + IF s \in condemned THEN 0 ELSE 1
<1>1. IsFiniteSet(condemned)
  <2>1. IsFiniteSet(1..issued) /\ condemned \in SUBSET (1..issued)
    BY FS_Interval DEF TypeOK
  <2>2. QED
    BY <2>1, FS_Subset
<1>2. QED
  BY <1>1, FS_CardinalityType, FS_AddElement

(* A completed handshake is paid for by the session it replaces.           *)
LEMMA DebtStep ==
  ASSUME SessionInv, [Next]_vars
  PROVE  DebtInv'
<1> USE CondemnedCount, CallersAssumption DEF SessionInv, DebtInv, TypeOK,
       Moves, clientVars, callerVars, serverVars, NoPast, NoSession,
       Phases, Waiting, Handshaking, Posting, Ended
<1>1. ASSUME NEW c \in Callers, CallTool(c) PROVE DebtInv'
  BY <1>1 DEF CallTool
<1>2. ASSUME NEW c \in Callers, ReuseSession(c) PROVE DebtInv'
  BY <1>2 DEF ReuseSession
<1>3. ASSUME NEW c \in Callers, LockAndInitialize(c) PROVE DebtInv'
  BY <1>3 DEF LockAndInitialize
<1>4. ASSUME NEW c \in Callers, Initialized(c) PROVE DebtInv'
  BY <1>4 DEF Initialized, ServerOpens
<1>5. ASSUME NEW c \in Callers, Notified(c) PROVE DebtInv'
  <2>1. sessionID = NoSession /\ sid[c] \notin condemned
    BY <1>5 DEF Notified, SidInv, LockInv
  <2>2. QED
    BY <1>5, <2>1 DEF Notified
<1>6. ASSUME NEW c \in Callers, HandshakeFails(c) PROVE DebtInv'
  BY <1>6 DEF HandshakeFails, ServerOpens
<1>7. ASSUME NEW c \in Callers, ToolRuns(c) PROVE DebtInv'
  BY <1>7 DEF ToolRuns
<1>8. ASSUME NEW c \in Callers, CallFails(c) PROVE DebtInv'
  BY <1>8 DEF CallFails
<1>9. ASSUME NEW c \in Callers, SessionUnknown(c) PROVE DebtInv'
  <2>1. /\ condemned' = condemned \cup {sid[c]}
        /\ UNCHANGED <<sessionID, handshakes>>
    BY <1>9 DEF SessionUnknown, Rejects
  <2>2. QED
    BY <2>1
<1>10. ASSUME NEW c \in Callers, BadRequest(c) PROVE DebtInv'
  <2>1. /\ condemned' = condemned \cup {sid[c]}
        /\ UNCHANGED <<sessionID, handshakes>>
    BY <1>10 DEF BadRequest, Rejects
  <2>2. QED
    BY <2>1
<1>11. ASSUME NEW c \in Callers, InvalidateSession(c) PROVE DebtInv'
  <2>1. sid[c] \in condemned
    BY <1>11 DEF InvalidateSession, SidInv
  <2>2. QED
    BY <1>11, <2>1 DEF InvalidateSession
<1>12. ASSUME NEW c \in Callers, Return(c) PROVE DebtInv'
  BY <1>12 DEF Return
<1>13. ASSUME NEW s \in live, Evict(s) PROVE DebtInv'
  BY <1>13 DEF Evict
<1>14. CASE UNCHANGED vars
  BY <1>14 DEF vars
<1>15. QED
  BY <1>1, <1>2, <1>3, <1>4, <1>5, <1>6, <1>7, <1>8, <1>9, <1>10, <1>11, <1>12, <1>13, <1>14 DEF Next, Locks, Posts

(* Nothing but an eviction during the call can kill the session a retry     *)
(* finds.                                                                  *)
LEMMA SurvivalStep ==
  ASSUME SessionInv, [Next]_vars
  PROVE  SurvivalInv'
<1> USE CallersAssumption DEF SessionInv, TypeOK, LockInv, SidInv, SurvivalInv, Excused, AllLiveSince,
       Moves, clientVars, callerVars, serverVars, NoPast, NoSession,
       Phases, Waiting, Handshaking, Posting, Ended
<1>1. ASSUME NEW c \in Callers, CallTool(c) PROVE SurvivalInv'
  BY <1>1 DEF CallTool
<1>2. ASSUME NEW c \in Callers, ReuseSession(c) PROVE SurvivalInv'
  BY <1>2 DEF ReuseSession
<1>3. ASSUME NEW c \in Callers, LockAndInitialize(c) PROVE SurvivalInv'
  BY <1>3 DEF LockAndInitialize
<1>4. ASSUME NEW c \in Callers, Initialized(c) PROVE SurvivalInv'
  BY <1>4 DEF Initialized, ServerOpens
<1>5. ASSUME NEW c \in Callers, Notified(c) PROVE SurvivalInv'
  BY <1>5 DEF Notified
<1>6. ASSUME NEW c \in Callers, HandshakeFails(c) PROVE SurvivalInv'
  <2>1. CASE ServerOpens
    BY <1>6, <2>1 DEF HandshakeFails, ServerOpens
  <2>2. CASE UNCHANGED serverVars
    BY <1>6, <2>2 DEF HandshakeFails
  <2>3. QED
    BY <1>6, <2>1, <2>2 DEF HandshakeFails
<1>7. ASSUME NEW c \in Callers, ToolRuns(c) PROVE SurvivalInv'
  BY <1>7 DEF ToolRuns
<1>8. ASSUME NEW c \in Callers, CallFails(c) PROVE SurvivalInv'
  BY <1>8 DEF CallFails
<1>9. ASSUME NEW c \in Callers, SessionUnknown(c) PROVE SurvivalInv'
  BY <1>9 DEF SessionUnknown, Rejects
<1>10. ASSUME NEW c \in Callers, BadRequest(c) PROVE SurvivalInv'
  BY <1>10 DEF BadRequest, Rejects
<1>11. ASSUME NEW c \in Callers, InvalidateSession(c) PROVE SurvivalInv'
  BY <1>11 DEF InvalidateSession
<1>12. ASSUME NEW c \in Callers, Return(c) PROVE SurvivalInv'
  BY <1>12 DEF Return
<1>13. ASSUME NEW s \in live, Evict(s) PROVE SurvivalInv'
  BY <1>13 DEF Evict
<1>14. CASE UNCHANGED vars
  BY <1>14 DEF vars
<1>15. QED
  BY <1>1, <1>2, <1>3, <1>4, <1>5, <1>6, <1>7, <1>8, <1>9, <1>10, <1>11, <1>12, <1>13, <1>14 DEF Next, Locks, Posts

(* A client that has made no call satisfies the invariant.                 *)
LEMMA SessionInit == Init => SessionInv
BY FS_EmptySet DEF Init, SessionInv, TypeOK, LockInv, SidInv, DebtInv, RunsInv,
   SurvivalInv, Excused, AllLiveSince, NoPast, NoSession, Phases, Waiting,
   Handshaking, Posting, Ended

(* Every step keeps the invariant, part by part.                           *)
LEMMA SessionStep == SessionInv /\ [Next]_vars => SessionInv'
<1> SUFFICES ASSUME SessionInv, [Next]_vars PROVE SessionInv'
  OBVIOUS
<1>1. TypeOK' /\ LockInv' /\ SidInv' /\ DebtInv' /\ RunsInv' /\ SurvivalInv'
  BY TypeStep, LockStep, SidStep, DebtStep, RunsStep, SurvivalStep
<1>2. QED
  BY <1>1 DEF SessionInv

(* The invariant holds in every reachable state.                           *)
LEMMA SessionInvariant == Spec => []SessionInv
BY SessionInit, SessionStep, PTL DEF Spec

(* After the first, every completed handshake is owed to a session of its  *)
(* own that the server rejected.                                           *)
THEOREM HandshakesEarned == Spec => []HandshakesAreEarned
<1>1. SessionInv => HandshakesAreEarned
  <2> SUFFICES ASSUME SessionInv PROVE HandshakesAreEarned
    OBVIOUS
  <2>1. Cardinality(condemned) \in Nat /\ handshakes \in Nat
    BY CondemnedCount DEF SessionInv, TypeOK
  <2>2. QED
    BY <2>1 DEF SessionInv, DebtInv, HandshakesAreEarned
<1>2. QED
  BY <1>1, SessionInvariant, PTL

(* A lookup's tool runs at most once, retry or not.                        *)
THEOREM ToolsRunOnce == Spec => []ToolRunsOnce
<1>1. SessionInv => ToolRunsOnce
  BY DEF SessionInv, TypeOK, RunsInv, ToolRunsOnce
<1>2. QED
  BY <1>1, SessionInvariant, PTL

(* Losing a session the client had cached is not enough to fail a call.    *)
THEOREM StaleSessionSurvived == Spec => []StaleSessionIsSurvived
<1>1. SessionInv => StaleSessionIsSurvived
  BY DEF SessionInv, SurvivalInv, Excused, StaleSessionIsSurvived
<1>2. QED
  BY <1>1, SessionInvariant, PTL

(* The cached session is dropped only once the server has rejected it, and *)
(* a retry is made on another session than the rejected one.               *)
THEOREM SessionsAreKept == Spec => FreshSessionIsKept /\ RetryIsOnAnother
<1>1. ASSUME SessionInv, [Next]_vars
      PROVE  [sessionID' = NoSession => sessionID \in condemned \cup {NoSession}]_vars
  <2>1. ASSUME NEW c \in Callers, Notified(c)
        PROVE  sessionID' # NoSession
    BY <1>1, <2>1 DEF SessionInv, SidInv, Notified
  <2>2. ASSUME NEW c \in Callers, InvalidateSession(c)
        PROVE  sessionID' = sessionID \/ sessionID \in condemned
    BY <1>1, <2>2 DEF SessionInv, SidInv, InvalidateSession
  <2>3. \/ UNCHANGED sessionID
        \/ \E c \in Callers : Notified(c) \/ InvalidateSession(c)
    BY <1>1 DEF Next, vars, clientVars, callerVars, Locks, Posts, CallTool, ReuseSession,
       LockAndInitialize, Initialized, HandshakeFails, ToolRuns, CallFails,
       SessionUnknown, BadRequest, Return, Evict
  <2>4. QED
    BY <2>1, <2>2, <2>3
<1>2. ASSUME SessionInv, [Next]_vars
      PROVE  [\A c \in Callers : attempt[c] = 2 /\ pc[c] = "lock" /\ pc'[c] = "call"
                => sid'[c] # sid[c]]_vars
  <2> SUFFICES ASSUME NEW c \in Callers,
                      attempt[c] = 2, pc[c] = "lock", pc'[c] = "call", Next
               PROVE  sid'[c] # sid[c]
    BY <1>2
  <2>1. ASSUME NEW d \in Callers, ReuseSession(d)
        PROVE  sid'[c] # sid[c]
    BY <1>2, <2>1 DEF SessionInv, TypeOK, SidInv, ReuseSession, Moves
  <2>2. \E d \in Callers : ReuseSession(d)
    BY <1>2 DEF SessionInv, TypeOK, Next, clientVars, callerVars, Locks, Posts, CallTool,
       LockAndInitialize, Initialized, Notified, HandshakeFails, ToolRuns, CallFails,
       SessionUnknown, BadRequest, Rejects, InvalidateSession, Return, Evict, Moves
  <2>3. QED
    BY <2>1, <2>2
<1>3. QED
  BY <1>1, <1>2, SessionInvariant, PTL DEF Spec, FreshSessionIsKept, RetryIsOnAnother

-------------------------------------------------------------------------------
(* VmcpBridge.                                                             *)

(* A call is a request and a position of it.                               *)
LEMMA CallParts ==
  /\ \A c \in Calls : c[1] \in Requests /\ c[2] \in Positions /\ c = <<c[1], c[2]>>
  /\ \A r \in Requests, i \in Positions : <<r, i>> \in Calls
BY DEF Calls

(* The bridge starts with nothing asked and nothing sent.                  *)
LEMMA BridgeStart == BridgeInit => BridgeInv
BY CallParts DEF BridgeInit, BridgeInv, BridgeTypes, CallsProgress, UnknownAreErrors,
   MessagesAreApart, Untouched

(* A call of a running request ends with an entry it earned, and no other  *)
(* call notices.                                                           *)
LEMMA SettleKeeps ==
  ASSUME BridgeInv, NEW c \in Calls, NEW entry, Settle(c, entry),
         state[c[1]] = "running", c \in Of(c[1]), ends[c] = 0,
         starts' \in [Calls -> Nat], starts'[c] = 1,
         \A d \in Calls : d # c => starts'[d] = starts[d],
         heard' \in {heard, heard \cup {c}},
         entry = IF c \in heard' THEN Said(c) ELSE Error,
         pending' \subseteq pending, \A k \in pending' : sent[k] # c,
         UNCHANGED <<asked, state, sent>>
  PROVE  BridgeInv'
<1> USE DEF BridgeInv
<1>1. /\ c \in Calls /\ state[c[1]] = "running" /\ c \in Of(c[1])
  OBVIOUS
<1>2. c[1] \in Requests /\ c[2] \in Positions /\ c = <<c[1], c[2]>>
  BY <1>1, CallParts
<1>3. /\ asked[c[1]] \in [kind : Kinds, size : Positions]
      /\ DOMAIN results[c[1]] = 1..asked[c[1]].size
      /\ c[2] \in 1..asked[c[1]].size /\ Forwarded(c[1])
  BY <1>1, <1>2 DEF BridgeTypes, UnknownAreErrors, Of, Positions
<1>4. /\ task' = [task EXCEPT ![c] = "done"]
      /\ results' = [results EXCEPT ![c[1]][c[2]] = entry]
      /\ ends' = [ends EXCEPT ![c] = ends[c] + 1]
  BY DEF Settle
<1>5. /\ DOMAIN results' = Requests
      /\ \A r \in Requests : DOMAIN results'[r] = DOMAIN results[r]
      /\ results'[c[1]][c[2]] = entry
      /\ \A r \in Requests, i \in Positions :
            i \in 1..asked[r].size /\ <<r, i>> # c => results'[r][i] = results[r][i]
  <2>1. DOMAIN results = Requests
    BY DEF BridgeTypes
  <2>2. results' = [results EXCEPT ![c[1]] = [results[c[1]] EXCEPT ![c[2]] = entry]]
    BY <1>4
  <2>3. /\ DOMAIN results' = Requests
        /\ results'[c[1]] = [results[c[1]] EXCEPT ![c[2]] = entry]
        /\ \A r \in Requests : r # c[1] => results'[r] = results[r]
    BY <1>2, <2>1, <2>2
  <2>4. /\ DOMAIN results'[c[1]] = DOMAIN results[c[1]]
        /\ results'[c[1]][c[2]] = entry
    BY <1>3, <2>3
  <2>5. ASSUME NEW i \in 1..asked[c[1]].size, i # c[2]
        PROVE  results'[c[1]][i] = results[c[1]][i]
    BY <1>3, <2>3, <2>5
  <2>6. QED
    BY <1>2, <2>3, <2>4, <2>5
<1>6. /\ task' \in [Calls -> {"todo", "waiting", "done"}] /\ task'[c] = "done"
      /\ ends' \in [Calls -> Nat]
      /\ \A d \in Calls : d # c => task'[d] = task[d] /\ ends'[d] = ends[d]
  BY <1>1, <1>4 DEF BridgeTypes
<1>7. Progress(c)'
  <2>2. starts'[c] = 1 /\ ends'[c] = 1
    BY <1>4 DEF BridgeTypes
  <2>3. QED
    BY <2>2, <1>5, <1>6 DEF Progress
<1>8. ASSUME NEW d \in Calls, d # c
      PROVE  /\ Untouched(d) => Untouched(d)'
             /\ state[d[1]] # "idle" /\ d \in Of(d[1]) /\ Progress(d) => Progress(d)'
  <2>1. /\ task'[d] = task[d] /\ ends'[d] = ends[d] /\ starts'[d] = starts[d]
        /\ d \in heard' <=> d \in heard
    BY <1>6, <1>8
  <2>2. state[d[1]] # "idle" /\ d \in Of(d[1]) => results'[d[1]][d[2]] = results[d[1]][d[2]]
    <3>1. /\ d[1] \in Requests /\ d[2] \in Positions /\ d = <<d[1], d[2]>>
          /\ d \in Of(d[1]) => d[2] <= asked[d[1]].size
      BY <1>8, CallParts DEF Of
    <3>2. state[d[1]] # "idle" /\ d \in Of(d[1]) => d[2] \in 1..asked[d[1]].size
      BY <3>1 DEF BridgeTypes, Positions
    <3>3. QED
      BY <1>5, <1>8, <3>1, <3>2
  <2>3. QED
    BY <2>1, <2>2 DEF Untouched, Progress
<1>9. BridgeTypes'
  BY <1>5, <1>6 DEF BridgeTypes
<1>10. CallsProgress'
  BY <1>1, <1>3, <1>6, <1>7, <1>8 DEF CallsProgress, Forwarded, Of
<1>11. UnknownAreErrors'
  <2>1. ASSUME NEW r \in Requests, state[r] # "idle", ~Forwarded(r), NEW i \in 1..asked[r].size
        PROVE  results'[r][i] = Error /\ Untouched(<<r, i>>)'
    <3>1. asked[r] \in [kind : Kinds, size : Positions] /\ r # c[1]
      BY <1>3, <2>1 DEF BridgeTypes
    <3>2. i \in Positions
      BY <2>1, <3>1, BridgeAssumption DEF Positions
    <3>3. <<r, i>> \in Calls /\ <<r, i>> # c
      BY <1>2, <3>1, <3>2, CallParts
    <3>4. QED
      BY <2>1, <3>2, <3>3, <1>5, <1>8 DEF UnknownAreErrors
  <2>2. QED
    BY <2>1 DEF UnknownAreErrors, Forwarded
<1>12. MessagesAreApart'
  <2>1. \A k \in 1..Len(sent) : sent[k] \in Calls /\ task[sent[k]] # "todo"
    BY DEF BridgeTypes, MessagesAreApart
  <2>2. \A k \in 1..Len(sent) : task'[sent[k]] # "todo"
    BY <2>1, <1>6
  <2>3. \A r : Of(r)' = Of(r)
    BY DEF Of
  <2>4. \A k \in pending' : k \in pending /\ k \in 1..Len(sent) /\ task'[sent[k]] = task[sent[k]]
    BY <2>1, <1>6 DEF BridgeTypes
  <2>5. QED
    BY <2>2, <2>3, <2>4 DEF MessagesAreApart
<1>13. QED
  BY <1>9, <1>10, <1>11, <1>12

(* What the invariant says of a call whose task is not done.               *)
LEMMA RunningCall ==
  ASSUME BridgeInv, NEW c \in Calls, state[c[1]] = "running", c \in Of(c[1])
  PROVE  /\ c[1] \in Requests /\ c[2] \in 1..asked[c[1]].size /\ Forwarded(c[1])
         /\ DOMAIN results[c[1]] = 1..asked[c[1]].size
         /\ Progress(c)
<1>1. c[1] \in Requests /\ c[2] \in Positions /\ c[2] <= asked[c[1]].size
  BY CallParts DEF Of
<1>2. Forwarded(c[1]) /\ Progress(c)
  BY <1>1 DEF BridgeInv, UnknownAreErrors, CallsProgress
<1>3. /\ DOMAIN results[c[1]] = 1..asked[c[1]].size
      /\ asked[c[1]].size \in Positions
  BY <1>1 DEF BridgeInv, BridgeTypes
<1>4. QED
  BY <1>1, <1>2, <1>3, BridgeAssumption DEF Positions

(* A message that is waited for ends with its call.                        *)
LEMMA PendingSettles ==
  ASSUME BridgeInv, NEW m \in pending, NEW c, c = sent[m], NEW entry,
         Settle(c, entry), pending' = pending \ {m},
         heard' \in {heard, heard \cup {c}},
         entry = IF c \in heard' THEN Said(c) ELSE Error,
         UNCHANGED <<asked, state, sent, starts>>
  PROVE  BridgeInv'
<1>1. /\ m \in 1..Len(sent) /\ c \in Calls /\ starts \in [Calls -> Nat]
      /\ task[c] = "waiting" /\ state[c[1]] = "running" /\ c \in Of(c[1])
  BY DEF BridgeInv, BridgeTypes, MessagesAreApart
<1>2. starts[c] = 1 /\ ends[c] = 0
  BY <1>1, RunningCall DEF Progress, Untouched
<1>3. \A k \in pending' : sent[k] # c
  BY <1>1 DEF BridgeInv, BridgeTypes, MessagesAreApart
<1>4. QED
  BY <1>1, <1>2, <1>3, SettleKeeps

(* A task that hands its call to the session.                              *)
LEMMA InvokeKeeps ==
  ASSUME BridgeInv, NEW c \in Calls, Invoke(c)
  PROVE  BridgeInv'
<1>1. /\ state[c[1]] = "running" /\ c \in Of(c[1]) /\ task[c] = "todo"
      /\ starts' = [starts EXCEPT ![c] = starts[c] + 1]
      /\ UNCHANGED <<asked, state, heard>>
  BY DEF Invoke
<1>2. starts[c] = 0 /\ ends[c] = 0 /\ c \notin heard
  BY <1>1, RunningCall DEF Progress, Untouched
<1>3. /\ starts' \in [Calls -> Nat] /\ starts'[c] = 1
      /\ \A d \in Calls : d # c => starts'[d] = starts[d]
  BY <1>1, <1>2 DEF BridgeInv, BridgeTypes
<1>4. \A m \in pending : sent[m] # c
  BY <1>1 DEF BridgeInv, BridgeTypes, MessagesAreApart
<1>5. CASE Settle(c, Error) /\ UNCHANGED <<sent, pending>>
  BY <1>1, <1>2, <1>3, <1>4, <1>5, SettleKeeps
<1>6. CASE /\ sent' = Append(sent, c) /\ pending' = pending \cup {Len(sent) + 1}
           /\ task' = [task EXCEPT ![c] = "waiting"]
           /\ UNCHANGED <<results, ends>>
  <2>1. /\ sent \in Seq(Calls) /\ Len(sent) \in Nat /\ pending \subseteq 1..Len(sent)
    BY DEF BridgeInv, BridgeTypes
  <2>2. /\ sent' \in Seq(Calls) /\ Len(sent') = Len(sent) + 1
        /\ sent'[Len(sent) + 1] = c
        /\ \A k \in 1..Len(sent) : sent'[k] = sent[k]
    BY <1>6, <2>1
  <2>3. /\ task' \in [Calls -> {"todo", "waiting", "done"}] /\ task'[c] = "waiting"
        /\ \A d \in Calls : d # c => task'[d] = task[d]
    BY <1>6 DEF BridgeInv, BridgeTypes
  <2>4. BridgeTypes'
    <3>1. pending' \subseteq 1..Len(sent')
      <4>1. \A k \in pending' : k \in 1..Len(sent) \/ k = Len(sent) + 1
        BY <1>6, <2>1
      <4>2. \A k : k \in 1..Len(sent) \/ k = Len(sent) + 1 => k \in 1..(Len(sent) + 1)
        BY <2>1
      <4>3. QED
        BY <2>2, <4>1, <4>2
    <3>2. results' = results /\ ends' = ends
      BY <1>6
    <3>3. QED
      BY <1>1, <1>3, <2>2, <2>3, <3>1, <3>2 DEF BridgeInv, BridgeTypes
  <2>5. CallsProgress'
    <3>1. ASSUME NEW d \in Calls, d # c
          PROVE  (Untouched(d) => Untouched(d)') /\ (Progress(d) => Progress(d)')
      BY <1>1, <1>3, <1>6, <2>3, <3>1 DEF Untouched, Progress
    <3>2. Progress(c)'
      BY <1>1, <1>2, <1>3, <1>6, <2>3 DEF Progress
    <3>3. QED
      BY <1>1, <2>3, <3>1, <3>2 DEF BridgeInv, CallsProgress, Forwarded, Of
  <2>6. UnknownAreErrors'
    <3>1. ASSUME NEW r \in Requests, state[r] # "idle", ~Forwarded(r), NEW i \in 1..asked[r].size
          PROVE  results'[r][i] = Error /\ Untouched(<<r, i>>)'
      <4>1. results[r][i] = Error /\ Untouched(<<r, i>>) /\ state[r] = "answered"
        BY <3>1 DEF BridgeInv, UnknownAreErrors
      <4>2. i \in Positions
        BY <3>1, BridgeAssumption DEF BridgeInv, BridgeTypes, Positions
      <4>3. <<r, i>> \in Calls /\ <<r, i>> # c
        BY <1>1, <4>1, <4>2, CallParts
      <4>4. QED
        BY <1>1, <1>3, <1>6, <2>3, <4>1, <4>3 DEF Untouched
    <3>2. QED
      BY <1>1, <3>1 DEF BridgeInv, UnknownAreErrors, Forwarded
  <2>7. MessagesAreApart'
    <3>1. \A k \in 1..Len(sent) : task[sent[k]] # "todo" /\ sent[k] # c /\ sent[k] \in Calls
      BY <1>1, <2>1 DEF BridgeInv, MessagesAreApart
    <3>2. \A k \in 1..Len(sent') : k \in 1..Len(sent) \/ k = Len(sent) + 1
      BY <2>1, <2>2
    <3>3. \A k, n \in 1..Len(sent') : k # n => sent'[k] # sent'[n]
      BY <2>2, <3>1, <3>2 DEF BridgeInv, MessagesAreApart
    <3>4. \A k \in 1..Len(sent') : task'[sent'[k]] # "todo"
      BY <2>2, <2>3, <3>1, <3>2
    <3>5. /\ \A r : Of(r)' = Of(r)
          /\ state' = state
      BY <1>1 DEF Of
    <3>6. ASSUME NEW k \in pending'
          PROVE  /\ task'[sent'[k]] = "waiting" /\ state[sent'[k][1]] = "running"
                 /\ sent'[k] \in Of(sent'[k][1])
      <4>1. CASE k \in pending
        <5>1. /\ task[sent[k]] = "waiting" /\ state[sent[k][1]] = "running"
              /\ sent[k] \in Of(sent[k][1])
          BY <4>1 DEF BridgeInv, MessagesAreApart
        <5>2. k \in 1..Len(sent)
          BY <2>1, <4>1
        <5>3. QED
          BY <2>2, <2>3, <3>1, <5>1, <5>2
      <4>2. CASE k = Len(sent) + 1
        BY <1>1, <2>2, <2>3, <4>2
      <4>3. QED
        BY <1>6, <3>6, <4>1, <4>2
    <3>7. QED
      BY <3>3, <3>4, <3>5, <3>6 DEF MessagesAreApart
  <2>8. QED
    BY <2>4, <2>5, <2>6, <2>7 DEF BridgeInv
<1>7. QED
  BY <1>5, <1>6 DEF Invoke

(* A request that arrives has been touched by nothing.                     *)
LEMMA AskKeeps ==
  ASSUME BridgeInv, NEW r \in Requests, NEW kind \in Kinds, NEW n \in Positions, Ask(r, kind, n)
  PROVE  BridgeInv'
<1> DEFINE entry == IF kind = "unknown" THEN Error ELSE Empty
<1>1. /\ state[r] = "idle"
      /\ asked' = [asked EXCEPT ![r] = [kind |-> kind, size |-> n]]
      /\ state' = [state EXCEPT ![r] = IF kind = "unknown" THEN "answered" ELSE "running"]
      /\ results' = [results EXCEPT ![r] = [i \in 1..n |-> entry]]
      /\ UNCHANGED <<task, sent, pending, ran, heard, session, starts, ends>>
  BY DEF Ask
<1> HIDE DEF entry
<1>2. /\ asked'[r].kind = kind /\ asked'[r].size = n
      /\ asked'[r] \in [kind : Kinds, size : Positions]
      /\ state'[r] = IF kind = "unknown" THEN "answered" ELSE "running"
      /\ DOMAIN results'[r] = 1..n /\ \A i \in 1..n : results'[r][i] = entry
      /\ \A q \in Requests : q # r =>
            asked'[q] = asked[q] /\ state'[q] = state[q] /\ results'[q] = results[q]
  BY <1>1 DEF BridgeInv, BridgeTypes
<1>3. \A c \in Calls : c[1] = r => Untouched(c)
  BY <1>1 DEF BridgeInv, CallsProgress
<1>4. \A c : Untouched(c)' <=> Untouched(c)
  BY <1>1 DEF Untouched
<1>5. \A c \in Calls : c[1] # r => /\ Progress(c)' <=> Progress(c)
                                   /\ c \in Of(c[1])' <=> c \in Of(c[1])
                                   /\ Forwarded(c[1])' <=> Forwarded(c[1])
  BY <1>1, <1>2, CallParts DEF Progress, Untouched, Of, Forwarded
<1>6. BridgeTypes'
  BY <1>1, <1>2 DEF BridgeInv, BridgeTypes
<1>7. CallsProgress'
  <2>1. ASSUME NEW c \in Calls, c[1] = r
        PROVE  /\ state'[r] # "idle" /\ Progress(c)'
               /\ state'[r] = "answered" => ~Forwarded(r)'
    BY <1>2, <1>3, <1>4, <2>1 DEF Progress, Forwarded
  <2>2. ASSUME NEW c \in Calls, c[1] # r
        PROVE  /\ state'[c[1]] = "idle" => Untouched(c)'
               /\ state'[c[1]] \in {"running", "answered"} /\ Forwarded(c[1])' /\ c \in Of(c[1])' =>
                     Progress(c)' /\ (state'[c[1]] = "answered" => task'[c] = "done")
    <3>1. state'[c[1]] = state[c[1]] /\ task' = task
      BY <1>1, <1>2, <2>2, CallParts
    <3>2. /\ state[c[1]] = "idle" => Untouched(c)
          /\ state[c[1]] \in {"running", "answered"} /\ Forwarded(c[1]) /\ c \in Of(c[1]) =>
                Progress(c) /\ (state[c[1]] = "answered" => task[c] = "done")
      BY DEF BridgeInv, CallsProgress
    <3>3. QED
      BY <1>4, <1>5, <2>2, <3>1, <3>2
  <2>3. QED
    BY <2>1, <2>2 DEF CallsProgress
<1>8. UnknownAreErrors'
  <2>1. ASSUME NEW q \in Requests, q # r, state'[q] # "idle", ~Forwarded(q)'
        PROVE  /\ state'[q] = "answered"
               /\ \A i \in 1..asked'[q].size : results'[q][i] = Error /\ Untouched(<<q, i>>)'
    BY <1>2, <1>4, <2>1 DEF BridgeInv, UnknownAreErrors, Forwarded
  <2>2. ASSUME ~Forwarded(r)'
        PROVE  /\ state'[r] = "answered"
               /\ \A i \in 1..asked'[r].size : results'[r][i] = Error /\ Untouched(<<r, i>>)'
    <3>1. kind = "unknown" /\ entry = Error
      BY <1>2, <2>2 DEF Forwarded, entry
    <3>2. \A i \in 1..n : <<r, i>> \in Calls /\ <<r, i>>[1] = r
      BY CallParts, BridgeAssumption DEF Positions
    <3>3. QED
      BY <1>2, <1>3, <1>4, <3>1, <3>2
  <2>3. QED
    BY <2>1, <2>2 DEF UnknownAreErrors
<1>9. MessagesAreApart'
  <2>1. ASSUME NEW m \in pending
        PROVE  /\ sent[m] \in Calls /\ sent[m][1] # r
    BY <1>1, <2>1 DEF BridgeInv, BridgeTypes, MessagesAreApart
  <2>2. QED
    BY <1>1, <1>2, <1>5, <2>1, CallParts DEF BridgeInv, MessagesAreApart
<1>10. QED
  BY <1>6, <1>7, <1>8, <1>9 DEF BridgeInv

(* The connection ends: a call that waits ends with an error.              *)
LEMMA CloseKeeps ==
  ASSUME BridgeInv, Close
  PROVE  BridgeInv'
<1> DEFINE hit == {sent[m] : m \in pending}
<1>1. /\ pending' = {} /\ UNCHANGED <<asked, state, sent, heard, starts>>
      /\ task' = [c \in Calls |-> IF c \in hit THEN "done" ELSE task[c]]
      /\ results' = [r \in Requests |-> [i \in DOMAIN results[r] |->
                        IF <<r, i>> \in hit THEN Error ELSE results[r][i]]]
      /\ ends' = [c \in Calls |-> IF c \in hit THEN ends[c] + 1 ELSE ends[c]]
  BY DEF Close
<1>2. \A c \in hit : /\ c \in Calls /\ task[c] = "waiting"
                     /\ state[c[1]] = "running" /\ c \in Of(c[1])
  BY DEF BridgeInv, BridgeTypes, MessagesAreApart
<1>3. \A c \in hit : starts[c] = 1 /\ ends[c] = 0 /\ c \notin heard
  BY <1>2, RunningCall DEF Progress, Untouched
<1> HIDE DEF hit
<1>4. BridgeTypes'
  BY <1>1 DEF BridgeInv, BridgeTypes
<1>5. ASSUME NEW c \in Calls
      PROVE  /\ Untouched(c) => Untouched(c)'
             /\ c \in hit => Progress(c)' /\ task'[c] = "done"
             /\ c \notin hit /\ state[c[1]] # "idle" /\ c \in Of(c[1]) /\ Progress(c)
                  => Progress(c)' /\ task'[c] = task[c]
  <2>1. Untouched(c) => Untouched(c)'
    BY <1>1, <1>2 DEF Untouched
  <2>2. ASSUME state[c[1]] # "idle", c \in Of(c[1])
        PROVE  /\ c[1] \in Requests /\ c = <<c[1], c[2]>>
               /\ c[2] \in DOMAIN results[c[1]]
               /\ results'[c[1]][c[2]] = IF c \in hit THEN Error ELSE results[c[1]][c[2]]
    <3>1. /\ c[1] \in Requests /\ c[2] \in Positions /\ c = <<c[1], c[2]>>
          /\ c[2] <= asked[c[1]].size
      BY <2>2, CallParts DEF Of
    <3>2. c[2] \in DOMAIN results[c[1]]
      BY <2>2, <3>1, BridgeAssumption DEF BridgeInv, BridgeTypes, Positions
    <3>3. QED
      BY <1>1, <3>1, <3>2
  <2>3. ASSUME c \in hit PROVE Progress(c)' /\ task'[c] = "done"
    <3>1. results'[c[1]][c[2]] = Error
      BY <1>2, <2>2, <2>3
    <3>2. QED
      BY <1>1, <1>3, <2>3, <3>1 DEF Progress
  <2>4. ASSUME c \notin hit, state[c[1]] # "idle", c \in Of(c[1]), Progress(c)
        PROVE  Progress(c)' /\ task'[c] = task[c]
    BY <1>1, <2>1, <2>2, <2>4 DEF Progress
  <2>5. QED
    BY <2>1, <2>3, <2>4
<1>6. /\ \A r : Of(r)' = Of(r) /\ (Forwarded(r)' <=> Forwarded(r))
      /\ UNCHANGED <<state, sent>>
  BY <1>1 DEF Of, Forwarded
<1>7. CallsProgress'
  <2>1. ASSUME NEW c \in Calls, state[c[1]] \in {"running", "answered"}, Forwarded(c[1]),
               c \in Of(c[1])
        PROVE  Progress(c)' /\ (state[c[1]] = "answered" => task'[c] = "done")
    BY <1>2, <1>5, <2>1 DEF BridgeInv, CallsProgress
  <2>2. \A c \in Calls : state[c[1]] = "idle" => Untouched(c)'
    BY <1>5 DEF BridgeInv, CallsProgress
  <2>3. QED
    BY <1>6, <2>1, <2>2 DEF CallsProgress
<1>8. UnknownAreErrors'
  <2>1. ASSUME NEW r \in Requests, state[r] # "idle", ~Forwarded(r), NEW i \in 1..asked[r].size
        PROVE  results'[r][i] = Error /\ Untouched(<<r, i>>)'
    <3>1. results[r][i] = Error /\ Untouched(<<r, i>>) /\ i \in DOMAIN results[r] /\ i \in Positions
      BY <2>1, BridgeAssumption DEF BridgeInv, UnknownAreErrors, BridgeTypes, Positions
    <3>2. QED
      BY <1>1, <1>5, <2>1, <3>1, CallParts
  <2>2. QED
    BY <1>1, <1>6, <2>1 DEF BridgeInv, UnknownAreErrors
<1>9. MessagesAreApart'
  <2>1. \A m \in 1..Len(sent) : sent[m] \in Calls /\ task[sent[m]] # "todo"
    BY DEF BridgeInv, BridgeTypes, MessagesAreApart
  <2>2. QED
    BY <1>1, <2>1 DEF BridgeInv, MessagesAreApart
<1>10. QED
  BY <1>4, <1>7, <1>8, <1>9 DEF BridgeInv

(* A request ends only when each of its tasks has.                         *)
LEMMA ReplyKeeps ==
  ASSUME BridgeInv, NEW r \in Requests, Reply(r)
  PROVE  BridgeInv'
<1>1. /\ state[r] = "running" /\ \A c \in Of(r) : task[c] = "done"
      /\ state' = [state EXCEPT ![r] = "answered"]
      /\ UNCHANGED <<asked, task, results, sent, pending, heard, starts, ends>>
  BY DEF Reply, Over
<1>2. /\ \A c : Of(c)' = Of(c) /\ (Forwarded(c)' <=> Forwarded(c))
      /\ \A c : (Untouched(c)' <=> Untouched(c)) /\ (Progress(c)' <=> Progress(c))
      /\ state'[r] = "answered" /\ \A q \in Requests : q # r => state'[q] = state[q]
  BY <1>1 DEF Of, Forwarded, Untouched, Progress, BridgeInv, BridgeTypes
<1>3. BridgeTypes'
  BY <1>1, <1>2 DEF BridgeInv, BridgeTypes
<1>4. CallsProgress'
  BY <1>1, <1>2, CallParts DEF BridgeInv, CallsProgress
<1>5. UnknownAreErrors'
  BY <1>1, <1>2 DEF BridgeInv, UnknownAreErrors
<1>6. MessagesAreApart'
  <2>1. ASSUME NEW m \in pending
        PROVE  state'[sent[m][1]] = "running"
    <3>1. /\ sent[m] \in Calls /\ sent[m] \in Of(sent[m][1]) /\ task[sent[m]] = "waiting"
          /\ state[sent[m][1]] = "running"
      BY <2>1 DEF BridgeInv, BridgeTypes, MessagesAreApart
    <3>2. sent[m][1] # r
      BY <1>1, <3>1
    <3>3. QED
      BY <1>2, <3>1, <3>2, CallParts
  <2>2. QED
    BY <1>1, <1>2, <2>1 DEF BridgeInv, MessagesAreApart
<1>7. QED
  BY <1>3, <1>4, <1>5, <1>6 DEF BridgeInv

(* A cancelled request is no longer of interest; the others stay as they   *)
(* are.                                                                    *)
LEMMA CancelKeeps ==
  ASSUME BridgeInv, NEW r \in Requests, Cancel(r)
  PROVE  BridgeInv'
<1>1. /\ state[r] = "running"
      /\ state' = [state EXCEPT ![r] = "cancelled"]
      /\ pending' = {m \in pending : sent[m][1] # r}
      /\ ends' = [c \in Calls |-> IF c[1] = r /\ task[c] = "waiting" THEN ends[c] + 1 ELSE ends[c]]
      /\ task' = [c \in Calls |-> IF c[1] = r THEN "done" ELSE task[c]]
      /\ UNCHANGED <<asked, results, sent, heard, starts>>
  BY DEF Cancel
<1>2. /\ \A c : Of(c)' = Of(c) /\ (Forwarded(c)' <=> Forwarded(c))
      /\ state'[r] = "cancelled" /\ \A q \in Requests : q # r => state'[q] = state[q]
      /\ \A c \in Calls : c[1] # r =>
            /\ Untouched(c)' <=> Untouched(c)
            /\ Progress(c)' <=> Progress(c)
            /\ task'[c] = task[c]
  BY <1>1 DEF Of, Forwarded, Untouched, Progress, BridgeInv, BridgeTypes
<1>3. BridgeTypes'
  <2>1. task' \in [Calls -> {"todo", "waiting", "done"}] /\ ends' \in [Calls -> Nat]
    BY <1>1 DEF BridgeInv, BridgeTypes
  <2>2. pending' \subseteq 1..Len(sent)
    BY <1>1 DEF BridgeInv, BridgeTypes
  <2>3. QED
    BY <1>1, <1>2, <2>1, <2>2 DEF BridgeInv, BridgeTypes
<1>4. CallsProgress'
  BY <1>1, <1>2, CallParts DEF BridgeInv, CallsProgress
<1>5. UnknownAreErrors'
  <2>1. ASSUME NEW q \in Requests, state'[q] # "idle", ~Forwarded(q)
        PROVE  q # r /\ state[q] # "idle" /\ state'[q] = state[q]
    BY <1>1, <1>2, <2>1 DEF BridgeInv, UnknownAreErrors
  <2>2. ASSUME NEW q \in Requests, q # r, state[q] # "idle", NEW i \in 1..asked[q].size
        PROVE  Untouched(<<q, i>>)' <=> Untouched(<<q, i>>)
    <3>1. i \in Positions
      BY <2>2, BridgeAssumption DEF BridgeInv, BridgeTypes, Positions
    <3>2. QED
      BY <1>2, <2>2, <3>1, CallParts
  <2>3. QED
    BY <1>1, <1>2, <2>1, <2>2 DEF BridgeInv, UnknownAreErrors
<1>6. MessagesAreApart'
  <2>1. \A m \in 1..Len(sent) : sent[m] \in Calls /\ task[sent[m]] # "todo"
    BY DEF BridgeInv, BridgeTypes, MessagesAreApart
  <2>2. \A m \in 1..Len(sent) : task'[sent[m]] # "todo"
    BY <1>1, <2>1
  <2>3. ASSUME NEW m \in pending'
        PROVE  /\ m \in pending /\ state'[sent[m][1]] = state[sent[m][1]]
               /\ task'[sent[m]] = task[sent[m]]
    BY <1>1, <1>2, <2>1, <2>3, CallParts DEF BridgeInv, BridgeTypes
  <2>4. QED
    BY <1>1, <1>2, <2>2, <2>3 DEF BridgeInv, MessagesAreApart
<1>7. QED
  BY <1>3, <1>4, <1>5, <1>6 DEF BridgeInv

(* What the backend alone has seen is of no consequence here.              *)
LEMMA NothingMoves ==
  ASSUME BridgeInv,
         UNCHANGED <<asked, state, task, results, sent, pending, heard, starts, ends>>
  PROVE  BridgeInv'
BY DEF BridgeInv, BridgeTypes, CallsProgress, UnknownAreErrors, MessagesAreApart,
   Forwarded, Of, Progress, Untouched

(* Every step keeps the invariant: one case per action.                    *)
LEMMA BridgeStep == BridgeInv /\ [BridgeNext]_bridgeVars => BridgeInv'
<1> SUFFICES ASSUME BridgeInv, [BridgeNext]_bridgeVars PROVE BridgeInv'
  OBVIOUS
<1>1. ASSUME NEW r \in Requests, NEW kind \in Kinds, NEW n \in Positions, Ask(r, kind, n)
      PROVE  BridgeInv'
  BY <1>1, AskKeeps
<1>2. ASSUME NEW r \in Requests, Reply(r) \/ Cancel(r) PROVE BridgeInv'
  BY <1>2, ReplyKeeps, CancelKeeps
<1>3. ASSUME NEW c \in Calls, Invoke(c) PROVE BridgeInv'
  BY <1>3, InvokeKeeps
<1>4. ASSUME NEW m, Timeout(m) PROVE BridgeInv'
  <2>1. /\ m \in pending /\ Settle(sent[m], Error) /\ pending' = pending \ {m}
        /\ UNCHANGED <<asked, state, sent, heard, starts>>
    BY <1>4 DEF Timeout
  <2>2. sent[m] \notin heard
    <3>1. /\ sent[m] \in Calls /\ task[sent[m]] = "waiting"
          /\ state[sent[m][1]] = "running" /\ sent[m] \in Of(sent[m][1])
      BY <2>1 DEF BridgeInv, BridgeTypes, MessagesAreApart
    <3>2. QED
      BY <3>1, RunningCall DEF Progress, Untouched
  <2>3. QED
    BY <2>1, <2>2, PendingSettles
<1>5. ASSUME NEW m, Answer(m) PROVE BridgeInv'
  <2>1. CASE m \in pending
    BY <1>5, <2>1, PendingSettles DEF Answer
  <2>2. CASE m \notin pending
    BY <1>5, <2>2, NothingMoves DEF Answer
  <2>3. QED
    BY <2>1, <2>2
<1>6. CASE Close
  BY <1>6, CloseKeeps
<1>7. CASE UNCHANGED bridgeVars
  BY <1>7, NothingMoves DEF bridgeVars
<1>8. QED
  BY <1>1, <1>2, <1>3, <1>4, <1>5, <1>6, <1>7 DEF BridgeNext, Kinds

(* The invariant holds in every reachable state.                           *)
LEMMA BridgeInvariant == BridgeSpec => []BridgeInv
BY BridgeStart, BridgeStep, PTL DEF BridgeSpec

(* An answered request carries, at each position, what the backend said of *)
(* that very call, or an error: whatever answers crossed, timed out or     *)
(* were lost with the connection.                                          *)
THEOREM EntriesAlwaysTheirOwn == BridgeSpec => []EntriesAreTheirOwn
<1>1. BridgeInv => EntriesAreTheirOwn
  <2> SUFFICES ASSUME BridgeInv, NEW r \in Requests, state[r] = "answered"
               PROVE  /\ \A i \in DOMAIN results[r] :
                           results[r][i] = IF <<r, i>> \in heard THEN Said(<<r, i>>) ELSE Error
                      /\ Forwarded(r) => \A c \in Of(r) : starts[c] = 1 /\ ends[c] = 1
    BY DEF EntriesAreTheirOwn, Forwarded
  <2>1. /\ DOMAIN results[r] = 1..asked[r].size /\ asked[r].size \in Positions
    BY DEF BridgeInv, BridgeTypes
  <2>2. CASE ~Forwarded(r)
    BY <2>1, <2>2 DEF BridgeInv, UnknownAreErrors, Untouched
  <2>3. CASE Forwarded(r)
    <3>1. ASSUME NEW c \in Of(r)
          PROVE  /\ starts[c] = 1 /\ ends[c] = 1
                 /\ results[r][c[2]] = IF c \in heard THEN Said(c) ELSE Error
      <4>1. c \in Calls /\ c[1] = r
        BY <3>1 DEF Of
      <4>2. QED
        BY <2>3, <3>1, <4>1 DEF BridgeInv, CallsProgress, Progress, Untouched
    <3>2. \A i \in 1..asked[r].size : <<r, i>> \in Of(r)
      BY <2>1, CallParts, BridgeAssumption DEF Of, Positions
    <3>3. QED
      BY <2>1, <3>1, <3>2
  <2>4. QED
    BY <2>2, <2>3
<1>2. QED
  BY <1>1, BridgeInvariant, PTL

(* No call goes to vMCP twice, and none after its request ended.           *)
THEOREM CallsSentOnce == BridgeSpec => SentOnce
<1>1. ASSUME BridgeInv, [BridgeNext]_bridgeVars
      PROVE  [\A m \in (Len(sent) + 1)..Len(sent') :
                /\ state[sent'[m][1]] = "running"
                /\ \A k \in 1..Len(sent) : sent[k] # sent'[m]]_bridgeVars
  <2>1. sent \in Seq(Calls) /\ Len(sent) \in Nat
    BY <1>1 DEF BridgeInv, BridgeTypes
  <2>2. CASE sent' = sent
    BY <2>1, <2>2
  <2>3. ASSUME NEW c \in Calls, Invoke(c), sent' = Append(sent, c)
        PROVE  \A m \in (Len(sent) + 1)..Len(sent') :
                 /\ state[sent'[m][1]] = "running"
                 /\ \A k \in 1..Len(sent) : sent[k] # sent'[m]
    <3>1. Len(sent') = Len(sent) + 1 /\ sent'[Len(sent) + 1] = c
      BY <2>1, <2>3
    <3>2. state[c[1]] = "running" /\ task[c] = "todo"
      BY <2>3 DEF Invoke
    <3>3. \A k \in 1..Len(sent) : sent[k] # c
      BY <1>1, <3>2 DEF BridgeInv, MessagesAreApart
    <3>4. \A m \in (Len(sent) + 1)..Len(sent') : m = Len(sent) + 1
      BY <2>1, <3>1
    <3>5. QED
      BY <3>1, <3>2, <3>3, <3>4
  <2>4. \/ sent' = sent
        \/ \E c \in Calls : Invoke(c) /\ sent' = Append(sent, c)
    BY <1>1 DEF BridgeNext, bridgeVars, Ask, Invoke, Answer, Timeout, Close, Reply, Cancel
  <2>5. QED
    BY <2>2, <2>3, <2>4
<1>2. QED
  BY <1>1, BridgeInvariant, PTL DEF BridgeSpec, SentOnce
==============================================================================
