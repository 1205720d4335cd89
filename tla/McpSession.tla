------------------------------ MODULE McpSession ------------------------------
(***************************************************************************)
(* The MCP session every live-resolved gate of the shim shares             *)
(* (mcp-cerbos-shim/internal/upstream/client.go): CallTool from many       *)
(* goroutines, the handshake made under the client's mutex, the server's   *)
(* rejection of a session it no longer knows, and the one retry.           *)
(*                                                                         *)
(* The mutex is held across the two POSTs of a handshake and is otherwise  *)
(* released within a step, so mu is a variable only for the handshake.  A  *)
(* POST is one step at the server, whose answer may be lost; a deadline    *)
(* that passes during a POST is one of the ways it fails.                  *)
(***************************************************************************)
EXTENDS Integers, FiniteSets

CONSTANTS Callers,      \* goroutines in CallTool
          NoOne,        \* Client.mu is free
          MaxSessions,  \* bound on the sessions the server opens
          MaxEvictions  \* bound on the sessions the server forgets

ASSUME CallersAssumption == NoOne \notin Callers
ASSUME BoundsAssumption == MaxSessions \in Nat /\ MaxEvictions \in Nat

VARIABLES
  mu,          \* who holds Client.mu across a handshake
  sessionID,   \* Client.sessionID
  handshakes,  \* Client.handshakes
  pc,          \* where each caller is in CallTool
  attempt,     \* 1, or 2 for the retry
  sid,         \* the session of the caller's attempt
  issued,      \* the server has opened sessions 1..issued
  live,        \* the sessions the server still knows
  condemned,   \* history: sessions the server rejected a call on
  evictions,   \* history: how many sessions the server has forgotten
  past         \* history of each caller's current call

clientVars == <<mu, sessionID, handshakes>>
callerVars == <<pc, attempt, sid>>
serverVars == <<issued, live, evictions>>
vars == <<mu, sessionID, handshakes, pc, attempt, sid, issued, live, evictions,
          condemned, past>>

NoSession == 0

Waiting == {"lock", "invalidate"}
Handshaking == {"initialize", "notify"}
Posting == Handshaking \cup {"call"}
Ended == {"succeeded", "failed", "refused"}
Phases == {"idle"} \cup Waiting \cup Posting \cup Ended

NoPast == [evictions |-> 0, runs |-> 0, bad |-> FALSE]

Moves(c, to) == pc' = [pc EXCEPT ![c] = to]

Init == /\ mu = NoOne /\ sessionID = NoSession /\ handshakes = 0
        /\ pc = [c \in Callers |-> "idle"]
        /\ attempt = [c \in Callers |-> 1]
        /\ sid = [c \in Callers |-> NoSession]
        /\ issued = 0 /\ live = {} /\ evictions = 0
        /\ condemned = {}
        /\ past = [c \in Callers |-> NoPast]

CallTool(c) ==
  /\ pc[c] = "idle"
  /\ Moves(c, "lock")
  /\ past' = [past EXCEPT ![c].evictions = evictions]
  /\ UNCHANGED <<clientVars, attempt, sid, serverVars, condemned>>

(* session: there is one already.                                          *)
ReuseSession(c) ==
  /\ pc[c] = "lock" /\ mu = NoOne
  /\ sessionID # NoSession
  /\ Moves(c, "call")
  /\ sid' = [sid EXCEPT ![c] = sessionID]
  /\ UNCHANGED <<clientVars, attempt, serverVars, condemned, past>>

(* Mutant: the handshake is made outside the mutex.                        *)
InitializeUnlocked(c) ==
  /\ pc[c] = "lock" /\ sessionID = NoSession
  /\ Moves(c, "initialize")
  /\ UNCHANGED <<clientVars, attempt, sid, serverVars, condemned, past>>

(* session: there is none; keep the lock and initialize.                   *)
LockAndInitialize(c) ==
  /\ pc[c] = "lock" /\ mu = NoOne
  /\ sessionID = NoSession
  /\ mu' = c
  /\ Moves(c, "initialize")
  /\ UNCHANGED <<sessionID, handshakes, attempt, sid, serverVars, condemned, past>>

ServerOpens == /\ issued < MaxSessions
               /\ issued' = issued + 1
               /\ live' = live \cup {issued + 1}
               /\ UNCHANGED evictions

(* The initialize POST: the server assigns the next session.               *)
Initialized(c) ==
  /\ pc[c] = "initialize"
  /\ ServerOpens
  /\ sid' = [sid EXCEPT ![c] = issued + 1]
  /\ Moves(c, "notify")
  /\ UNCHANGED <<clientVars, attempt, condemned, past>>

(* The notifications/initialized POST: the session is ready and cached.    *)
Notified(c) ==
  /\ pc[c] = "notify" /\ sid[c] \in live
  /\ sessionID' = sid[c]
  /\ handshakes' = handshakes + 1
  /\ mu' = NoOne
  /\ Moves(c, "call")
  /\ UNCHANGED <<attempt, sid, serverVars, condemned, past>>

(* Mutant: a failed handshake is tried again until it succeeds.            *)
HandshakeRetries(c) ==
  /\ pc[c] \in Handshaking
  /\ \/ pc[c] = "initialize" /\ ServerOpens
     \/ UNCHANGED serverVars
  /\ mu' = NoOne
  /\ Moves(c, "lock")
  /\ UNCHANGED <<sessionID, handshakes, attempt, sid, condemned, past>>

(* Either POST of the handshake fails; the server may have opened a        *)
(* session nobody will use.  The lock is released and nothing is cached.   *)
HandshakeFails(c) ==
  /\ pc[c] \in Handshaking
  /\ \/ pc[c] = "initialize" /\ ServerOpens
     \/ UNCHANGED serverVars
  /\ mu' = NoOne
  /\ Moves(c, "failed")
  /\ UNCHANGED <<sessionID, handshakes, attempt, sid, condemned, past>>

(* Mutant: any failed call is retried, not only a rejected one.            *)
RetryAnyFailure(c) ==
  /\ pc[c] = "call" /\ sid[c] \in live
  /\ past' = [past EXCEPT ![c].runs = @ + 1]
  /\ Moves(c, "succeeded") \/ Moves(c, IF attempt[c] = 1 THEN "invalidate" ELSE "failed")
  /\ UNCHANGED <<clientVars, attempt, sid, serverVars, condemned>>

(* The tools/call POST on a known session: the tool runs.  Its answer may  *)
(* be lost, malformed or an error of the tool's own.                       *)
ToolRuns(c) ==
  /\ pc[c] = "call" /\ sid[c] \in live
  /\ past' = [past EXCEPT ![c].runs = @ + 1]
  /\ Moves(c, "succeeded") \/ Moves(c, "failed")
  /\ UNCHANGED <<clientVars, attempt, sid, serverVars, condemned>>

(* The tools/call POST does not reach the tool.                            *)
CallFails(c) ==
  /\ pc[c] = "call"
  /\ Moves(c, "failed")
  /\ UNCHANGED <<clientVars, attempt, sid, serverVars, condemned, past>>

(* A 404 or 400 to a call that named a session: errSessionRejected, which  *)
(* CallTool retries once.                                                  *)
Rejects(c) ==
  /\ condemned' = condemned \cup {sid[c]}
  /\ Moves(c, IF attempt[c] = 1 THEN "invalidate" ELSE "refused")

SessionUnknown(c) ==
  /\ pc[c] = "call" /\ sid[c] \notin live
  /\ Rejects(c)
  /\ UNCHANGED <<clientVars, attempt, sid, serverVars, past>>

(* A 400 for another reason than the session: the client cannot tell.      *)
BadRequest(c) ==
  /\ pc[c] = "call" /\ sid[c] \in live
  /\ Rejects(c)
  /\ past' = [past EXCEPT ![c].bad = TRUE]
  /\ UNCHANGED <<clientVars, attempt, sid, serverVars>>

(* Mutants: drop whatever session is cached; drop none.                    *)
InvalidateAny(c) ==
  /\ pc[c] = "invalidate" /\ mu = NoOne
  /\ sessionID' = NoSession
  /\ attempt' = [attempt EXCEPT ![c] = 2]
  /\ Moves(c, "lock")
  /\ UNCHANGED <<mu, handshakes, sid, serverVars, condemned, past>>
InvalidateNone(c) ==
  /\ pc[c] = "invalidate" /\ mu = NoOne
  /\ attempt' = [attempt EXCEPT ![c] = 2]
  /\ Moves(c, "lock")
  /\ UNCHANGED <<clientVars, sid, serverVars, condemned, past>>

(* invalidateSession, then the second callToolOnce.                        *)
InvalidateSession(c) ==
  /\ pc[c] = "invalidate" /\ mu = NoOne
  /\ sessionID' = IF sessionID = sid[c] THEN NoSession ELSE sessionID
  /\ attempt' = [attempt EXCEPT ![c] = 2]
  /\ Moves(c, "lock")
  /\ UNCHANGED <<mu, handshakes, sid, serverVars, condemned, past>>

(* CallTool returns and its locals are gone.                               *)
Return(c) ==
  /\ pc[c] \in Ended
  /\ Moves(c, "idle")
  /\ attempt' = [attempt EXCEPT ![c] = 1]
  /\ sid' = [sid EXCEPT ![c] = NoSession]
  /\ past' = [past EXCEPT ![c] = NoPast]
  /\ UNCHANGED <<clientVars, serverVars, condemned>>

(* The server restarts, evicts an idle session, or the gateway rolls.      *)
Evict(s) ==
  /\ evictions < MaxEvictions
  /\ live' = live \ {s}
  /\ evictions' = evictions + 1
  /\ UNCHANGED <<clientVars, callerVars, issued, condemned, past>>

Locks(c) == ReuseSession(c) \/ LockAndInitialize(c) \/ InvalidateSession(c)
Posts(c) == \/ Initialized(c) \/ Notified(c) \/ HandshakeFails(c)
            \/ ToolRuns(c) \/ CallFails(c) \/ SessionUnknown(c) \/ BadRequest(c)

Next == \/ \E c \in Callers : CallTool(c) \/ Locks(c) \/ Posts(c) \/ Return(c)
        \/ \E s \in live : Evict(s)

Spec == Init /\ [][Next]_vars

(* A POST ends, by its deadline at the latest.  sync.Mutex hands the lock  *)
(* to whoever has starved for a millisecond: a waiter that finds it free   *)
(* again and again does get it.                                            *)
FairSpec == /\ Spec
            /\ \A c \in Callers : /\ WF_vars(Posts(c))
                                  /\ SF_vars(Locks(c))
                                  /\ WF_vars(Return(c))
-------------------------------------------------------------------------------
(* The types of the state.                                                 *)
TypeOK ==
  /\ mu \in Callers \cup {NoOne}
  /\ sessionID \in 0..issued
  /\ handshakes \in Nat
  /\ pc \in [Callers -> Phases]
  /\ attempt \in [Callers -> 1..2]
  /\ sid \in [Callers -> 0..issued]
  /\ issued \in Nat
  /\ live \subseteq 1..issued
  /\ condemned \subseteq 1..issued
  /\ evictions \in Nat
  /\ past \in [Callers -> [evictions : Nat, runs : Nat, bad : BOOLEAN]]

(* The handshake stays off the per-lookup path: after the first, each      *)
(* completed handshake is owed to a session of its own that the server     *)
(* rejected, however many callers were told of the same rejection.         *)
HandshakesAreEarned == handshakes <= 1 + Cardinality(condemned)

(* A session is dropped only if the server rejected that very session: a   *)
(* late rejection of an old one never costs the one that replaced it.      *)
FreshSessionIsKept ==
  [][sessionID' = NoSession => sessionID \in condemned \cup {NoSession}]_vars

(* A lookup's tool runs at most once: the retry follows a refusal only.    *)
ToolRunsOnce == \A c \in Callers : past[c].runs <= 1

(* A stale session alone never fails a call: to be refused twice, another  *)
(* session must have died, or the request been at fault, during the call.  *)
StaleSessionIsSurvived ==
  \A c \in Callers :
    pc[c] = "refused" => evictions > past[c].evictions \/ past[c].bad

(* A retry goes out on another session than the one just rejected.         *)
RetryIsOnAnother ==
  [][\A c \in Callers : attempt[c] = 2 /\ pc[c] = "lock" /\ pc'[c] = "call"
        => sid'[c] # sid[c]]_vars

(* Every call ends, whatever the others and the server do.                 *)
EveryCallEnds ==
  \A c \in Callers : pc[c] \in Waiting \cup Posting ~> pc[c] \in Ended
-------------------------------------------------------------------------------
(* The inductive invariant behind the five safety properties.              *)

(* A handshake has the lock, no session is cached meanwhile, and a session *)
(* that is cached is the latest the server opened.                         *)
LockInv ==
  /\ mu # NoOne => pc[mu] \in Handshaking /\ sessionID = NoSession
  /\ \A c \in Callers : pc[c] \in Handshaking => mu = c
  /\ sessionID # NoSession => sessionID = issued

(* The session being made is nobody else's and not yet rejected.           *)
SidInv ==
  \A c \in Callers :
    /\ pc[c] = "notify" => /\ sid[c] = issued /\ sid[c] \notin condemned \cup {NoSession}
                           /\ \A d \in Callers \ {c} : sid[d] < sid[c]
    /\ pc[c] = "call" => sid[c] # NoSession
    /\ pc[c] = "invalidate" => sid[c] \in condemned /\ attempt[c] = 1
    /\ attempt[c] = 2 /\ pc[c] = "lock" => sid[c] \notin {sessionID, NoSession}
    /\ pc[c] = "idle" => attempt[c] = 1

(* Every completed handshake made a session that was rejected or is still  *)
(* good for use.                                                           *)
DebtInv ==
  handshakes <= Cardinality(condemned)
                + (IF sessionID \in condemned \cup {NoSession} THEN 0 ELSE 1)

RunsInv == \A c \in Callers : past[c].runs <= IF pc[c] \in Ended THEN 1 ELSE 0

Excused(c) == evictions > past[c].evictions \/ past[c].bad
AllLiveSince(s) == \A t \in s+1..issued : t \in live

(* If nothing was evicted since the call began, whatever session replaces  *)
(* the one it was rejected on is known to the server.                      *)
SurvivalInv ==
  \A c \in Callers :
    /\ past[c].evictions <= evictions
    /\ ~Excused(c) =>
         /\ \/ attempt[c] = 1 /\ pc[c] \in {"call", "invalidate"}
            \/ attempt[c] = 2 /\ pc[c] \in {"lock", "initialize"}
            => AllLiveSince(sid[c])
         /\ attempt[c] = 2 /\ pc[c] \in {"notify", "call"} => sid[c] \in live
         /\ pc[c] # "refused"

(* Everything above at once.                                               *)
SessionInv == TypeOK /\ LockInv /\ SidInv /\ DebtInv /\ RunsInv /\ SurvivalInv
==============================================================================
