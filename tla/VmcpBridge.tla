----------------------------- MODULE VmcpBridge -----------------------------
(***************************************************************************)
(* images/agent/vmcp-bridge/vmcp-stdio-bridge.py: the tool server of one    *)
(* agent process, which forwards single calls to vMCP as they are and the   *)
(* calls of a batch side by side, over one client session.                  *)
(*                                                                          *)
(* A call is <<request, position>>. The session gives every message an id,  *)
(* answers come in any order, not at all, or after the read timeout; the    *)
(* agent may cancel a request, and the session may close.                   *)
(***************************************************************************)
EXTENDS Naturals, Sequences

CONSTANTS Requests,
          MaxCalls,     \* calls of a batch (the code's schema allows eight)
          MaxMessages,  \* messages sent to vMCP
          None

ASSUME BridgeAssumption == MaxCalls \in Nat \ {0} /\ MaxMessages \in Nat

VARIABLES asked,    \* the kind and the number of calls of a request, or None
          state,    \* "idle", "running", "answered" or "cancelled"
          task,     \* per call: "todo", "waiting" or "done"
          results,  \* of a request: the entry of each position
          sent,     \* the calls sent to vMCP, in order: a message is its index
          pending,  \* messages whose call still waits
          ran,      \* messages the backend has answered
          heard,    \* calls whose answer came while they waited
          session,  \* "open" or "closed"
          starts, ends  \* the records of the trace, for each call

bridgeVars == <<asked, state, task, results, sent, pending, ran, heard, session, starts, ends>>

Positions == 1..MaxCalls
Calls == Requests \X Positions
Of(r) == {c \in Calls : c[1] = r /\ c[2] <= asked[r].size}
Empty == <<>>            \* an entry that is not set yet
Error == <<"error">>
Said(c) == c             \* what the backend says of this call

BridgeInit ==
    /\ asked = [r \in Requests |-> None] /\ state = [r \in Requests |-> "idle"]
    /\ task = [c \in Calls |-> "todo"] /\ results = [r \in Requests |-> <<>>]
    /\ sent = <<>> /\ pending = {} /\ ran = {} /\ heard = {} /\ session = "open"
    /\ starts = [c \in Calls |-> 0] /\ ends = [c \in Calls |-> 0]

-----------------------------------------------------------------------------
(* A request arrives: find_tool and call_tool are forwarded, a batch is      *)
(* spread over one task per call, any other name is answered at once.        *)
Ask(r, kind, n) ==
    /\ state[r] = "idle" /\ (kind # "batch" => n = 1)
    /\ asked' = [asked EXCEPT ![r] = [kind |-> kind, size |-> n]]
    /\ state' = [state EXCEPT ![r] = IF kind = "unknown" THEN "answered" ELSE "running"]
    /\ results' = [results EXCEPT ![r] = [i \in 1..n |-> IF kind = "unknown" THEN Error ELSE Empty]]
    /\ UNCHANGED <<task, sent, pending, ran, heard, session, starts, ends>>

(* A task takes its trace number and hands its call to the session; a closed *)
(* session raises at once.                                                   *)
Settle(c, entry) ==
    /\ task' = [task EXCEPT ![c] = "done"]
    /\ results' = [results EXCEPT ![c[1]][c[2]] = entry]
    /\ ends' = [ends EXCEPT ![c] = @ + 1]

Invoke(c) ==
    /\ state[c[1]] = "running" /\ c \in Of(c[1]) /\ task[c] = "todo"
    /\ starts' = [starts EXCEPT ![c] = @ + 1]
    /\ \/ /\ session = "open" /\ Len(sent) < MaxMessages
          /\ sent' = Append(sent, c) /\ pending' = pending \cup {Len(sent) + 1}
          /\ task' = [task EXCEPT ![c] = "waiting"]
          /\ UNCHANGED <<results, ends>>
       \/ session = "closed" /\ Settle(c, Error) /\ UNCHANGED <<sent, pending>>
    /\ UNCHANGED <<asked, state, ran, heard, session>>

(* The backend carries a message out, whether or not its call still waits:   *)
(* the session drops an answer nobody waits for.                             *)
Answer(m) ==
    /\ session = "open" /\ m \notin ran
    /\ ran' = ran \cup {m}
    /\ heard' = IF m \in pending THEN heard \cup {sent[m]} ELSE heard
    /\ IF m \in pending
       THEN Settle(sent[m], Said(sent[m])) /\ pending' = pending \ {m}
       ELSE UNCHANGED <<task, results, ends, pending>>
    /\ UNCHANGED <<asked, state, sent, session, starts>>

(* Mutant: the error of a call ends the task group, and its neighbours.      *)
TimeoutEscapes(m) ==
    /\ m \in pending
    /\ LET r == sent[m][1] IN
       /\ pending' = {k \in pending : sent[k][1] # r}
       /\ task' = [c \in Calls |-> IF c[1] = r THEN "done" ELSE task[c]]
       /\ results' = [results EXCEPT ![r] = [i \in DOMAIN @ |-> Error]]
       /\ ends' = [c \in Calls |-> IF c[1] = r /\ task[c] = "waiting" THEN ends[c] + 1 ELSE ends[c]]
    /\ UNCHANGED <<asked, state, sent, ran, heard, session, starts>>

(* Mutant: a call that timed out is tried again.                             *)
TimeoutRetries(m) ==
    /\ m \in pending
    /\ pending' = pending \ {m}
    /\ task' = [task EXCEPT ![sent[m]] = "todo"]
    /\ ends' = [ends EXCEPT ![sent[m]] = @ + 1]
    /\ UNCHANGED <<asked, state, results, sent, ran, heard, session, starts>>

(* Mutant: the session has no read timeout.                                  *)
TimeoutNever(m) == m \in pending /\ session = "none" /\ UNCHANGED bridgeVars

(* The read timeout of the session: the call of the task raises, and run_one *)
(* turns that into an entry. (A single call raises into the tool server,     *)
(* which answers with the error.)                                            *)
Timeout(m) ==
    /\ m \in pending
    /\ pending' = pending \ {m}
    /\ Settle(sent[m], Error)
    /\ UNCHANGED <<asked, state, sent, ran, heard, session, starts>>

(* The connection ends: every waiting call raises.                           *)
Close ==
    /\ session = "open" /\ session' = "closed" /\ pending' = {}
    /\ LET hit == {sent[m] : m \in pending} IN
       /\ task' = [c \in Calls |-> IF c \in hit THEN "done" ELSE task[c]]
       /\ results' = [r \in Requests |-> [i \in DOMAIN results[r] |->
                         IF <<r, i>> \in hit THEN Error ELSE results[r][i]]]
       /\ ends' = [c \in Calls |-> IF c \in hit THEN ends[c] + 1 ELSE ends[c]]
    /\ UNCHANGED <<asked, state, sent, ran, heard, starts>>

(* The task group has ended: every task of the request is done.              *)
Over(r) == \A c \in Of(r) : task[c] = "done"

Reply(r) ==
    /\ state[r] = "running" /\ Over(r)
    /\ state' = [state EXCEPT ![r] = "answered"]
    /\ UNCHANGED <<asked, task, results, sent, pending, ran, heard, session, starts, ends>>

(* The agent cancels a request: its tasks end where they wait, and are not   *)
(* turned into entries. vMCP is not told.                                    *)
Cancel(r) ==
    /\ state[r] = "running"
    /\ state' = [state EXCEPT ![r] = "cancelled"]
    /\ pending' = {m \in pending : sent[m][1] # r}
    /\ ends' = [c \in Calls |-> IF c[1] = r /\ task[c] = "waiting" THEN ends[c] + 1 ELSE ends[c]]
    /\ task' = [c \in Calls |-> IF c[1] = r THEN "done" ELSE task[c]]
    /\ UNCHANGED <<asked, results, sent, ran, heard, session, starts>>

BridgeNext ==
    \/ \E r \in Requests :
        \/ \E kind \in {"call_tool", "find_tool", "batch", "unknown"}, n \in Positions : Ask(r, kind, n)
        \/ Reply(r) \/ Cancel(r)
    \/ \E c \in Calls : Invoke(c)
    \/ \E m \in 1..Len(sent) : Answer(m) \/ Timeout(m)
    \/ Close

(* A started task runs, a timeout passes, and a finished request is answered. *)
BridgeFairness ==
    /\ \A c \in Calls : WF_bridgeVars(Invoke(c))
    /\ \A m \in 1..MaxMessages : WF_bridgeVars(m <= Len(sent) /\ Timeout(m))
    /\ \A r \in Requests : WF_bridgeVars(Reply(r))

BridgeSpec == BridgeInit /\ [][BridgeNext]_bridgeVars /\ BridgeFairness
-----------------------------------------------------------------------------
(* An answered request has an entry at every position, and the entry is what *)
(* the backend said of the call at that position if it came while the call    *)
(* waited, and an error otherwise: no failure of a call takes the answer of    *)
(* another away, and the trace has one start and one end of each. (run_one     *)
(* writes results[index], and the task group ends when all have.)              *)
EntriesAreTheirOwn ==
    \A r \in Requests : state[r] = "answered" =>
        /\ \A i \in DOMAIN results[r] :
              results[r][i] = IF <<r, i>> \in heard THEN Said(<<r, i>>) ELSE Error
        /\ asked[r].kind # "unknown" => \A c \in Of(r) : starts[c] = 1 /\ ends[c] = 1

(* No call is sent to vMCP twice, whatever timed out, was cancelled or lost,  *)
(* and nothing is sent for a request after it was answered or cancelled.      *)
(* (The bridge retries nothing: a batch may hold calls with effects.)         *)
SentOnce ==
    [][\A m \in (Len(sent) + 1)..Len(sent') :
          /\ state[sent'[m][1]] = "running"
          /\ \A k \in 1..Len(sent) : sent[k] # sent'[m]]_bridgeVars

(* Every request is answered or cancelled: a call that gets no answer times   *)
(* out, and a closed session fails what is left. (read_timeout_seconds.)      *)
EveryRequestEnds ==
    \A r \in Requests : state[r] = "running" ~> state[r] \in {"answered", "cancelled"}

-----------------------------------------------------------------------------
(* What makes the first two inductive.                                       *)
Kinds == {"call_tool", "find_tool", "batch", "unknown"}

BridgeTypes ==
    /\ state \in [Requests -> {"idle", "running", "answered", "cancelled"}]
    /\ task \in [Calls -> {"todo", "waiting", "done"}]
    /\ starts \in [Calls -> Nat] /\ ends \in [Calls -> Nat]
    /\ DOMAIN asked = Requests /\ DOMAIN results = Requests
    /\ sent \in Seq(Calls) /\ pending \subseteq 1..Len(sent)
    /\ \A r \in Requests : state[r] # "idle" =>
          /\ asked[r] \in [kind : Kinds, size : Positions]
          /\ DOMAIN results[r] = 1..asked[r].size

Untouched(c) == task[c] = "todo" /\ starts[c] = 0 /\ ends[c] = 0 /\ c \notin heard

(* A call starts once, ends once, and has its own entry when it has ended.   *)
Progress(c) ==
    \/ Untouched(c)
    \/ task[c] = "waiting" /\ starts[c] = 1 /\ ends[c] = 0 /\ c \notin heard
    \/ /\ task[c] = "done" /\ starts[c] = 1 /\ ends[c] = 1
       /\ results[c[1]][c[2]] = IF c \in heard THEN Said(c) ELSE Error

Forwarded(r) == asked[r].kind # "unknown"

CallsProgress ==
    \A c \in Calls :
        LET r == c[1] IN
        /\ state[r] = "idle" => Untouched(c)
        /\ state[r] \in {"running", "answered"} /\ Forwarded(r) /\ c \in Of(r) =>
              Progress(c) /\ (state[r] = "answered" => task[c] = "done")

UnknownAreErrors ==
    \A r \in Requests : state[r] # "idle" /\ ~Forwarded(r) =>
        /\ state[r] = "answered"
        /\ \A i \in 1..asked[r].size : results[r][i] = Error /\ Untouched(<<r, i>>)

(* Every message is of another call, and one that is waited for is of a call *)
(* that waits.                                                               *)
MessagesAreApart ==
    /\ \A k, m \in 1..Len(sent) : k # m => sent[k] # sent[m]
    /\ \A m \in 1..Len(sent) : task[sent[m]] # "todo"
    /\ \A m \in pending :
          LET c == sent[m] IN
          task[c] = "waiting" /\ state[c[1]] = "running" /\ c \in Of(c[1])

BridgeInv == BridgeTypes /\ CallsProgress /\ UnknownAreErrors /\ MessagesAreApart
=============================================================================
