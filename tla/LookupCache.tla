----------------------------- MODULE LookupCache -----------------------------
(***************************************************************************)
(* The shim's per-process cache of upstream lookup results                 *)
(* (mcp-cerbos-shim/internal/upstream/cache.go), the goroutines that call  *)
(* through it, and the upstream whose answers it remembers.  Cache.mu is   *)
(* held for the whole of get and of put and never across the network, so   *)
(* get, the upstream read and put are separate atomic steps and lookups    *)
(* interleave between them: there is no single-flight.                     *)
(*                                                                         *)
(* A result is abstracted to the value of upstream it shows (Values); its  *)
(* size matters and is a constant of the value.  superseded is a history   *)
(* variable: it records for how long each value has been out of date.      *)
(***************************************************************************)
EXTENDS Integers, FiniteSets, FiniteSetsExt

CONSTANTS
  Callers,        \* goroutines, one per gated tools/call in flight
  Lookups,        \* distinct lookups: records [tool, form, id]
  Values,         \* what upstream may answer
  KeySize,        \* [Lookups -> Nat]: len(key)
  ResultSize,     \* [Values -> Nat]: resultSize(result)
  DefaultTTL,     \* DefaultCacheTTL
  IdentityTTL,    \* pathIdentityCacheTTL
  LookupTimeout,  \* upstreamLookupTimeout, the deadline of one live lookup
  MaxEntries,     \* maxCacheEntries
  MaxResultBytes, \* maxCachedResultBytes
  MaxBytes,       \* maxCacheBytes
  MaxTime         \* bound on the clock, for TLC

ASSUME TimingAssumption ==
  /\ DefaultTTL \in Nat \ {0} /\ IdentityTTL \in Nat \ {0}
  /\ LookupTimeout \in Nat /\ MaxTime \in Nat
ASSUME SizeAssumption ==
  /\ MaxEntries \in Nat \ {0} /\ MaxResultBytes \in Nat /\ MaxBytes \in Nat
  /\ KeySize \in [Lookups -> Nat] /\ ResultSize \in [Values -> Nat]

VARIABLES
  now,         \* Cache.now
  truth,       \* what upstream answers to each lookup
  superseded,  \* history: when a value last stopped being the answer
  entries,     \* Cache.entries, a function from the keys it holds
  totalBytes,  \* Cache.totalBytes
  calls        \* where each caller stands

cacheVars == <<entries, totalBytes>>
worldVars == <<now, truth, superseded>>
vars == <<now, truth, superseded, entries, totalBytes, calls>>

Never == -1
Bypass == 0      \* cacheTTLFor's "not cacheable"

-------------------------------------------------------------------------------
(* Freshness classes.                                                      *)

CacheTTLByTool ==
  [t \in {"notion_fetch", "linear_get_issue", "linear_get_project",
          "github_pull_request_read", "gitlab_get_merge_request",
          "gitlab_get_project", "jira_get_issue", "pagerduty_get_incident",
          "pagerduty_secondary_get_incident"} |->
     IF t \in {"github_pull_request_read", "gitlab_get_merge_request",
               "gitlab_get_project"}
     THEN IdentityTTL ELSE DefaultTTL]

(* form says which shape of an argument-sensitive tool a lookup has: "get" *)
(* is the pull request itself, "source_branch" a merge request by branch.  *)
CacheTTLFor(l) ==
  IF l.tool \notin DOMAIN CacheTTLByTool THEN Bypass
  ELSE IF \/ l.tool = "github_pull_request_read" /\ l.form # "get"
          \/ l.tool = "gitlab_get_merge_request" /\ l.form = "source_branch"
  THEN DefaultTTL ELSE CacheTTLByTool[l.tool]

(* SilenceCreatedBy strips the cache from its caller.                      *)
Uncached(l) == l.tool = "alertmanager_getSilences"

Remembered(l) == ~Uncached(l) /\ CacheTTLFor(l) # Bypass

-------------------------------------------------------------------------------
(* The cache.                                                              *)

Entry == [result : Values, expiresAt : Nat, size : Nat]

Expired(l) == now >= entries[l].expiresAt

Hit(l) == l \in DOMAIN entries /\ ~Expired(l)

Keep(S) == [k \in S |-> entries[k]]
SizeOf(S) == MapThenSumSet(LAMBDA k : entries[k].size, S)

(* Mutant: the entries go, their bytes stay on the books.                  *)
DeleteUncounted(S) == entries' = Keep(DOMAIN entries \ S) /\ UNCHANGED totalBytes

(* deleteLocked on every key of S.                                         *)
Delete(S) == /\ entries' = Keep(DOMAIN entries \ S)
             /\ totalBytes' = totalBytes - SizeOf(S)

(* Mutant: the new entry's own bytes are left out of the reckoning.         *)
HasRoomBefore(gone, size) ==
  /\ Cardinality(DOMAIN entries \ gone) < MaxEntries
  /\ totalBytes - SizeOf(gone) <= MaxBytes

(* Both bounds have room for one more entry of this size once gone left.   *)
HasRoom(gone, size) ==
  /\ Cardinality(DOMAIN entries \ gone) < MaxEntries
  /\ totalBytes - SizeOf(gone) + size <= MaxBytes

(* evictNextLocked, repeated until there is room: what it can have dropped *)
(* beyond gone.  It always takes an entry closest to expiry, any one of    *)
(* them on a tie (map iteration order), and stops as soon as there is room.*)
Evictions(gone, size) ==
  {E \in SUBSET (DOMAIN entries \ gone) :
     /\ HasRoom(gone \cup E, size)
     /\ \A e \in E, k \in (DOMAIN entries \ gone) \ E :
           entries[e].expiresAt <= entries[k].expiresAt
     /\ E # {} => \E last \in E :
           /\ \A e \in E : entries[e].expiresAt <= entries[last].expiresAt
           /\ ~HasRoom(gone \cup (E \ {last}), size)}

Put(l, v) ==
  LET size == KeySize[l] + ResultSize[v]
      gone == {k \in DOMAIN entries : Expired(k) \/ k = l}
  IN IF ResultSize[v] > MaxResultBytes \/ size > MaxBytes
     THEN UNCHANGED cacheVars
     ELSE \E E \in Evictions(gone, size) :
            LET kept == DOMAIN entries \ (gone \cup E)
            IN /\ entries' = [k \in kept \cup {l} |->
                    IF k = l THEN [result |-> v, expiresAt |-> now + CacheTTLFor(l),
                                   size |-> size]
                    ELSE entries[k]]
               /\ totalBytes' = totalBytes - SizeOf(gone \cup E) + size

-------------------------------------------------------------------------------
(* Callers.                                                                *)

Idle == [phase |-> "idle"]
Reading(l) == [phase |-> "reading", lookup |-> l, since |-> now]
Replied(l, since, v) ==
  [phase |-> "replied", lookup |-> l, since |-> since, answer |-> v]
Answered(l, since, v) ==
  [phase |-> "answered", lookup |-> l, since |-> since, answer |-> v]

Call == {Idle} \cup [phase : {"reading"}, lookup : Lookups, since : Nat]
        \cup [phase : {"replied", "answered"}, lookup : Lookups, since : Nat,
              answer : Values]

(* Mutant: the live lookup runs without a deadline.                        *)
NoDeadline(c) == TRUE

(* ctx.Err() is still nil: the deadline of the call's context has not passed. *)
InTime(c) == now <= calls[c].since + LookupTimeout

Init == /\ now = 0
        /\ truth \in [Lookups -> Values]
        /\ superseded = [l \in Lookups |-> [v \in Values |-> Never]]
        /\ entries = [l \in {} |-> 0]
        /\ totalBytes = 0
        /\ calls = [c \in Callers |-> Idle]

(* CallTool finds a live entry and returns its result.                     *)
ServeHit(c, l) ==
  /\ calls[c] = Idle
  /\ Remembered(l) /\ Hit(l)
  /\ calls' = [calls EXCEPT ![c] = Answered(l, now, entries[l].result)]
  /\ UNCHANGED <<worldVars, cacheVars>>

(* get finds nothing live, dropping an entry that has expired; the caller  *)
(* goes upstream.                                                          *)
Miss(c, l) ==
  /\ calls[c] = Idle
  /\ Remembered(l) /\ ~Hit(l)
  /\ Delete(DOMAIN entries \cap {l})
  /\ calls' = [calls EXCEPT ![c] = Reading(l)]
  /\ UNCHANGED worldVars

(* A lookup nobody reviewed, or an uncached caller: straight to upstream.  *)
CallThrough(c, l) ==
  /\ calls[c] = Idle
  /\ ~Remembered(l)
  /\ calls' = [calls EXCEPT ![c] = Reading(l)]
  /\ UNCHANGED <<worldVars, cacheVars>>

(* Upstream computes its answer; the reply is on its way.                  *)
UpstreamReads(c) ==
  /\ calls[c].phase = "reading" /\ InTime(c)
  /\ calls' = [calls EXCEPT ![c] = Replied(calls[c].lookup, calls[c].since,
                                           truth[calls[c].lookup])]
  /\ UNCHANGED <<worldVars, cacheVars>>

(* The reply arrives: remember it if the lookup is cacheable, return it.   *)
(* put does not look at the deadline again and reads the clock once it has *)
(* the mutex; here it does so in the step in which the reply arrives.      *)
Receive(c) ==
  /\ calls[c].phase = "replied" /\ InTime(c)
  /\ LET l == calls[c].lookup
         v == calls[c].answer
     IN /\ IF Remembered(l) THEN Put(l, v) ELSE UNCHANGED cacheVars
        /\ calls' = [calls EXCEPT ![c] = Answered(l, calls[c].since, v)]
  /\ UNCHANGED worldVars

(* Any error of the inner call, its deadline included: nothing is put.     *)
Fail(c) ==
  /\ calls[c].phase \in {"reading", "replied"}
  /\ calls' = [calls EXCEPT ![c] = Idle]
  /\ UNCHANGED <<worldVars, cacheVars>>

(* The gate has used its answer.                                           *)
Done(c) ==
  /\ calls[c].phase = "answered"
  /\ calls' = [calls EXCEPT ![c] = Idle]
  /\ UNCHANGED <<worldVars, cacheVars>>

(* Somebody reassigns the ticket, moves the page, renames the project.     *)
TruthChanges(l) ==
  /\ \E v \in Values \ {truth[l]} : truth' = [truth EXCEPT ![l] = v]
  /\ superseded' = [superseded EXCEPT ![l][truth[l]] = now]
  /\ UNCHANGED <<now, cacheVars, calls>>

Tick == /\ now < MaxTime
        /\ now' = now + 1
        /\ UNCHANGED <<truth, superseded, cacheVars, calls>>

Next == \/ \E c \in Callers :
             \/ \E l \in Lookups : ServeHit(c, l) \/ Miss(c, l) \/ CallThrough(c, l)
             \/ UpstreamReads(c) \/ Receive(c) \/ Fail(c) \/ Done(c)
        \/ \E l \in Lookups : TruthChanges(l)
        \/ Tick

Spec == Init /\ [][Next]_vars

-------------------------------------------------------------------------------
(* Properties.                                                             *)

LastTrue(l, v) == IF truth[l] = v THEN now ELSE superseded[l][v]

(* A cached answer is live for less than its TTL after a put that follows  *)
(* the upstream read by at most the lookup deadline.  In whole ticks that  *)
(* is one less than the sum.                                               *)
MaxAge == [l \in Lookups |->
             IF Remembered(l) THEN CacheTTLFor(l) + LookupTimeout - 1 ELSE 0]

(* The types of the state; totalBytes is BytesAccounted's business.        *)
TypeOK ==
  /\ now \in Nat
  /\ truth \in [Lookups -> Values]
  /\ superseded \in [Lookups -> [Values -> Nat \cup {Never}]]
  /\ DOMAIN entries \subseteq Lookups
  /\ entries \in [DOMAIN entries -> Entry]
  /\ calls \in [Callers -> Call]

(* The documented memory bound of a pod: however lookups interleave, what  *)
(* the cache really holds stays within both limits.                        *)
WithinBudget ==
  /\ Cardinality(DOMAIN entries) <= MaxEntries
  /\ SizeOf(DOMAIN entries) <= MaxBytes

(* The running counter is what it counts, through every purge, replacement *)
(* and eviction: a drift would freeze the cache or let it grow.            *)
BytesAccounted == totalBytes = SizeOf(DOMAIN entries)

(* No gate decides on an answer that had been out of date for longer than  *)
(* its freshness class allows when the call began; a lookup that bypasses  *)
(* the cache is answered with something true during the call itself.       *)
AnswersAreFresh ==
  \A c \in Callers : calls[c].phase = "answered" =>
    LET l == calls[c].lookup
    IN /\ LastTrue(l, calls[c].answer) # Never
       /\ LastTrue(l, calls[c].answer) >= calls[c].since - MaxAge[l]

(* The cache keeps the promise made to gates: every step of it is a step   *)
(* that FreshLookup allows, or one a gate cannot see.                      *)
AbsCall(call) ==
  IF call.phase \in {"reading", "replied"}
  THEN [phase |-> "open", lookup |-> call.lookup, since |-> call.since]
  ELSE call

AbsCalls == [c \in Callers |-> AbsCall(calls[c])]

Abs == INSTANCE FreshLookup WITH calls <- AbsCalls
LooksFresh == Abs!Spec

(* What makes AnswersAreFresh inductive: the same bound on entries not yet *)
(* served and on replies not yet put.                                      *)
EntriesAreFresh ==
  \A l \in DOMAIN entries :
    /\ Remembered(l)
    /\ LastTrue(l, entries[l].result) # Never
    /\ LastTrue(l, entries[l].result)
         >= entries[l].expiresAt - CacheTTLFor(l) - LookupTimeout

RepliesAreFresh ==
  \A c \in Callers : calls[c].phase = "replied" =>
    LastTrue(calls[c].lookup, calls[c].answer) >= calls[c].since

HistoryIsPast ==
  /\ \A c \in Callers : calls[c].phase # "idle" => calls[c].since <= now
  /\ \A l \in Lookups, v \in Values : superseded[l][v] <= now

(* The inductive invariant: every remembered result, every reply in flight *)
(* and every answer given is as fresh as its place in the cache demands.   *)
FreshInv == TypeOK /\ HistoryIsPast /\ EntriesAreFresh /\ RepliesAreFresh
              /\ AnswersAreFresh

(* What makes WithinBudget inductive: room is judged by the running        *)
(* counter, so the counter has to be right, and only finitely many bytes   *)
(* can be counted.                                                         *)
BudgetInv == /\ IsFiniteSet(DOMAIN entries)
             /\ WithinBudget
             /\ BytesAccounted
==============================================================================
