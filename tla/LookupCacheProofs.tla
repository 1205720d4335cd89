-------------------------- MODULE LookupCacheProofs --------------------------
(***************************************************************************)
(* Proofs about LookupCache for every number of callers, lookups, values   *)
(* and every choice of TTLs, deadline and bounds: answers are fresh, and   *)
(* the cache implements FreshLookup.                                       *)
(***************************************************************************)
EXTENDS LookupCache, FiniteSetTheorems, WellFoundedInduction, TLAPS

(* Every lookup has a TTL, and a remembered one lives at least a tick.     *)
LEMMA TTLType ==
  ASSUME NEW l
  PROVE  /\ CacheTTLFor(l) \in Nat
         /\ Remembered(l) => CacheTTLFor(l) >= 1
<1>1. \A t \in DOMAIN CacheTTLByTool : CacheTTLByTool[t] \in Nat \ {0}
  BY TimingAssumption DEF CacheTTLByTool
<1>2. CacheTTLFor(l) \in Nat
  BY <1>1, TimingAssumption DEF CacheTTLFor, Bypass
<1>3. QED
  BY <1>2 DEF Remembered, Bypass

(* The largest age an answer of a lookup may have is a number of ticks.    *)
LEMMA MaxAgeType == MaxAge \in [Lookups -> Nat]
  BY TTLType, TimingAssumption DEF MaxAge

(* What was true stays true later: LastTrue never decreases.               *)
LEMMA LastTrueGrows ==
  ASSUME FreshInv, [Next]_vars, NEW l \in Lookups, NEW v \in Values
  PROVE  /\ LastTrue(l, v) \in Nat \cup {Never}
         /\ LastTrue(l, v)' \in Nat \cup {Never}
         /\ LastTrue(l, v)' >= LastTrue(l, v)
         /\ LastTrue(l, v) <= now
<1> USE DEF FreshInv, TypeOK, HistoryIsPast, LastTrue, Never
<1>1. /\ LastTrue(l, v) \in Nat \cup {Never}
      /\ LastTrue(l, v) <= now
  OBVIOUS
<1>2. CASE UNCHANGED worldVars
  BY <1>1, <1>2 DEF worldVars
<1>3. CASE Tick
  BY <1>1, <1>3 DEF Tick
<1>4. ASSUME NEW k \in Lookups, TruthChanges(k)
      PROVE  /\ LastTrue(l, v)' \in Nat \cup {Never}
             /\ LastTrue(l, v)' >= LastTrue(l, v)
  <2>1. PICK w \in Values \ {truth[k]} : truth' = [truth EXCEPT ![k] = w]
    BY <1>4 DEF TruthChanges
  <2>2. /\ superseded' = [superseded EXCEPT ![k][truth[k]] = now]
        /\ now' = now
    BY <1>4 DEF TruthChanges
  <2>3. CASE l = k /\ v = truth[k]
    BY <1>1, <2>1, <2>2, <2>3
  <2>4. CASE l = k /\ v # truth[k]
    BY <1>1, <2>1, <2>2, <2>4
  <2>5. CASE l # k
    BY <1>1, <2>1, <2>2, <2>5
  <2>6. QED
    BY <2>3, <2>4, <2>5
<1>5. UNCHANGED worldVars \/ Tick \/ \E k \in Lookups : TruthChanges(k)
  BY DEF Next, vars, worldVars, ServeHit, Miss, CallThrough, UpstreamReads,
         Receive, Fail, Done
<1>6. QED
  BY <1>1, <1>2, <1>3, <1>4, <1>5

(* The step leaves truth, its history and the clock alone.                 *)
LEMMA WorldStays ==
  ASSUME UNCHANGED worldVars
  PROVE  \A l, v : LastTrue(l, v)' = LastTrue(l, v)
BY DEF worldVars, LastTrue

(* A put only ever adds an entry as fresh as the reply it stores.          *)
LEMMA PutKeepsFresh ==
  ASSUME FreshInv, UNCHANGED worldVars,
         NEW l \in Lookups, NEW v \in Values, NEW since \in Nat,
         Remembered(l), since <= now, now <= since + LookupTimeout,
         LastTrue(l, v) >= since, Put(l, v)
  PROVE  /\ DOMAIN entries' \subseteq Lookups
         /\ entries' \in [DOMAIN entries' -> Entry]
         /\ EntriesAreFresh'
<1> DEFINE size == KeySize[l] + ResultSize[v]
<1>1. CASE UNCHANGED cacheVars
  BY <1>1, WorldStays DEF FreshInv, TypeOK, cacheVars, EntriesAreFresh
<1>2. CASE \E kept \in SUBSET DOMAIN entries :
             entries' = [k \in kept \cup {l} |->
                IF k = l THEN [result |-> v, expiresAt |-> now + CacheTTLFor(l),
                               size |-> size]
                ELSE entries[k]]
  <2>1. PICK kept \in SUBSET DOMAIN entries :
             entries' = [k \in kept \cup {l} |->
                IF k = l THEN [result |-> v, expiresAt |-> now + CacheTTLFor(l),
                               size |-> size]
                ELSE entries[k]]
    BY <1>2
  <2>2. /\ DOMAIN entries' = kept \cup {l}
        /\ entries'[l] = [result |-> v, expiresAt |-> now + CacheTTLFor(l),
                          size |-> size]
        /\ \A k \in kept \ {l} : entries'[k] = entries[k]
    BY <2>1
  <2>3. /\ size \in Nat
        /\ now + CacheTTLFor(l) \in Nat
    BY TTLType, SizeAssumption DEF FreshInv, TypeOK
  <2>4. DOMAIN entries' \subseteq Lookups
    BY <2>2 DEF FreshInv, TypeOK
  <2>5. entries' \in [DOMAIN entries' -> Entry]
    BY <2>1, <2>2, <2>3 DEF FreshInv, TypeOK, Entry
  <2>6. ASSUME NEW k \in DOMAIN entries'
        PROVE  /\ Remembered(k)
               /\ LastTrue(k, entries'[k].result) # Never
               /\ LastTrue(k, entries'[k].result)
                    >= entries'[k].expiresAt - CacheTTLFor(k) - LookupTimeout
    <3>1. CASE k = l
      BY <3>1, <2>2, <2>3, TTLType, TimingAssumption
         DEF Never, FreshInv, TypeOK, LastTrue
    <3>2. CASE k # l
      BY <3>2, <2>2 DEF FreshInv, EntriesAreFresh
    <3>3. QED
      BY <3>1, <3>2
  <2>7. EntriesAreFresh'
    BY <2>6, WorldStays DEF EntriesAreFresh, Remembered, CacheTTLFor
  <2>8. QED
    BY <2>4, <2>5, <2>7
<1>3. QED
  BY <1>1, <1>2 DEF Put, Evictions

(* The program starts with an empty cache and no call: nothing is stale.   *)
LEMMA FreshInit == Init => FreshInv
<1> SUFFICES ASSUME Init PROVE FreshInv
  OBVIOUS
<1> USE DEF Init
<1>1. TypeOK
  BY DEF TypeOK, Call, Never
<1>2. HistoryIsPast
  BY DEF HistoryIsPast, Idle, Never
<1>3. EntriesAreFresh
  BY DEF EntriesAreFresh
<1>4. RepliesAreFresh /\ AnswersAreFresh
  BY DEF RepliesAreFresh, AnswersAreFresh, Idle
<1>5. QED
  BY <1>1, <1>2, <1>3, <1>4 DEF FreshInv

(* What each caller's place may be, field by field.                        *)
LEMMA CallFields ==
  ASSUME TypeOK, NEW c \in Callers
  PROVE  /\ calls[c].phase \in {"idle", "reading", "replied", "answered"}
         /\ calls[c].phase = "idle" <=> calls[c] = Idle
         /\ calls[c].phase # "idle" =>
              calls[c].lookup \in Lookups /\ calls[c].since \in Nat
         /\ calls[c].phase \in {"replied", "answered"} => calls[c].answer \in Values
BY DEF TypeOK, Call, Idle

(* A step of caller c to x, given what it does to the cache: no conjunct   *)
(* but x's own can be disturbed.                                           *)
LEMMA CallerStep ==
  ASSUME FreshInv, NEW c \in Callers, NEW x \in Call,
         UNCHANGED worldVars,
         DOMAIN entries' \subseteq Lookups,
         entries' \in [DOMAIN entries' -> Entry],
         EntriesAreFresh',
         calls' = [calls EXCEPT ![c] = x],
         x.phase # "idle" => x.since <= now,
         x.phase = "replied" => LastTrue(x.lookup, x.answer) >= x.since,
         x.phase = "answered" =>
           /\ LastTrue(x.lookup, x.answer) # Never
           /\ LastTrue(x.lookup, x.answer) >= x.since - MaxAge[x.lookup]
  PROVE  FreshInv'
<1> USE DEF FreshInv
<1>1. /\ UNCHANGED <<now, truth, superseded>>
      /\ \A l, v : LastTrue(l, v)' = LastTrue(l, v)
      /\ MaxAge' = MaxAge
  BY WorldStays DEF worldVars, MaxAge, Remembered, CacheTTLFor
<1>2. /\ calls' \in [Callers -> Call]
      /\ calls'[c] = x
      /\ \A d \in Callers \ {c} : calls'[d] = calls[d]
  BY DEF TypeOK
<1>3. TypeOK'
  BY <1>1, <1>2 DEF TypeOK
<1>4. HistoryIsPast'
  BY <1>1, <1>2 DEF HistoryIsPast
<1>6. RepliesAreFresh'
  BY <1>1, <1>2 DEF RepliesAreFresh
<1>7. AnswersAreFresh'
  BY <1>1, <1>2 DEF AnswersAreFresh
<1>8. QED
  BY <1>3, <1>4, <1>6, <1>7

(* A step that leaves the world and the cache alone disturbs no entry.     *)
LEMMA CacheStays ==
  ASSUME FreshInv, UNCHANGED <<worldVars, cacheVars>>
  PROVE  /\ UNCHANGED worldVars
         /\ DOMAIN entries' \subseteq Lookups
         /\ entries' \in [DOMAIN entries' -> Entry]
         /\ EntriesAreFresh'
<1>1. UNCHANGED worldVars /\ entries' = entries
  BY DEF cacheVars
<1>2. EntriesAreFresh'
  BY <1>1, WorldStays DEF FreshInv, EntriesAreFresh, Remembered
<1>3. QED
  BY <1>1, <1>2 DEF FreshInv, TypeOK

(* Every step keeps the invariant: one case per action of the cache.       *)
LEMMA FreshStep == FreshInv /\ [Next]_vars => FreshInv'
<1> SUFFICES ASSUME FreshInv, [Next]_vars PROVE FreshInv'
  OBVIOUS
<1>1. TypeOK /\ HistoryIsPast
  BY DEF FreshInv
<1>2. ASSUME NEW c \in Callers, NEW l \in Lookups, ServeHit(c, l)
      PROVE  FreshInv'
  <2> DEFINE x == Answered(l, now, entries[l].result)
  <2>1. /\ l \in DOMAIN entries
        /\ entries[l].result \in Values
        /\ entries[l].expiresAt \in Nat
        /\ now < entries[l].expiresAt
    BY <1>1, <1>2 DEF ServeHit, Hit, Expired, TypeOK, Entry
  <2>2. /\ x \in Call /\ x.phase = "answered"
        /\ x.lookup = l /\ x.since = now /\ x.answer = entries[l].result
    BY <1>1, <2>1 DEF Answered, Call, TypeOK
  <2>3. /\ LastTrue(l, entries[l].result) \in Nat \cup {Never}
        /\ LastTrue(l, entries[l].result) # Never
        /\ LastTrue(l, entries[l].result)
             >= entries[l].expiresAt - CacheTTLFor(l) - LookupTimeout
    BY <2>1, LastTrueGrows DEF FreshInv, EntriesAreFresh
  <2>4. MaxAge[l] = CacheTTLFor(l) + LookupTimeout - 1
    BY <1>2 DEF ServeHit, MaxAge
  <2>5. LastTrue(l, entries[l].result) >= now - MaxAge[l]
    BY <1>1, <2>1, <2>3, <2>4, TTLType, TimingAssumption DEF TypeOK, Never
  <2>6. /\ calls' = [calls EXCEPT ![c] = x]
        /\ UNCHANGED <<worldVars, cacheVars>>
    BY <1>2 DEF ServeHit
  <2>7. now <= now
    BY <1>1 DEF TypeOK
  <2> HIDE DEF x
  <2>8. QED
    BY <2>2, <2>3, <2>5, <2>6, <2>7, CacheStays, CallerStep
<1>3. ASSUME NEW c \in Callers, NEW l \in Lookups, Miss(c, l)
      PROVE  FreshInv'
  <2>1. UNCHANGED worldVars /\ entries' = Keep(DOMAIN entries \ (DOMAIN entries \cap {l}))
    BY <1>3 DEF Miss, Delete
  <2>2. /\ DOMAIN entries' \subseteq DOMAIN entries
        /\ \A k \in DOMAIN entries' : entries'[k] = entries[k]
        /\ entries' = [k \in DOMAIN entries' |-> entries[k]]
    BY <2>1 DEF Keep
  <2>3. DOMAIN entries' \subseteq Lookups /\ entries' \in [DOMAIN entries' -> Entry]
    BY <1>1, <2>2 DEF TypeOK
  <2>4. EntriesAreFresh'
    BY <2>1, <2>2, WorldStays DEF FreshInv, EntriesAreFresh, Remembered
  <2> DEFINE x == Reading(l)
  <2>5. /\ x \in Call /\ x.phase = "reading" /\ x.since <= now
        /\ calls' = [calls EXCEPT ![c] = x]
    BY <1>1, <1>3 DEF Miss, Reading, Call, TypeOK
  <2> HIDE DEF x
  <2>6. QED
    BY <2>1, <2>3, <2>4, <2>5, CallerStep
<1>4. ASSUME NEW c \in Callers, NEW l \in Lookups, CallThrough(c, l)
      PROVE  FreshInv'
  <2> DEFINE x == Reading(l)
  <2>1. /\ x \in Call /\ x.phase = "reading" /\ x.since <= now
        /\ calls' = [calls EXCEPT ![c] = x]
        /\ UNCHANGED <<worldVars, cacheVars>>
    BY <1>1, <1>4 DEF CallThrough, Reading, Call, TypeOK
  <2> HIDE DEF x
  <2>2. QED
    BY <2>1, CacheStays, CallerStep
<1>5. ASSUME NEW c \in Callers, UpstreamReads(c)
      PROVE  FreshInv'
  <2> DEFINE l == calls[c].lookup
             x == Replied(l, calls[c].since, truth[l])
  <2>1. l \in Lookups /\ calls[c].since \in Nat /\ calls[c].since <= now
    BY <1>1, <1>5, CallFields DEF UpstreamReads, HistoryIsPast
  <2>2. x \in Call /\ LastTrue(l, truth[l]) >= calls[c].since
    BY <1>1, <2>1 DEF Replied, Call, TypeOK, LastTrue
  <2>3. /\ calls' = [calls EXCEPT ![c] = x]
        /\ UNCHANGED <<worldVars, cacheVars>>
    BY <1>5 DEF UpstreamReads
  <2>4. /\ x.phase = "replied" /\ x.lookup = l /\ x.since = calls[c].since
        /\ x.answer = truth[l]
    BY DEF Replied
  <2> HIDE DEF x
  <2>5. QED
    BY <2>1, <2>2, <2>3, <2>4, CacheStays, CallerStep
<1>6. ASSUME NEW c \in Callers, Receive(c)
      PROVE  FreshInv'
  <2> DEFINE l == calls[c].lookup
             v == calls[c].answer
             x == Answered(l, calls[c].since, v)
  <2>1. /\ l \in Lookups /\ v \in Values
        /\ calls[c].since \in Nat /\ calls[c].since <= now
        /\ now <= calls[c].since + LookupTimeout
        /\ LastTrue(l, v) >= calls[c].since
    BY <1>1, <1>6, CallFields
       DEF Receive, InTime, HistoryIsPast, FreshInv, RepliesAreFresh
  <2>2. /\ calls' = [calls EXCEPT ![c] = x]
        /\ UNCHANGED worldVars
        /\ IF Remembered(l) THEN Put(l, v) ELSE UNCHANGED cacheVars
    BY <1>6 DEF Receive
  <2>3. /\ x \in Call /\ x.phase = "answered"
        /\ x.lookup = l /\ x.since = calls[c].since /\ x.answer = v
    BY <2>1 DEF Answered, Call
  <2>4. /\ LastTrue(l, v) # Never
        /\ LastTrue(l, v) >= calls[c].since - MaxAge[l]
    BY <2>1, MaxAgeType, LastTrueGrows DEF Never
  <2> HIDE DEF x, l, v
  <2>5. /\ DOMAIN entries' \subseteq Lookups
        /\ entries' \in [DOMAIN entries' -> Entry]
        /\ EntriesAreFresh'
    BY <2>1, <2>2, PutKeepsFresh, CacheStays
  <2>6. QED
    BY <2>1, <2>2, <2>3, <2>4, <2>5, CallerStep
<1>7. ASSUME NEW c \in Callers, Fail(c) \/ Done(c)
      PROVE  FreshInv'
  <2>1. Idle \in Call /\ Idle.phase = "idle"
    BY DEF Idle, Call
  <2>2. QED
    BY <1>7, <2>1, CacheStays, CallerStep DEF Fail, Done
<1>8. CASE Tick \/ \E l \in Lookups : TruthChanges(l)
  <2>1. UNCHANGED <<entries, calls>> /\ now' \in Nat /\ now <= now'
    BY <1>1, <1>8 DEF Tick, TruthChanges, cacheVars, TypeOK
  <2>2. MaxAge' = MaxAge
    BY DEF MaxAge, Remembered
  <2>3. TypeOK'
    <3>1. CASE Tick
      BY <1>1, <2>1, <3>1 DEF TypeOK, Tick
    <3>2. ASSUME NEW l \in Lookups, TruthChanges(l)
          PROVE  TypeOK'
      BY <1>1, <2>1, <3>2 DEF TypeOK, TruthChanges
    <3>3. QED
      BY <1>8, <3>1, <3>2
  <2>4. HistoryIsPast'
    <3>1. ASSUME NEW l \in Lookups, NEW v \in Values
          PROVE  superseded'[l][v] <= now'
      BY <1>1, <1>8, <2>1 DEF HistoryIsPast, TypeOK, Tick, TruthChanges, Never
    <3>2. QED
      BY <1>1, <2>1, <3>1, CallFields DEF HistoryIsPast, TypeOK
  <2>5. EntriesAreFresh'
    <3>1. ASSUME NEW l \in DOMAIN entries
          PROVE  /\ LastTrue(l, entries[l].result)' # Never
                 /\ LastTrue(l, entries[l].result)'
                      >= entries[l].expiresAt - CacheTTLFor(l) - LookupTimeout
      BY <1>1, <2>1, LastTrueGrows, TTLType, TimingAssumption
         DEF FreshInv, EntriesAreFresh, TypeOK, Entry, Never
    <3>2. QED
      BY <2>1, <3>1 DEF FreshInv, EntriesAreFresh, Remembered
  <2>6. ASSUME NEW c \in Callers, calls[c].phase \in {"replied", "answered"}
        PROVE  /\ LastTrue(calls[c].lookup, calls[c].answer)'
                    >= LastTrue(calls[c].lookup, calls[c].answer)
               /\ LastTrue(calls[c].lookup, calls[c].answer)' \in Nat \cup {Never}
               /\ LastTrue(calls[c].lookup, calls[c].answer) \in Nat \cup {Never}
               /\ calls[c].since \in Nat
               /\ MaxAge[calls[c].lookup] \in Nat
    BY <1>1, <2>1, <2>6, CallFields, LastTrueGrows, MaxAgeType
  <2>7. RepliesAreFresh' /\ AnswersAreFresh'
    BY <2>1, <2>2, <2>6 DEF FreshInv, RepliesAreFresh, AnswersAreFresh, Never
  <2>8. QED
    BY <2>3, <2>4, <2>5, <2>7 DEF FreshInv
<1>9. CASE UNCHANGED vars
  BY <1>9 DEF vars, FreshInv, TypeOK, HistoryIsPast, EntriesAreFresh,
     RepliesAreFresh, AnswersAreFresh, LastTrue, MaxAge, Remembered
<1>10. QED
  BY <1>2, <1>3, <1>4, <1>5, <1>6, <1>7, <1>8, <1>9 DEF Next

(* No gate ever decides on an answer older than its freshness class        *)
(* allows, whatever the interleaving of lookups, puts, evictions and       *)
(* upstream changes: the TTL counted from the put is safe because a put    *)
(* follows its read by no more than the lookup deadline.                   *)
THEOREM CacheFreshness == Spec => []FreshInv /\ []AnswersAreFresh
<1>1. FreshInv => AnswersAreFresh
  BY DEF FreshInv
<1>2. QED
  BY FreshInit, FreshStep, <1>1, PTL DEF Spec

-------------------------------------------------------------------------------
(* The refinement.                                                         *)

(* Moving one caller's place moves its image, and nobody else's.           *)
LEMMA AbsUpdate ==
  ASSUME TypeOK, NEW c \in Callers, NEW x, calls' = [calls EXCEPT ![c] = x]
  PROVE  AbsCalls' = [AbsCalls EXCEPT ![c] = AbsCall(x)]
BY DEF AbsCalls, AbsCall, TypeOK

(* A caller and its image are idle together, and started together.         *)
LEMMA AbsIdle ==
  ASSUME TypeOK, NEW c \in Callers
  PROVE  /\ calls[c] = Idle <=> AbsCalls[c] = Abs!Idle
         /\ AbsCall(Idle) = Abs!Idle
         /\ calls[c].phase \in {"reading", "replied"} =>
              /\ AbsCalls[c].phase = "open"
              /\ AbsCalls[c].lookup = calls[c].lookup
              /\ AbsCalls[c].since = calls[c].since
BY CallFields DEF AbsCalls, AbsCall, Abs!Idle, Idle

(* The initial states are initial states of FreshLookup.                   *)
LEMMA AbsInit == Init => Abs!Init
BY DEF Init, Abs!Init, AbsCalls, AbsCall, Idle, Abs!Idle, Never, Abs!Never

(* An answer given in a step that leaves the world alone was already fresh.  *)
LEMMA AnswerIsFresh ==
  ASSUME FreshInv', UNCHANGED <<now, truth, superseded>>,
         NEW c \in Callers, NEW l \in Lookups, NEW since \in Nat, NEW v \in Values,
         calls'[c].phase = "answered", calls'[c].lookup = l,
         calls'[c].since = since, calls'[c].answer = v
  PROVE  Abs!Fresh(l, since, v)
<1>1. /\ LastTrue(l, v)' # Never
      /\ LastTrue(l, v)' >= since - MaxAge'[l]
  BY DEF FreshInv, AnswersAreFresh
<1>2. LastTrue(l, v)' = LastTrue(l, v) /\ MaxAge' = MaxAge
  BY DEF LastTrue, MaxAge, Remembered
<1>3. Abs!LastTrue(l, v) = LastTrue(l, v)
  BY DEF Abs!LastTrue, LastTrue
<1>4. QED
  BY <1>1, <1>2, <1>3 DEF Abs!Fresh, Abs!Never, Never

(* Every step is a step of FreshLookup, or invisible to it.                *)
LEMMA AbsStep == FreshInv /\ FreshInv' /\ [Next]_vars => [Abs!Next]_(Abs!vars)
<1> SUFFICES ASSUME FreshInv, FreshInv', [Next]_vars
             PROVE  Abs!Next \/ UNCHANGED Abs!vars
  OBVIOUS
<1>1. TypeOK
  BY DEF FreshInv
<1>2. now \in Nat
  BY <1>1 DEF TypeOK
<1>3. ASSUME NEW c \in Callers, NEW l \in Lookups, ServeHit(c, l)
      PROVE  Abs!Recall(c, l)
  <2>1. PICK v \in Values : calls' = [calls EXCEPT ![c] = Answered(l, now, v)]
    BY <1>1, <1>3 DEF ServeHit, Hit, TypeOK, Entry
  <2>2. /\ calls[c] = Idle
        /\ UNCHANGED <<now, truth, superseded>>
    BY <1>3 DEF ServeHit, worldVars
  <2>3. Abs!Fresh(l, now, v)
    <3>1. /\ calls'[c].phase = "answered" /\ calls'[c].lookup = l
          /\ calls'[c].since = now /\ calls'[c].answer = v
      BY <1>1, <2>1 DEF Answered, TypeOK
    <3>2. QED
      BY <2>2, <3>1, <1>2, AnswerIsFresh
  <2>4. AbsCall(Answered(l, now, v)) = Abs!Answered(l, now, v)
    BY DEF AbsCall, Answered, Abs!Answered
  <2>5. AbsCalls' = [AbsCalls EXCEPT ![c] = Abs!Answered(l, now, v)]
    BY <1>1, <2>1, <2>4, AbsUpdate
  <2>6. QED
    BY <1>1, <2>2, <2>3, <2>5, AbsIdle DEF Abs!Recall
<1>4. ASSUME NEW c \in Callers, NEW l \in Lookups, Miss(c, l) \/ CallThrough(c, l)
      PROVE  Abs!Begin(c, l)
  <2>1. /\ calls[c] = Idle
        /\ calls' = [calls EXCEPT ![c] = Reading(l)]
        /\ UNCHANGED <<now, truth, superseded>>
    BY <1>4 DEF Miss, CallThrough, worldVars
  <2>2. AbsCall(Reading(l)) = Abs!Open(l)
    BY DEF AbsCall, Reading, Abs!Open
  <2>3. AbsCalls' = [AbsCalls EXCEPT ![c] = Abs!Open(l)]
    BY <1>1, <2>1, <2>2, AbsUpdate
  <2>4. QED
    BY <1>1, <2>1, <2>3, AbsIdle DEF Abs!Begin
<1>5. ASSUME NEW c \in Callers, UpstreamReads(c)
      PROVE  UNCHANGED Abs!vars
  <2> DEFINE x == Replied(calls[c].lookup, calls[c].since, truth[calls[c].lookup])
  <2>1. /\ calls[c].phase = "reading"
        /\ calls' = [calls EXCEPT ![c] = x]
        /\ UNCHANGED <<now, truth, superseded>>
    BY <1>5 DEF UpstreamReads, worldVars
  <2>2. AbsCall(x) = AbsCall(calls[c])
    BY <2>1 DEF AbsCall, Replied
  <2>3. AbsCalls' = AbsCalls
    BY <1>1, <2>1, <2>2, AbsUpdate DEF AbsCalls
  <2>4. QED
    BY <2>1, <2>3 DEF Abs!vars
<1>6. ASSUME NEW c \in Callers, Receive(c)
      PROVE  Abs!Answer(c)
  <2>1. PICK l \in Lookups, v \in Values, since \in Nat :
          /\ calls[c].lookup = l /\ calls[c].since = since
          /\ calls' = [calls EXCEPT ![c] = Answered(l, since, v)]
    BY <1>1, <1>6, CallFields DEF Receive
  <2>2. /\ calls[c].phase = "replied"
        /\ UNCHANGED <<now, truth, superseded>>
    BY <1>6 DEF Receive, worldVars
  <2>3. Abs!Fresh(l, since, v)
    <3>1. /\ calls'[c].phase = "answered" /\ calls'[c].lookup = l
          /\ calls'[c].since = since /\ calls'[c].answer = v
      BY <1>1, <2>1 DEF Answered, TypeOK
    <3>2. QED
      BY <2>2, <3>1, <1>2, AnswerIsFresh
  <2>4. AbsCall(Answered(l, since, v)) = Abs!Answered(l, since, v)
    BY DEF AbsCall, Answered, Abs!Answered
  <2>5. AbsCalls' = [AbsCalls EXCEPT ![c] = Abs!Answered(l, since, v)]
    BY <1>1, <2>1, <2>4, AbsUpdate
  <2>6. /\ AbsCalls[c].phase = "open" /\ AbsCalls[c].lookup = l
        /\ AbsCalls[c].since = since
    BY <1>1, <2>1, <2>2, AbsIdle
  <2>7. QED
    BY <2>2, <2>3, <2>5, <2>6 DEF Abs!Answer
<1>7. ASSUME NEW c \in Callers, Fail(c) \/ Done(c)
      PROVE  Abs!End(c)
  <2>1. /\ calls[c] # Idle
        /\ calls' = [calls EXCEPT ![c] = Idle]
        /\ UNCHANGED <<now, truth, superseded>>
    BY <1>7 DEF Fail, Done, Idle, worldVars
  <2>2. AbsCalls' = [AbsCalls EXCEPT ![c] = Abs!Idle]
    <3>1. AbsCalls' = [AbsCalls EXCEPT ![c] = AbsCall(Idle)]
      BY <1>1, <2>1, AbsUpdate
    <3>2. QED
      BY <1>1, <3>1, AbsIdle
  <2>3. AbsCalls[c] # Abs!Idle
    BY <1>1, <2>1, AbsIdle
  <2>4. QED
    BY <2>1, <2>2, <2>3 DEF Abs!End
<1>8. ASSUME NEW l \in Lookups, TruthChanges(l)
      PROVE  Abs!Change(l)
  BY <1>8 DEF TruthChanges, Abs!Change, AbsCalls
<1>9. ASSUME Tick
      PROVE  Abs!Tick
  BY <1>9 DEF Tick, Abs!Tick, AbsCalls
<1>10. ASSUME UNCHANGED vars
       PROVE  UNCHANGED Abs!vars
  BY <1>10 DEF vars, Abs!vars, AbsCalls
<1>11. QED
  BY <1>3, <1>4, <1>5, <1>6, <1>7, <1>8, <1>9, <1>10 DEF Next, Abs!Next

(* The cache implements FreshLookup: a gate cannot tell it from a lookup   *)
(* service that forgets nothing and remembers nothing too long.            *)
THEOREM CacheImplementsFreshLookup == Spec => LooksFresh
BY AbsInit, AbsStep, CacheFreshness, PTL DEF Spec, LooksFresh, Abs!Spec

-------------------------------------------------------------------------------
(* The budget.  SizeOf folds over a set; what its recursion computes is    *)
(* proved from the least set that would contradict it, since a least       *)
(* number exists in every nonempty set of numbers.                         *)

(* Every nonempty set of numbers has a least element: induction over data. *)
LEMMA LeastNumber ==
  ASSUME NEW T \in SUBSET Nat, T # {}
  PROVE  \E n \in T : \A m \in T : n <= m
<1> DEFINE R == OpToRel(<, Nat)
<1>1. IsWellFoundedOn(R, Nat)  BY NatLessThanWellFounded
<1>2. \A x, y \in Nat : x < y => <<x, y>> \in R  BY DEF OpToRel
<1> HIDE DEF R
<1>3. PICK n \in T : \A m \in T : ~(<<m, n>> \in R)  BY <1>1, WFMin
<1>4. ASSUME NEW m \in T PROVE n <= m
  <2>1. ~(<<m, n>> \in R)  BY <1>3
  <2>2. ~(m < n)  BY <2>1, <1>2
  <2> QED  BY <2>2
<1> QED  BY <1>3, <1>4

(* A least finite set with some property.                                  *)
LEMMA SmallestSet ==
  ASSUME NEW F, F # {}, \A s \in F : IsFiniteSet(s)
  PROVE  \E s \in F : \A t \in F : Cardinality(s) <= Cardinality(t)
<1> DEFINE T == {Cardinality(s) : s \in F}
<1>1. T \in SUBSET Nat /\ T # {}  BY FS_CardinalityType
<1>2. PICK n \in T : \A m \in T : n <= m  BY <1>1, LeastNumber
<1> QED  BY <1>2

(* SizeOf's recursion: the tallies of every subset of S, each from the      *)
(* tally of the subset without its chosen element; Sized says the sizes    *)
(* are numbers.                                                            *)
Chosen(s) == CHOOSE x \in s : TRUE
Adds(f, e, s) == IF s = {} THEN 0 ELSE e[Chosen(s)].size + f[s \ {Chosen(s)}]
Tallies(e, S) == CHOOSE f : f = [s \in SUBSET S |-> Adds(f, e, s)]
Total(e, S) == Tallies(e, S)[S]
Sized(e, S) == \A k \in S : e[k].size \in Nat

(* The fold takes an element out of a nonempty set.                        *)
LEMMA ChosenIsIn ==
  ASSUME NEW s, IsFiniteSet(s), s # {}
  PROVE  /\ Chosen(s) \in s /\ IsFiniteSet(s \ {Chosen(s)})
         /\ Cardinality(s) \in Nat /\ Cardinality(s \ {Chosen(s)}) = Cardinality(s) - 1
<1>1. Chosen(s) \in s  BY DEF Chosen
<1> QED  BY <1>1, FS_RemoveElement, FS_CardinalityType

(* The recursion has a solution on the subsets of a finite set.             *)
LEMMA TalliesExist ==
  ASSUME NEW S, IsFiniteSet(S), NEW e, Sized(e, S)
  PROVE  \E f \in [SUBSET S -> Nat] : f = [s \in SUBSET S |-> Adds(f, e, s)]
<1> DEFINE UpTo(n, f) == \A s \in SUBSET S : Cardinality(s) <= n => f[s] = Adds(f, e, s)
           Bad == {n \in Nat : ~\E f \in [SUBSET S -> Nat] : UpTo(n, f)}
<1>1. \A s \in SUBSET S : IsFiniteSet(s) /\ Cardinality(s) \in Nat
  BY FS_Subset, FS_CardinalityType
<1>2. ASSUME NEW f \in [SUBSET S -> Nat], NEW s \in SUBSET S
      PROVE  Adds(f, e, s) \in Nat
  <2>1. CASE s = {}  BY <2>1 DEF Adds
  <2>2. CASE s # {}
    <3>1. Chosen(s) \in S /\ s \ {Chosen(s)} \in SUBSET S  BY <1>1, <2>2, ChosenIsIn
    <3> QED  BY <2>2, <3>1 DEF Adds, Sized
  <2> QED  BY <2>1, <2>2
<1>3. Bad = {}
  <2> SUFFICES ASSUME Bad # {} PROVE FALSE  OBVIOUS
  <2>1. PICK n \in Bad : \A m \in Bad : n <= m  BY LeastNumber
  <2>2. n # 0
    <3> DEFINE g == [s \in SUBSET S |-> 0]
    <3>1. g \in [SUBSET S -> Nat]  OBVIOUS
    <3>2. \A s \in SUBSET S : Cardinality(s) <= 0 => s = {}  BY <1>1, FS_EmptySet
    <3>3. UpTo(0, g)  BY <3>2 DEF Adds
    <3> QED  BY <3>1, <3>3, <2>1
  <2>3. PICK f \in [SUBSET S -> Nat] : UpTo(n - 1, f)
    <3>1. n - 1 \in Nat /\ ~(n <= n - 1)  BY <2>2
    <3>2. n - 1 \notin Bad  BY <3>1, <2>1
    <3> QED  BY <3>1, <3>2
  <2> DEFINE g == [s \in SUBSET S |-> Adds(f, e, s)]
  <2>4. g \in [SUBSET S -> Nat]  BY <1>2
  <2>5. ASSUME NEW s \in SUBSET S, Cardinality(s) <= n PROVE g[s] = Adds(g, e, s)
    <3>1. CASE s = {}  BY <3>1 DEF Adds
    <3>2. CASE s # {}
      <4> DEFINE r == s \ {Chosen(s)}
      <4>1. r \in SUBSET S /\ Cardinality(r) <= n - 1  BY <3>2, <1>1, <2>5, ChosenIsIn
      <4>2. f[r] = Adds(f, e, r)  BY <4>1, <2>3
      <4>3. g[r] = f[r]  BY <4>1, <4>2
      <4> QED  BY <3>2, <4>3 DEF Adds
    <3> QED  BY <3>1, <3>2
  <2> QED  BY <2>1, <2>4, <2>5
<1>4. Cardinality(S) \in Nat /\ \A s \in SUBSET S : Cardinality(s) <= Cardinality(S)
  BY FS_Subset, FS_CardinalityType
<1>5. PICK f \in [SUBSET S -> Nat] : UpTo(Cardinality(S), f)  BY <1>3, <1>4
<1>6. \A s \in SUBSET S : f[s] = Adds(f, e, s)  BY <1>4, <1>5
<1> QED  BY <1>6

(* so the tallies satisfy the recursion,                                   *)
LEMMA TalliesAdd ==
  ASSUME NEW S, IsFiniteSet(S), NEW e, Sized(e, S)
  PROVE  \A s \in SUBSET S : Tallies(e, S)[s] = Adds(Tallies(e, S), e, s)
<1> DEFINE f == Tallies(e, S)
<1>1. f = [s \in SUBSET S |-> Adds(f, e, s)]  BY TalliesExist DEF Tallies
<1> HIDE DEF f
<1>2. \A s \in SUBSET S : f[s] = Adds(f, e, s)  BY <1>1
<1> QED  BY <1>2 DEF f

(* and only one, which depends on the sizes of the elements alone.         *)
LEMMA TalliesAgree ==
  ASSUME NEW S, IsFiniteSet(S), NEW d, Sized(d, S),
         NEW T, IsFiniteSet(T), NEW e, Sized(e, T)
  PROVE  \A s \in SUBSET (S \cap T) :
            (\A k \in s : d[k].size = e[k].size) => Tallies(d, S)[s] = Tallies(e, T)[s]
<1> DEFINE Bad == {s \in SUBSET (S \cap T) : /\ \A k \in s : d[k].size = e[k].size
                                             /\ Tallies(d, S)[s] # Tallies(e, T)[s]}
<1> SUFFICES ASSUME Bad # {} PROVE FALSE  OBVIOUS
<1>1. \A s \in SUBSET (S \cap T) : IsFiniteSet(s)  BY FS_Subset
<1>2. PICK s \in Bad : \A t \in Bad : Cardinality(s) <= Cardinality(t)  BY <1>1, SmallestSet
<1> DEFINE r == s \ {Chosen(s)}
<1>3. /\ Tallies(d, S)[s] = Adds(Tallies(d, S), d, s)
      /\ Tallies(e, T)[s] = Adds(Tallies(e, T), e, s)
  BY <1>2, TalliesAdd
<1>4. s # {}  BY <1>2, <1>3 DEF Adds
<1>5. Chosen(s) \in s /\ Cardinality(s) \in Nat /\ Cardinality(r) = Cardinality(s) - 1
  BY <1>1, <1>4, ChosenIsIn
<1>6. r \notin Bad  BY <1>2, <1>5
<1>7. Tallies(d, S)[r] = Tallies(e, T)[r]  BY <1>6
<1> QED  BY <1>2, <1>3, <1>4, <1>5, <1>7 DEF Adds

(* The total of a set depends on the sizes of its elements alone.          *)
LEMMA TotalAgrees ==
  ASSUME NEW S, IsFiniteSet(S), NEW d, NEW e, Sized(d, S), \A k \in S : d[k].size = e[k].size
  PROVE  Total(d, S) = Total(e, S)
BY TalliesAgree DEF Total, Sized

(* An empty set counts nothing.                                            *)
LEMMA TotalOfNone == \A e : Total(e, {}) = 0
<1> SUFFICES ASSUME NEW e PROVE Total(e, {}) = 0  OBVIOUS
<1>1. IsFiniteSet({}) /\ Sized(e, {})  BY FS_EmptySet DEF Sized
<1> QED  BY <1>1, TalliesAdd DEF Total, Adds

(* One step of the recursion, as a fact about totals.                      *)
LEMMA TotalOfChosen ==
  ASSUME NEW S, IsFiniteSet(S), S # {}, NEW e, Sized(e, S)
  PROVE  Total(e, S) = e[Chosen(S)].size + Total(e, S \ {Chosen(S)})
<1> DEFINE r == S \ {Chosen(S)}
<1>1. IsFiniteSet(r) /\ Sized(e, r)  BY ChosenIsIn DEF Sized
<1>2. Tallies(e, S)[r] = Tallies(e, r)[r]  BY <1>1, TalliesAgree
<1>3. Tallies(e, S)[S] = Adds(Tallies(e, S), e, S)  BY TalliesAdd
<1> QED  BY <1>2, <1>3 DEF Total, Adds

(* A total of numbers is a number.                                         *)
LEMMA TotalType ==
  ASSUME NEW S, IsFiniteSet(S), NEW e, Sized(e, S)
  PROVE  Total(e, S) \in Nat
<1> DEFINE Bad == {s \in SUBSET S : Total(e, s) \notin Nat}
<1> SUFFICES ASSUME Bad # {} PROVE FALSE  OBVIOUS
<1>1. \A s \in SUBSET S : IsFiniteSet(s) /\ Sized(e, s)  BY FS_Subset DEF Sized
<1>2. PICK s \in Bad : \A t \in Bad : Cardinality(s) <= Cardinality(t)  BY <1>1, SmallestSet
<1>3. s # {}  BY <1>2, TotalOfNone
<1> DEFINE r == s \ {Chosen(s)}
<1>4. Chosen(s) \in s /\ Cardinality(s) \in Nat /\ Cardinality(r) = Cardinality(s) - 1
  BY <1>1, <1>3, ChosenIsIn
<1>5. Total(e, r) \in Nat  BY <1>2, <1>4
<1>6. Total(e, s) = e[Chosen(s)].size + Total(e, r)  BY <1>1, <1>3, TotalOfChosen
<1> QED  BY <1>2, <1>4, <1>5, <1>6 DEF Sized

(* Any element can be taken out, not only the chosen one.                  *)
LEMMA TotalWithout ==
  ASSUME NEW S, IsFiniteSet(S), NEW e, Sized(e, S)
  PROVE  \A x \in S : Total(e, S) = e[x].size + Total(e, S \ {x})
<1> DEFINE Bad == {s \in SUBSET S : \E x \in s : Total(e, s) # e[x].size + Total(e, s \ {x})}
<1> SUFFICES ASSUME Bad # {} PROVE FALSE  OBVIOUS
<1>1. \A s \in SUBSET S : IsFiniteSet(s) /\ Sized(e, s)  BY FS_Subset DEF Sized
<1>2. PICK s \in Bad : \A t \in Bad : Cardinality(s) <= Cardinality(t)  BY <1>1, SmallestSet
<1>3. PICK x \in s : Total(e, s) # e[x].size + Total(e, s \ {x})  BY <1>2
<1> DEFINE p == Chosen(s)
<1>4. Total(e, s) = e[p].size + Total(e, s \ {p})  BY <1>1, <1>3, TotalOfChosen
<1>5. p \in s /\ p # x  BY <1>3, <1>4, <1>1, ChosenIsIn
<1>6. /\ Cardinality(s) \in Nat /\ Cardinality(s \ {x}) = Cardinality(s) - 1
      /\ Cardinality(s \ {p}) = Cardinality(s) - 1
  BY <1>1, <1>5, FS_RemoveElement, FS_CardinalityType
<1>7. ASSUME NEW t \in SUBSET s, Cardinality(t) < Cardinality(s), NEW y \in t
      PROVE  Total(e, t) = e[y].size + Total(e, t \ {y})
  <2>1. t \in SUBSET S /\ t \notin Bad
    <3>1. Cardinality(t) \in Nat  BY <1>1, <1>2, FS_CardinalityType
    <3> QED  BY <3>1, <1>2, <1>6, <1>7
  <2> QED  BY <2>1
<1>8. /\ Total(e, s \ {p}) = e[x].size + Total(e, (s \ {p}) \ {x})
      /\ Total(e, s \ {x}) = e[p].size + Total(e, (s \ {x}) \ {p})
  BY <1>5, <1>6, <1>7
<1>9. (s \ {p}) \ {x} = (s \ {x}) \ {p}  OBVIOUS
<1>10. Total(e, (s \ {x}) \ {p}) \in Nat /\ e[p].size \in Nat /\ e[x].size \in Nat
  <2>1. (s \ {x}) \ {p} \in SUBSET S  BY <1>2
  <2> QED  BY <2>1, <1>1, <1>5, TotalType DEF Sized
<1> DEFINE rest == Total(e, (s \ {x}) \ {p})
           all == Total(e, s)
           noP == Total(e, s \ {p})
           noX == Total(e, s \ {x})
           sizeP == e[p].size
           sizeX == e[x].size
<1>11. /\ all # sizeX + noX /\ all = sizeP + noP /\ noP = sizeX + rest
       /\ noX = sizeP + rest /\ rest \in Nat /\ sizeP \in Nat /\ sizeX \in Nat
  BY <1>3, <1>4, <1>8, <1>9, <1>10
<1> HIDE DEF rest, all, noP, noX, sizeP, sizeX
<1> QED  BY ONLY <1>11

(* The bytes of a set are those of a part and those of the rest.           *)
LEMMA TotalOfParts ==
  ASSUME NEW S, IsFiniteSet(S), NEW e, Sized(e, S)
  PROVE  \A G \in SUBSET S : Total(e, S) = Total(e, S \ G) + Total(e, G)
<1> DEFINE Bad == {G \in SUBSET S : Total(e, S) # Total(e, S \ G) + Total(e, G)}
<1> SUFFICES ASSUME Bad # {} PROVE FALSE  OBVIOUS
<1>1. \A s \in SUBSET S : IsFiniteSet(s) /\ Sized(e, s) /\ Total(e, s) \in Nat
  BY FS_Subset, TotalType DEF Sized
<1>2. PICK G \in Bad : \A t \in Bad : Cardinality(G) <= Cardinality(t)  BY <1>1, SmallestSet
<1>3. G # {}
  <2>1. S \ {} = S /\ S \in SUBSET S  OBVIOUS
  <2>2. Total(e, S) = Total(e, S) + 0  BY <1>1, <2>1
  <2>3. {} \notin Bad  BY <2>1, <2>2, TotalOfNone
  <2> QED  BY <1>2, <2>3
<1>4. PICK x \in G : TRUE  BY <1>3
<1> DEFINE H == G \ {x}
<1>5. Cardinality(G) \in Nat /\ Cardinality(H) = Cardinality(G) - 1
  BY <1>1, <1>4, FS_RemoveElement, FS_CardinalityType
<1>6. Total(e, S) = Total(e, S \ H) + Total(e, H)  BY <1>2, <1>5
<1>7. Total(e, G) = e[x].size + Total(e, H)  BY <1>1, <1>4, TotalWithout
<1>8. Total(e, S \ H) = e[x].size + Total(e, S \ G)
  <2>1. x \in S \ H /\ (S \ H) \ {x} = S \ G  BY <1>2, <1>4
  <2> QED  BY <2>1, <1>1, TotalWithout
<1>9. e[x].size \in Nat /\ Total(e, H) \in Nat /\ Total(e, S \ G) \in Nat /\ Total(e, S) \in Nat
  BY <1>1, <1>2, <1>4 DEF Sized
<1> QED  BY <1>2, <1>6, <1>7, <1>8, <1>9

(* The bytes the cache counts are the total over its entries, in either    *)
(* state of a step.                                                        *)
LEMMA SizeIsTotal ==
  /\ \A S : SizeOf(S) = Total(entries, S)
  /\ SizeOf(DOMAIN entries)' = Total(entries', DOMAIN entries')
<1>1. \A S : SizeOf(S) = Total(entries, S)
  BY DEF SizeOf, MapThenSumSet, MapThenFoldSet, Total, Tallies, Adds, Chosen
<1>2. SizeOf(DOMAIN entries)' = Total(entries', DOMAIN entries')
  BY DEF SizeOf, MapThenSumSet, MapThenFoldSet, Total, Tallies, Adds, Chosen
<1>3. QED
  BY <1>1, <1>2

(* The sizes of the entries are numbers.                                   *)
LEMMA EntriesSized ==
  ASSUME TypeOK
  PROVE  Sized(entries, DOMAIN entries)
BY DEF Sized, TypeOK, Entry

(* Dropping the entries of G leaves the rest, with its own bytes.          *)
LEMMA WhatIsLeft ==
  ASSUME TypeOK, BudgetInv, NEW G \in SUBSET DOMAIN entries
  PROVE  /\ IsFiniteSet(DOMAIN entries \ G)
         /\ Cardinality(DOMAIN entries \ G) \in Nat
         /\ Cardinality(DOMAIN entries \ G) <= Cardinality(DOMAIN entries)
         /\ Cardinality(DOMAIN entries) \in Nat
         /\ SizeOf(DOMAIN entries \ G) \in Nat /\ SizeOf(G) \in Nat
         /\ SizeOf(DOMAIN entries) = SizeOf(DOMAIN entries \ G) + SizeOf(G)
<1> DEFINE D == DOMAIN entries
           R == DOMAIN entries \ G
<1>1. IsFiniteSet(D) /\ G \in SUBSET D /\ R \in SUBSET D
  BY DEF BudgetInv
<1>2. IsFiniteSet(G) /\ IsFiniteSet(R) /\ Cardinality(R) <= Cardinality(D)
  BY <1>1, FS_Subset
<1>3. Sized(entries, D) /\ Sized(entries, G) /\ Sized(entries, R)
  BY <1>1, EntriesSized DEF Sized
<1>4. Total(entries, R) \in Nat /\ Total(entries, G) \in Nat
  BY <1>2, <1>3, TotalType
<1>5. Total(entries, D) = Total(entries, R) + Total(entries, G)
  BY <1>1, <1>3, TotalOfParts
<1>6. QED
  BY <1>1, <1>2, <1>4, <1>5, FS_CardinalityType, SizeIsTotal

(* Dropping entries, with their bytes, keeps the books right.              *)
LEMMA DeleteKeepsBudget ==
  ASSUME TypeOK, BudgetInv, NEW G \in SUBSET DOMAIN entries, Delete(G)
  PROVE  BudgetInv'
<1> DEFINE R == DOMAIN entries \ G
<1>1. /\ entries' = [k \in R |-> entries[k]] /\ DOMAIN entries' = R
      /\ totalBytes' = totalBytes - SizeOf(G)
  BY DEF Delete, Keep
<1>2. Sized(entries', R) /\ \A k \in R : entries'[k].size = entries[k].size
  BY <1>1, EntriesSized DEF Sized
<1>3. SizeOf(DOMAIN entries)' = SizeOf(R)
  BY <1>1, <1>2, WhatIsLeft, TotalAgrees, SizeIsTotal
<1>4. /\ totalBytes' = SizeOf(R) /\ SizeOf(R) <= MaxBytes /\ Cardinality(R) <= MaxEntries
  <2>1. /\ totalBytes = SizeOf(DOMAIN entries)
        /\ SizeOf(DOMAIN entries) <= MaxBytes
        /\ Cardinality(DOMAIN entries) <= MaxEntries
    BY DEF BudgetInv, WithinBudget, BytesAccounted
  <2>2. /\ Cardinality(R) \in Nat /\ Cardinality(DOMAIN entries) \in Nat
        /\ Cardinality(R) <= Cardinality(DOMAIN entries)
        /\ SizeOf(R) \in Nat /\ SizeOf(G) \in Nat
        /\ SizeOf(DOMAIN entries) = SizeOf(R) + SizeOf(G)
    BY WhatIsLeft
  <2> HIDE DEF R
  <2>3. QED
    BY <1>1, <2>1, <2>2, SizeAssumption
<1>5. QED
  BY <1>1, <1>3, <1>4, WhatIsLeft DEF BudgetInv, WithinBudget, BytesAccounted

(* A put makes room for its entry first, and counts it.                    *)
LEMMA PutKeepsBudget ==
  ASSUME TypeOK, BudgetInv, NEW l \in Lookups, NEW v \in Values, Put(l, v)
  PROVE  BudgetInv'
<1> DEFINE size == KeySize[l] + ResultSize[v]
           gone == {k \in DOMAIN entries : Expired(k) \/ k = l}
<1>1. CASE UNCHANGED cacheVars
  BY <1>1, SizeIsTotal DEF cacheVars, BudgetInv, WithinBudget, BytesAccounted
<1>2. ASSUME NEW E \in Evictions(gone, size), NEW G, G = gone \cup E,
             entries' = [k \in (DOMAIN entries \ G) \cup {l} |->
                IF k = l THEN [result |-> v, expiresAt |-> now + CacheTTLFor(l),
                               size |-> size]
                ELSE entries[k]],
             totalBytes' = totalBytes - SizeOf(G) + size
      PROVE  BudgetInv'
  <2> DEFINE R == DOMAIN entries \ G
  <2>1. /\ G \in SUBSET DOMAIN entries /\ l \notin R
        /\ HasRoom(G, size) /\ size \in Nat
    BY <1>2, SizeAssumption DEF Evictions
  <2>2. /\ DOMAIN entries' = R \cup {l}
        /\ entries'[l].size = size
        /\ \A k \in R : entries'[k].size = entries[k].size
    BY <1>2, <2>1
  <2> DEFINE D == R \cup {l}
  <2>3. /\ IsFiniteSet(R) /\ Cardinality(R) \in Nat /\ Cardinality(R) < MaxEntries
        /\ SizeOf(R) \in Nat /\ SizeOf(R) + size <= MaxBytes
        /\ totalBytes' = SizeOf(R) + size
    <3>1. /\ Cardinality(R) < MaxEntries
          /\ totalBytes - SizeOf(G) + size <= MaxBytes
      BY <2>1 DEF HasRoom
    <3>2. /\ IsFiniteSet(R) /\ Cardinality(R) \in Nat
          /\ SizeOf(R) \in Nat /\ SizeOf(G) \in Nat
          /\ SizeOf(DOMAIN entries) = SizeOf(R) + SizeOf(G)
      BY <2>1, WhatIsLeft
    <3>3. /\ totalBytes = SizeOf(DOMAIN entries)
          /\ totalBytes' = totalBytes - SizeOf(G) + size
      BY <1>2 DEF BudgetInv, BytesAccounted
    <3> HIDE DEF R, size
    <3>4. QED
      BY <2>1, <3>1, <3>2, <3>3, SizeAssumption
  <2>4. IsFiniteSet(D) /\ Cardinality(D) = Cardinality(R) + 1 /\ D \ {l} = R
    <3>1. l \notin R /\ IsFiniteSet(R)
      BY <2>1, <2>3
    <3>2. D \ {l} = R
      BY <3>1
    <3>3. IsFiniteSet(R \cup {l}) /\ Cardinality(R \cup {l}) = Cardinality(R) + 1
      BY <3>1, FS_AddElement
    <3>4. QED
      BY <3>2, <3>3
  <2>5. Sized(entries', D) /\ Sized(entries', R)
    BY <2>1, <2>2, EntriesSized DEF Sized
  <2>6. Total(entries', R) = Total(entries, R)
    BY <2>2, <2>3, <2>5, TotalAgrees
  <2>7. Total(entries', D) = size + Total(entries', R)
    BY <2>2, <2>4, <2>5, TotalWithout
  <2>8. SizeOf(DOMAIN entries)' = SizeOf(R) + size
    <3>1. SizeOf(DOMAIN entries)' = Total(entries', D) /\ SizeOf(R) = Total(entries, R)
      BY <2>2, SizeIsTotal
    <3> HIDE DEF D, R, size
    <3>2. QED
      BY <2>1, <2>3, <2>6, <2>7, <3>1
  <2>9. Cardinality(D) <= MaxEntries
    BY <2>3, <2>4, SizeAssumption
  <2>10. QED
    BY <2>2, <2>3, <2>4, <2>8, <2>9 DEF BudgetInv, WithinBudget, BytesAccounted
<1>3. CASE \E E \in Evictions(gone, size) :
             /\ entries' = [k \in (DOMAIN entries \ (gone \cup E)) \cup {l} |->
                   IF k = l THEN [result |-> v, expiresAt |-> now + CacheTTLFor(l),
                                  size |-> size]
                   ELSE entries[k]]
             /\ totalBytes' = totalBytes - SizeOf(gone \cup E) + size
  BY <1>2, <1>3
<1>4. QED
  BY <1>1, <1>3 DEF Put

(* An empty cache holds nothing and counts nothing.                        *)
LEMMA BudgetInit == Init => BudgetInv
<1> SUFFICES ASSUME Init PROVE BudgetInv
  OBVIOUS
<1>1. DOMAIN entries = {} /\ totalBytes = 0
  BY DEF Init
<1>2. SizeOf(DOMAIN entries) = 0
  BY <1>1, SizeIsTotal, TotalOfNone
<1>3. QED
  BY <1>1, <1>2, FS_EmptySet, SizeAssumption DEF BudgetInv, WithinBudget, BytesAccounted

(* Every step keeps the budget: only a miss and a put touch the cache.     *)
LEMMA BudgetStep == FreshInv /\ BudgetInv /\ [Next]_vars => BudgetInv'
<1> SUFFICES ASSUME FreshInv, BudgetInv, [Next]_vars PROVE BudgetInv'
  OBVIOUS
<1>1. TypeOK
  BY DEF FreshInv
<1>2. ASSUME UNCHANGED cacheVars
      PROVE  BudgetInv'
  BY <1>2, SizeIsTotal DEF cacheVars, BudgetInv, WithinBudget, BytesAccounted
<1>3. ASSUME NEW c \in Callers, NEW l \in Lookups, Miss(c, l)
      PROVE  BudgetInv'
  BY <1>1, <1>3, DeleteKeepsBudget DEF Miss
<1>4. ASSUME NEW c \in Callers, Receive(c)
      PROVE  BudgetInv'
  <2>1. calls[c].lookup \in Lookups /\ calls[c].answer \in Values
    BY <1>1, <1>4, CallFields DEF Receive
  <2>2. QED
    BY <1>1, <1>2, <1>4, <2>1, PutKeepsBudget DEF Receive
<1>5. ASSUME NEW c \in Callers, NEW l \in Lookups, ServeHit(c, l) \/ CallThrough(c, l)
      PROVE  BudgetInv'
  BY <1>2, <1>5 DEF ServeHit, CallThrough
<1>6. ASSUME NEW c \in Callers, UpstreamReads(c) \/ Fail(c) \/ Done(c)
      PROVE  BudgetInv'
  BY <1>2, <1>6 DEF UpstreamReads, Fail, Done
<1>7. CASE Tick \/ (\E l \in Lookups : TruthChanges(l)) \/ UNCHANGED vars
  BY <1>2, <1>7 DEF Tick, TruthChanges, vars, cacheVars
<1>8. QED
  BY <1>3, <1>4, <1>5, <1>6, <1>7 DEF Next

(* However lookups, puts and evictions interleave, the cache never holds   *)
(* more than MaxEntries results nor more than MaxBytes of keys and         *)
(* results: the documented memory bound of a pod.                          *)
THEOREM CacheWithinBudget == Spec => []WithinBudget
<1>1. BudgetInv => WithinBudget
  BY DEF BudgetInv
<1>2. QED
  BY FreshInit, FreshStep, BudgetInit, BudgetStep, <1>1, PTL DEF Spec

(* Cache.totalBytes is at every moment the bytes of the entries held: no   *)
(* path of get, purge, replacement or eviction makes it drift.             *)
THEOREM CacheBytesAccounted == Spec => []BytesAccounted
<1>1. BudgetInv => BytesAccounted
  BY DEF BudgetInv
<1>2. QED
  BY FreshInit, FreshStep, BudgetInit, BudgetStep, <1>1, PTL DEF Spec
==============================================================================
