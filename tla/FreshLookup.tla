----------------------------- MODULE FreshLookup -----------------------------
(***************************************************************************)
(* What an authorization gate may assume of a live upstream lookup: the    *)
(* answer it gets was the upstream truth at some moment no further than    *)
(* MaxAge[l] before the call began, and no later than its return.  A       *)
(* lookup may fail at any moment; it may never answer with something that  *)
(* was not true in that window.  MaxAge[l] = 0 is an atomic read.          *)
(***************************************************************************)
EXTENDS Integers

CONSTANTS Callers,      \* goroutines that resolve a gate
          Lookups,      \* distinct (tool, arguments) pairs
          Values,       \* what upstream may answer
          MaxAge,       \* [Lookups -> Nat]: how old an answer may be
          MaxTime       \* bound on the clock

VARIABLES now,          \* the clock
          truth,        \* truth[l]: what upstream would answer now
          superseded,   \* superseded[l][v]: when v last stopped being l's truth
          calls         \* calls[c]: the lookup a caller has in hand

vars == <<now, truth, superseded, calls>>

Never == -1

(* The last moment v was the truth of l; Never if it was not yet.          *)
LastTrue(l, v) == IF truth[l] = v THEN now ELSE superseded[l][v]

Idle == [phase |-> "idle"]
Open(l) == [phase |-> "open", lookup |-> l, since |-> now]
Answered(l, since, v) ==
  [phase |-> "answered", lookup |-> l, since |-> since, answer |-> v]

(* A call begun at time since may be answered with v.                      *)
Fresh(l, since, v) == LastTrue(l, v) # Never /\ LastTrue(l, v) >= since - MaxAge[l]

Init == /\ now = 0
        /\ truth \in [Lookups -> Values]
        /\ superseded = [l \in Lookups |-> [v \in Values |-> Never]]
        /\ calls = [c \in Callers |-> Idle]

Begin(c, l) == /\ calls[c] = Idle
               /\ calls' = [calls EXCEPT ![c] = Open(l)]
               /\ UNCHANGED <<now, truth, superseded>>

(* Answered at once, from something remembered.                            *)
Recall(c, l) == /\ calls[c] = Idle
                /\ \E v \in Values : /\ Fresh(l, now, v)
                                     /\ calls' = [calls EXCEPT ![c] = Answered(l, now, v)]
                /\ UNCHANGED <<now, truth, superseded>>

Answer(c) == /\ calls[c].phase = "open"
             /\ \E v \in Values :
                  /\ Fresh(calls[c].lookup, calls[c].since, v)
                  /\ calls' = [calls EXCEPT ![c] =
                                 Answered(calls[c].lookup, calls[c].since, v)]
             /\ UNCHANGED <<now, truth, superseded>>

(* The call fails, or the gate is done with its answer.                    *)
End(c) == /\ calls[c] # Idle
          /\ calls' = [calls EXCEPT ![c] = Idle]
          /\ UNCHANGED <<now, truth, superseded>>

Change(l) == /\ \E v \in Values \ {truth[l]} : truth' = [truth EXCEPT ![l] = v]
             /\ superseded' = [superseded EXCEPT ![l][truth[l]] = now]
             /\ UNCHANGED <<now, calls>>

Tick == /\ now < MaxTime
        /\ now' = now + 1
        /\ UNCHANGED <<truth, superseded, calls>>

Next == \/ \E c \in Callers : \/ \E l \in Lookups : Begin(c, l) \/ Recall(c, l)
                              \/ Answer(c)
                              \/ End(c)
        \/ \E l \in Lookups : Change(l)
        \/ Tick

Spec == Init /\ [][Next]_vars
==============================================================================
