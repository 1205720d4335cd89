---------------------------- MODULE WebhookListener ----------------------------
(***************************************************************************)
(* The webhook listener (images/webhook-listener): one goroutine per       *)
(* delivery, verifying the signature, claiming the delivery's replay key,  *)
(* forwarding through the dedicated proxy, and answering the provider.     *)
(* Copies of a delivery arrive any number of times, in any order, at any   *)
(* time; the proxy and the agent may lose, delay or act on what they get.  *)
(*                                                                         *)
(* A copy is what a sender can put on the wire: its provider, the          *)
(* provider's message id, the signed timestamp, and whether its signature  *)
(* is the provider's own.                                                  *)
(***************************************************************************)
EXTENDS Integers, FiniteSets, Functions

CONSTANTS
  Handlers,       \* ServeHTTP goroutines
  Copies,         \* [provider, id, stamp, genuine]
  Tolerance,      \* signatureTolerance
  ForwardTimeout, \* http.Client.Timeout
  MaxKeys,        \* maxReplayCacheKeys
  Stall,          \* ticks a goroutine may lose between its two clock reads
  MaxTime         \* bound on the clock

ASSUME ToleranceAssumption == Tolerance \in Nat /\ Stall \in Nat /\ MaxTime \in Nat
ASSUME CapacityAssumption == MaxKeys \in Nat
ASSUME CopiesAssumption == \A c \in Copies : c.stamp \in Int
(* A forward is over before its own claim can expire.                      *)
ASSUME TimeoutAssumption == ForwardTimeout \in 0..2 * Tolerance

VARIABLES
  now,       \* server.now()
  keys,      \* replayCache.keys: claimed key -> expiry
  handlers,  \* each goroutine's place in ServeHTTP
  late,      \* copies the proxy still holds for a forward the listener gave up
  received   \* history: how often the agent got each copy, counted to two

vars == <<now, keys, handlers, late, received>>

NoKey == <<"", "", 0>>

(* replayKey: a timestamped provider's identity for one accepted delivery. *)
(* A generic-v2 signature covers its timestamp; a Svix id does not.        *)
ReplayKey(c) ==
  IF c.provider = "svix" THEN <<"svix", c.id, 0>>
  ELSE IF c.provider = "generic-v2" THEN <<"generic-v2", c.id, c.stamp>>
  ELSE NoKey

Timestamped(c) == c.provider \in {"svix", "generic-v2"}

(* Mutant: only old timestamps are refused.                                *)
NotTooOld(c) == now <= c.stamp + Tolerance

(* validateTimestamp: inclusive at both ends.                              *)
InWindow(c) == c.stamp - Tolerance <= now /\ now <= c.stamp + Tolerance

(* Mutant: a fresh timestamp is enough.                                    *)
VerifiesByTime(c) == Timestamped(c) => InWindow(c)

Verifies(c) == c.genuine /\ (Timestamped(c) => InWindow(c))

Idle == [phase |-> "idle"]
At(phase, c, since) == [phase |-> phase, copy |-> c, since |-> since]
Goes(h, place) == handlers' = [handlers EXCEPT ![h] = place]
Answers(h, reason) == Goes(h, [phase |-> reason])

Answered == {"rejected", "replay_detected", "replay_cache_full", "forwarded",
             "forward_truncated", "upstream_bad_gateway", "upstream_unavailable",
             "upstream_unreachable"}
Forwarding == {"dialing", "sent", "acted"}

Init == /\ now = 0
        /\ keys = [k \in {} |-> 0]
        /\ handlers = [h \in Handlers |-> Idle]
        /\ late = {}
        /\ received = [c \in Copies |-> 0]

Arrive(h, c) ==
  /\ handlers[h] = Idle
  /\ Goes(h, At("arrived", c, now))
  /\ UNCHANGED <<now, keys, late, received>>

(* No such route, an oversized or unreadable body, no signing secret.      *)
RejectEarly(h) ==
  /\ handlers[h].phase = "arrived"
  /\ Answers(h, "rejected")
  /\ UNCHANGED <<now, keys, late, received>>

(* verifySignature, with the first reading of the clock.                   *)
Verify(h) ==
  /\ handlers[h].phase = "arrived"
  /\ LET c == handlers[h].copy
     IN IF ~Verifies(c) THEN Answers(h, "rejected")
        ELSE Goes(h, At(IF ReplayKey(c) = NoKey THEN "dialing" ELSE "verified", c, now))
  /\ UNCHANGED <<now, keys, late, received>>

(* Mutant: a claim is gone at the very moment it expires.                  *)
LiveBefore(k) == k \in DOMAIN keys /\ keys[k] > now

Live(k) == k \in DOMAIN keys /\ keys[k] >= now
Swept == IF Cardinality(DOMAIN keys) < MaxKeys THEN keys
         ELSE Restrict(keys, {k \in DOMAIN keys : Live(k)})

(* record, with the second reading of the clock: claim the key before      *)
(* forwarding, or say why not.                                             *)
Record(h) ==
  /\ handlers[h].phase = "verified"
  /\ LET k == ReplayKey(handlers[h].copy)
     IN \/ /\ Live(k)
           /\ Answers(h, "replay_detected")
           /\ UNCHANGED keys
        \/ /\ ~Live(k) /\ Cardinality(DOMAIN Swept) >= MaxKeys
           /\ keys' = Swept
           /\ Answers(h, "replay_cache_full")
        \/ /\ ~Live(k) /\ Cardinality(DOMAIN Swept) < MaxKeys
           /\ keys' = [j \in DOMAIN Swept \cup {k} |->
                         IF j = k THEN now + 2 * Tolerance ELSE Swept[j]]
           /\ Goes(h, At("dialing", handlers[h].copy, now))
  /\ UNCHANGED <<now, late, received>>

(* neverSent: no connection was made, so the key is released.              *)
Unreachable(h) ==
  /\ handlers[h].phase = "dialing"
  /\ keys' = Restrict(keys, DOMAIN keys \ {ReplayKey(handlers[h].copy)})
  /\ Answers(h, "upstream_unreachable")
  /\ UNCHANGED <<now, late, received>>

Send(h) ==
  /\ handlers[h].phase = "dialing"
  /\ Goes(h, [handlers[h] EXCEPT !.phase = "sent"])
  /\ UNCHANGED <<now, keys, late, received>>

Receives(c) == received' = [received EXCEPT ![c] = IF @ < 2 THEN @ + 1 ELSE 2]

(* The proxy gets the delivery to the agent, which acts on it.             *)
AgentActs(h) ==
  /\ handlers[h].phase = "sent"
  /\ Receives(handlers[h].copy)
  /\ Goes(h, [handlers[h] EXCEPT !.phase = "acted"])
  /\ UNCHANGED <<now, keys, late>>

(* The agent's answer comes back, whole or cut short.                      *)
Relay(h) ==
  /\ handlers[h].phase = "acted"
  /\ Answers(h, "forwarded") \/ Answers(h, "forward_truncated")
  /\ UNCHANGED <<now, keys, late, received>>

(* Mutant: a 502 is taken for a forward that was never sent.               *)
BadGatewayReleases(h) ==
  /\ handlers[h].phase \in {"sent", "acted"}
  /\ keys' = Restrict(keys, DOMAIN keys \ {ReplayKey(handlers[h].copy)})
  /\ Answers(h, "upstream_bad_gateway")
  /\ UNCHANGED <<now, late, received>>

(* A 502 of the proxy's or the agent's own: it proves nothing.             *)
BadGateway(h) ==
  /\ handlers[h].phase \in {"sent", "acted"}
  /\ Answers(h, "upstream_bad_gateway")
  /\ UNCHANGED <<now, keys, late, received>>

(* A write, a read or the client's timeout fails: the proxy may still have *)
(* the delivery and may still hand it over.                                *)
ForwardFails(h) ==
  /\ handlers[h].phase \in Forwarding
  /\ late' = IF handlers[h].phase = "sent" THEN late \cup {handlers[h].copy} ELSE late
  /\ Answers(h, "upstream_unavailable")
  /\ UNCHANGED <<now, keys, received>>

AgentActsLate(c) ==
  /\ Receives(c)
  /\ late' = late \ {c}
  /\ UNCHANGED <<now, keys, handlers>>

ProxyGivesUp(c) ==
  /\ late' = late \ {c}
  /\ UNCHANGED <<now, keys, handlers, received>>

Leave(h) ==
  /\ handlers[h].phase \in Answered
  /\ Goes(h, Idle)
  /\ UNCHANGED <<now, keys, late, received>>

(* Time passes, but no goroutine stalls longer than Stall between its two  *)
(* clock readings, and no forward outlasts the client's timeout.           *)
Tick ==
  /\ now < MaxTime
  /\ \A h \in Handlers :
       /\ handlers[h].phase = "verified" => now < handlers[h].since + Stall
       /\ handlers[h].phase \in Forwarding => now < handlers[h].since + ForwardTimeout
  /\ now' = now + 1
  /\ UNCHANGED <<keys, handlers, late, received>>

Handles(h) == \/ RejectEarly(h) \/ Verify(h) \/ Record(h)
              \/ Unreachable(h) \/ Send(h) \/ AgentActs(h) \/ Relay(h)
              \/ BadGateway(h) \/ ForwardFails(h) \/ Leave(h)

Next == \/ \E h \in Handlers : Handles(h) \/ \E c \in Copies : Arrive(h, c)
        \/ \E c \in late : AgentActsLate(c) \/ ProxyGivesUp(c)
        \/ Tick

Spec == Init /\ [][Next]_vars
-------------------------------------------------------------------------------
(* The types of the state.                                                 *)
Places == [phase : {"idle"} \cup Answered]
          \cup [phase : {"arrived", "verified"} \cup Forwarding, copy : Copies, since : Nat]
TypeOK ==
  /\ now \in Nat
  /\ \A k \in DOMAIN keys : keys[k] \in Nat
  /\ handlers \in [Handlers -> Places]
  /\ late \subseteq Copies
  /\ received \in [Copies -> 0..2]

(* Single use: the agent never gets one timestamped signature twice,       *)
(* whatever copies arrive when, and whatever the proxy loses or delays.    *)
SingleUse == \A c \in Copies : Timestamped(c) => received[c] <= 1

(* The cache is bounded, and only genuine deliveries occupy it: a forged   *)
(* copy cannot use up a real one's key.                                    *)
ClaimsAreGenuine ==
  /\ Cardinality(DOMAIN keys) <= MaxKeys
  /\ \A k \in DOMAIN keys : \E c \in Copies : c.genuine /\ ReplayKey(c) = k

(* A claim goes away early only with the delivery that made it, and only   *)
(* before anything of it left the listener.                                *)
ReleasedUnsent ==
  [][\A k \in DOMAIN keys \ DOMAIN keys' : Live(k) =>
       \E h \in Handlers : /\ handlers[h].phase = "dialing"
                           /\ ReplayKey(handlers[h].copy) = k
                           /\ keys[k] = handlers[h].since + 2 * Tolerance]_vars

(* Two goroutines never forward under one key at the same time.            *)
OneForwardPerKey ==
  \A g, h \in Handlers :
    /\ g # h
    /\ handlers[g].phase \in Forwarding /\ handlers[h].phase \in Forwarding
    /\ Timestamped(handlers[g].copy)
    => ReplayKey(handlers[g].copy) # ReplayKey(handlers[h].copy)

-------------------------------------------------------------------------------
(* What makes SingleUse and OneForwardPerKey inductive, while a goroutine  *)
(* does not stall between its two clock readings.                          *)
Forwards(h, c) == handlers[h].phase \in Forwarding /\ handlers[h].copy = c
InFlight(h, c) == handlers[h].phase \in {"dialing", "sent"} /\ handlers[h].copy = c
Used(c) == received[c] > 0 \/ c \in late \/ \E h \in Handlers : Forwards(h, c)
Over(c) == now > c.stamp + Tolerance

(* A delivery is in one place at a time: at the agent, with the proxy, or  *)
(* with one goroutine.                                                     *)
OnePlace ==
  \A c \in Copies : Timestamped(c) =>
    /\ \A g, h \in Handlers : InFlight(g, c) /\ InFlight(h, c) => g = h
    /\ received[c] > 0 \/ c \in late => \A h \in Handlers : ~InFlight(h, c)
    /\ received[c] > 0 => c \notin late

(* A delivery that was let through is remembered while it still verifies.  *)
Remembered ==
  \A c \in Copies : Timestamped(c) /\ Used(c) /\ ~Over(c) =>
    ReplayKey(c) \in DOMAIN keys /\ keys[ReplayKey(c)] >= c.stamp + Tolerance

(* A forward holds its own claim, live, until it ends.                     *)
ClaimHeld ==
  \A h \in Handlers :
    handlers[h].phase \in Forwarding /\ Timestamped(handlers[h].copy) =>
      /\ ReplayKey(handlers[h].copy) \in DOMAIN keys
      /\ keys[ReplayKey(handlers[h].copy)] = handlers[h].since + 2 * Tolerance
      /\ now <= handlers[h].since + ForwardTimeout

(* A claim that replaced another delivery's replaced one that no longer    *)
(* verifies, so releasing it uncovers nothing.                             *)
Superseded ==
  \A h \in Handlers, c \in Copies :
    /\ handlers[h].phase \in Forwarding /\ handlers[h].copy # c
    /\ Timestamped(c) /\ ReplayKey(c) = ReplayKey(handlers[h].copy) /\ Used(c)
    => Over(c)

VerifiedNow ==
  \A h \in Handlers : handlers[h].phase = "verified" =>
    /\ handlers[h].since = now
    /\ Timestamped(handlers[h].copy) /\ InWindow(handlers[h].copy)

(* What makes ClaimsAreGenuine inductive: only a genuine copy gets as far  *)
(* as the cache.                                                           *)
GenuineInv ==
  /\ now \in Nat /\ handlers \in [Handlers -> Places]
  /\ IsFiniteSet(DOMAIN keys) /\ ClaimsAreGenuine
  /\ \A h \in Handlers : handlers[h].phase = "verified" => handlers[h].copy.genuine

(* What makes OneForwardPerKey and ReleasedUnsent hold, stalls or not: a    *)
(* forward is over before its claim can expire, so nobody else can claim    *)
(* its key.                                                                *)
ClaimInv ==
  /\ now \in Nat /\ handlers \in [Handlers -> Places]
  /\ NoKey \notin DOMAIN keys
  /\ \A h \in Handlers : handlers[h].phase = "verified" => Timestamped(handlers[h].copy)
  /\ ClaimHeld /\ OneForwardPerKey

ListenerInv == /\ TypeOK /\ SingleUse /\ OnePlace /\ Remembered /\ ClaimHeld
               /\ OneForwardPerKey /\ Superseded /\ VerifiedNow
==============================================================================
