------------------------- MODULE WebhookListenerProofs --------------------------
(***************************************************************************)
(* That the listener is single-use for any number of goroutines and        *)
(* copies and any capacity, provided no goroutine stalls between its two   *)
(* readings of the clock; and, stalls or not, that only genuine deliveries *)
(* are claimed, that no two forwards share a claim, and that a live claim  *)
(* is released only by its own forward, before anything of it was sent.    *)
(***************************************************************************)
EXTENDS WebhookListener, FiniteSetTheorems, TLAPS

(* The initial state satisfies the invariant: nothing was used yet.        *)
LEMMA ListenerInit == Init => ListenerInv
<1> SUFFICES ASSUME Init PROVE ListenerInv OBVIOUS
<1>1. \A h \in Handlers : handlers[h].phase = "idle"  BY DEF Init, Idle
<1>2. TypeOK  BY DEF Init, TypeOK, Places, Idle
<1>3. \A c \in Copies : ~Used(c)
  BY <1>1 DEF Init, Used, Forwards, Forwarding
<1>4. SingleUse  BY DEF Init, SingleUse
<1>5. OnePlace  BY <1>1, <1>3 DEF Init, OnePlace, InFlight, Used
<1>6. Remembered /\ Superseded  BY <1>3 DEF Remembered, Superseded
<1>7. ClaimHeld /\ OneForwardPerKey /\ VerifiedNow
  BY <1>1 DEF ClaimHeld, OneForwardPerKey, VerifiedNow, Forwarding
<1> QED  BY <1>2, <1>4, <1>5, <1>6, <1>7 DEF ListenerInv

(* A goroutine that goes to a place where it forwards nothing signed with  *)
(* a timestamp keeps the invariant, as long as no live claim is lost.      *)
LEMMA Settle ==
  ASSUME ListenerInv, NEW h \in Handlers, NEW p \in Places, Goes(h, p),
         p.phase \in Forwarding => ~Timestamped(p.copy),
         p.phase = "verified" => p.since = now /\ Timestamped(p.copy) /\ InWindow(p.copy),
         \A k \in DOMAIN keys : Live(k) => k \in DOMAIN keys' /\ keys'[k] = keys[k],
         \A k \in DOMAIN keys' : keys'[k] \in Nat,
         UNCHANGED <<now, late, received>>
  PROVE  ListenerInv'
<1> USE DEF ListenerInv
<1>1. \A g \in Handlers : handlers'[g] = IF g = h THEN p ELSE handlers[g]
  BY DEF Goes, TypeOK
<1>2. TypeOK'  BY DEF Goes, TypeOK
<1>3. SingleUse'  BY DEF SingleUse
<1>4. \A g \in Handlers : handlers'[g].phase \in Forwarding /\ Timestamped(handlers'[g].copy)
                          => handlers'[g] = handlers[g]
  BY <1>1
<1>5. \A g \in Handlers, c \in Copies : Timestamped(c) =>
        /\ Forwards(g, c)' => Forwards(g, c)
        /\ InFlight(g, c)' => InFlight(g, c)
  BY <1>4 DEF Forwards, InFlight, Forwarding
<1>6. \A c \in Copies : Timestamped(c) /\ Used(c)' => Used(c)
  BY <1>5 DEF Used
<1>7. OnePlace'  BY <1>5 DEF OnePlace
<1>8. Remembered'
  <2> SUFFICES ASSUME NEW c \in Copies, Timestamped(c), Used(c)', ~Over(c)
               PROVE  ReplayKey(c) \in DOMAIN keys' /\ keys'[ReplayKey(c)] >= c.stamp + Tolerance
    BY DEF Remembered, Over
  <2>1. ReplayKey(c) \in DOMAIN keys /\ keys[ReplayKey(c)] >= c.stamp + Tolerance
    BY <1>6 DEF Remembered
  <2>2. Live(ReplayKey(c))
    BY <2>1, CopiesAssumption, ToleranceAssumption DEF Live, Over, TypeOK
  <2> QED  BY <2>1, <2>2
<1>9. ClaimHeld'
  <2> SUFFICES ASSUME NEW g \in Handlers, handlers'[g].phase \in Forwarding,
                      Timestamped(handlers'[g].copy)
               PROVE  /\ ReplayKey(handlers'[g].copy) \in DOMAIN keys'
                      /\ keys'[ReplayKey(handlers'[g].copy)] = handlers'[g].since + 2 * Tolerance
                      /\ now' <= handlers'[g].since + ForwardTimeout
    BY DEF ClaimHeld
  <2> DEFINE k == ReplayKey(handlers[g].copy)
  <2>1. handlers'[g] = handlers[g]  BY <1>4
  <2>2. /\ k \in DOMAIN keys /\ keys[k] = handlers[g].since + 2 * Tolerance
        /\ now <= handlers[g].since + ForwardTimeout
    BY <2>1 DEF ClaimHeld
  <2>3. handlers[g].since \in Nat  BY <2>1 DEF TypeOK, Places, Forwarding, Answered
  <2>4. Live(k)
    BY <2>2, <2>3, ToleranceAssumption, TimeoutAssumption DEF Live, TypeOK
  <2> QED  BY <2>1, <2>2, <2>4
<1>10. OneForwardPerKey'
  <2> SUFFICES ASSUME NEW g \in Handlers, NEW i \in Handlers, g # i,
                      handlers'[g].phase \in Forwarding, handlers'[i].phase \in Forwarding,
                      Timestamped(handlers'[g].copy),
                      ReplayKey(handlers'[g].copy) = ReplayKey(handlers'[i].copy)
               PROVE  FALSE
    BY DEF OneForwardPerKey
  <2>1. Timestamped(handlers'[i].copy)  BY DEF Timestamped, ReplayKey, NoKey
  <2>2. handlers'[g] = handlers[g] /\ handlers'[i] = handlers[i]  BY <1>4, <2>1
  <2> QED  BY <2>2 DEF OneForwardPerKey
<1>11. Superseded'
  <2> SUFFICES ASSUME NEW g \in Handlers, NEW c \in Copies, handlers'[g].phase \in Forwarding,
                      handlers'[g].copy # c, Timestamped(c),
                      ReplayKey(c) = ReplayKey(handlers'[g].copy), Used(c)'
               PROVE  Over(c)
    BY DEF Superseded, Over
  <2>1. Timestamped(handlers'[g].copy)  BY DEF Timestamped, ReplayKey, NoKey
  <2>2. handlers'[g] = handlers[g] /\ Used(c)  BY <1>4, <1>6, <2>1
  <2> QED  BY <2>2 DEF Superseded
<1>12. VerifiedNow'  BY <1>1 DEF VerifiedNow, InWindow
<1> QED  BY <1>2, <1>3, <1>7, <1>8, <1>9, <1>10, <1>11, <1>12

(* Letting a delivery through: its key was not live, so it had not been    *)
(* used, nobody forwards under its key, and whatever else was used under   *)
(* the key no longer verifies.                                             *)
LEMMA Claim ==
  ASSUME ListenerInv, NEW h \in Handlers, handlers[h].phase = "verified",
         NEW d, d = handlers[h].copy, ~Live(ReplayKey(d)),
         Goes(h, At("dialing", d, now)),
         ReplayKey(d) \in DOMAIN keys', keys'[ReplayKey(d)] = now + 2 * Tolerance,
         \A k \in DOMAIN keys : Live(k) => k \in DOMAIN keys' /\ keys'[k] = keys[k],
         \A k \in DOMAIN keys' : keys'[k] \in Nat,
         UNCHANGED <<now, late, received>>
  PROVE  ListenerInv'
<1> USE DEF ListenerInv
<1>1. d \in Copies /\ Timestamped(d) /\ InWindow(d)
  BY DEF VerifiedNow, TypeOK, Places, Answered
<1>2. now \in Nat /\ d.stamp \in Int /\ Tolerance \in Nat /\ ~Over(d)
  BY <1>1, CopiesAssumption, ToleranceAssumption DEF TypeOK, InWindow, Over
<1>3. \A g \in Handlers : handlers'[g] = IF g = h THEN At("dialing", d, now) ELSE handlers[g]
  BY DEF Goes, TypeOK
<1>4. handlers'[h].phase = "dialing" /\ handlers'[h].copy = d /\ handlers'[h].since = now
  BY <1>3 DEF At
<1>5. TypeOK'
  <2>1. At("dialing", d, now) \in Places  BY <1>1, <1>2 DEF At, Places, Forwarding
  <2> QED  BY <2>1 DEF Goes, TypeOK
<1>6. \A c \in Copies : Timestamped(c) /\ ReplayKey(c) = ReplayKey(d) /\ Used(c) => Over(c)
  <2> SUFFICES ASSUME NEW c \in Copies, Timestamped(c), ReplayKey(c) = ReplayKey(d), Used(c), ~Over(c)
               PROVE  FALSE
    OBVIOUS
  <2>1. ReplayKey(c) \in DOMAIN keys /\ keys[ReplayKey(c)] >= c.stamp + Tolerance
    BY DEF Remembered
  <2> QED  BY <2>1, CopiesAssumption, ToleranceAssumption DEF Live, Over, TypeOK
<1>7. ~Used(d)  BY <1>1, <1>2, <1>6
<1>8. \A g \in Handlers : handlers[g].phase \in Forwarding /\ Timestamped(handlers[g].copy)
                          => ReplayKey(handlers[g].copy) # ReplayKey(d)
  <2> SUFFICES ASSUME NEW g \in Handlers, handlers[g].phase \in Forwarding,
                      Timestamped(handlers[g].copy), ReplayKey(handlers[g].copy) = ReplayKey(d)
               PROVE  FALSE
    OBVIOUS
  <2>1. handlers[g].since \in Nat  BY DEF TypeOK, Places, Forwarding, Answered
  <2>2. /\ ReplayKey(d) \in DOMAIN keys
        /\ keys[ReplayKey(d)] = handlers[g].since + 2 * Tolerance
        /\ now <= handlers[g].since + ForwardTimeout
    BY DEF ClaimHeld
  <2> QED  BY <1>2, <2>1, <2>2, TimeoutAssumption DEF Live
<1>9. SingleUse'  BY DEF SingleUse
<1>10. \A c \in Copies : Used(c)' => c = d \/ Used(c)
  BY <1>3, <1>4 DEF Used, Forwards
<1>11. \A g \in Handlers, c \in Copies : InFlight(g, c)' => (g = h /\ c = d) \/ (g # h /\ InFlight(g, c))
  BY <1>3, <1>4 DEF InFlight
<1>12. received[d] = 0 /\ d \notin late /\ \A g \in Handlers : ~InFlight(g, d)
  BY <1>1, <1>7 DEF Used, TypeOK, InFlight, Forwards, Forwarding
<1>13. OnePlace'
  <2> SUFFICES ASSUME NEW c \in Copies, Timestamped(c)
               PROVE  /\ \A g, i \in Handlers : InFlight(g, c)' /\ InFlight(i, c)' => g = i
                      /\ received[c] > 0 \/ c \in late => \A g \in Handlers : ~InFlight(g, c)'
                      /\ received[c] > 0 => c \notin late
    BY DEF OnePlace
  <2>1. CASE c = d  BY <2>1, <1>11, <1>12
  <2>2. CASE c # d  BY <2>2, <1>11 DEF OnePlace
  <2> QED  BY <2>1, <2>2
<1>14. Remembered'
  <2> SUFFICES ASSUME NEW c \in Copies, Timestamped(c), Used(c)', ~Over(c)
               PROVE  ReplayKey(c) \in DOMAIN keys' /\ keys'[ReplayKey(c)] >= c.stamp + Tolerance
    BY DEF Remembered, Over
  <2>1. CASE c = d  BY <2>1, <1>1, <1>2 DEF InWindow
  <2>2. CASE c # d
    <3>1. Used(c)  BY <2>2, <1>10
    <3>2. ReplayKey(c) # ReplayKey(d)  BY <3>1, <1>6
    <3>3. ReplayKey(c) \in DOMAIN keys /\ keys[ReplayKey(c)] >= c.stamp + Tolerance
      BY <3>1 DEF Remembered
    <3>4. Live(ReplayKey(c))
      BY <3>3, CopiesAssumption, ToleranceAssumption DEF Live, Over, TypeOK
    <3> QED  BY <3>3, <3>4
  <2> QED  BY <2>1, <2>2
<1>15. ClaimHeld'
  <2> SUFFICES ASSUME NEW g \in Handlers, handlers'[g].phase \in Forwarding,
                      Timestamped(handlers'[g].copy)
               PROVE  /\ ReplayKey(handlers'[g].copy) \in DOMAIN keys'
                      /\ keys'[ReplayKey(handlers'[g].copy)] = handlers'[g].since + 2 * Tolerance
                      /\ now' <= handlers'[g].since + ForwardTimeout
    BY DEF ClaimHeld
  <2>1. CASE g = h
    BY <2>1, <1>2, <1>4, TimeoutAssumption
  <2>2. CASE g # h
    <3>1. handlers'[g] = handlers[g]  BY <2>2, <1>3
    <3>2. handlers[g].since \in Nat  BY <3>1 DEF TypeOK, Places, Forwarding, Answered
    <3>3. /\ ReplayKey(handlers[g].copy) \in DOMAIN keys
          /\ keys[ReplayKey(handlers[g].copy)] = handlers[g].since + 2 * Tolerance
          /\ now <= handlers[g].since + ForwardTimeout
      BY <3>1 DEF ClaimHeld
    <3>4. Live(ReplayKey(handlers[g].copy))
      BY <1>2, <3>2, <3>3, TimeoutAssumption DEF Live
    <3> QED  BY <3>1, <3>3, <3>4
  <2> QED  BY <2>1, <2>2
<1>16. OneForwardPerKey'
  <2> SUFFICES ASSUME NEW g \in Handlers, NEW i \in Handlers, g # i,
                      handlers'[g].phase \in Forwarding, handlers'[i].phase \in Forwarding,
                      Timestamped(handlers'[g].copy),
                      ReplayKey(handlers'[g].copy) = ReplayKey(handlers'[i].copy)
               PROVE  FALSE
    BY DEF OneForwardPerKey
  <2>1. Timestamped(handlers'[i].copy)  BY DEF Timestamped, ReplayKey, NoKey
  <2>2. CASE g = h  BY <2>1, <2>2, <1>3, <1>4, <1>8
  <2>3. CASE i = h  BY <2>3, <1>3, <1>4, <1>8
  <2>4. CASE g # h /\ i # h  BY <2>4, <1>3 DEF OneForwardPerKey
  <2> QED  BY <2>2, <2>3, <2>4
<1>17. Superseded'
  <2> SUFFICES ASSUME NEW g \in Handlers, NEW c \in Copies, handlers'[g].phase \in Forwarding,
                      handlers'[g].copy # c, Timestamped(c),
                      ReplayKey(c) = ReplayKey(handlers'[g].copy), Used(c)'
               PROVE  Over(c)
    BY DEF Superseded, Over
  <2>1. Timestamped(handlers'[g].copy)  BY DEF Timestamped, ReplayKey, NoKey
  <2>2. CASE g = h  BY <2>2, <1>4, <1>6, <1>10
  <2>3. CASE g # h /\ c = d  BY <2>1, <2>3, <1>3, <1>8
  <2>4. CASE g # h /\ c # d  BY <2>4, <1>3, <1>10 DEF Superseded
  <2> QED  BY <2>2, <2>3, <2>4
<1>18. VerifiedNow'  BY <1>3, <1>4 DEF VerifiedNow, InWindow
<1> QED  BY <1>5, <1>9, <1>13, <1>14, <1>15, <1>16, <1>17, <1>18

(* Releasing the key of a delivery that never left: it was the only one    *)
(* forwarding under the key, and what it superseded no longer verifies.    *)
LEMMA Release ==
  ASSUME ListenerInv, NEW h \in Handlers, Unreachable(h), NEW d, d = handlers[h].copy
  PROVE  ListenerInv'
<1> USE DEF ListenerInv
<1> DEFINE k == ReplayKey(d)
<1>1. /\ handlers[h].phase = "dialing" /\ d \in Copies /\ Forwards(h, d) /\ InFlight(h, d)
      /\ UNCHANGED <<now, late, received>>
  BY DEF Unreachable, TypeOK, Places, Answered, Forwards, InFlight, Forwarding
<1>2. \A g \in Handlers : handlers'[g] = IF g = h THEN [phase |-> "upstream_unreachable"] ELSE handlers[g]
  BY DEF Unreachable, Answers, Goes, TypeOK
<1>3. \A j : /\ j \in DOMAIN keys' <=> j \in DOMAIN keys /\ j # k
             /\ j \in DOMAIN keys' => keys'[j] = keys[j]
  BY DEF Unreachable, Restrict
<1>4. TypeOK'
  <2>1. [phase |-> "upstream_unreachable"] \in Places  BY DEF Places, Answered
  <2>2. \A j \in DOMAIN keys' : keys'[j] \in Nat  BY <1>3 DEF TypeOK
  <2> QED  BY <1>1, <2>1, <2>2 DEF TypeOK, Unreachable, Answers, Goes
<1>5. SingleUse'  BY <1>1 DEF SingleUse
<1>6. \A g \in Handlers, c \in Copies :
        /\ Forwards(g, c)' => g # h /\ Forwards(g, c)
        /\ InFlight(g, c)' => g # h /\ InFlight(g, c)
  BY <1>2 DEF Forwards, InFlight, Forwarding
<1>7. \A c \in Copies : Used(c)' => Used(c)  BY <1>1, <1>6 DEF Used
<1>8. Timestamped(d) => ~Used(d)'
  <2> SUFFICES ASSUME Timestamped(d), Used(d)' PROVE FALSE  OBVIOUS
  <2>1. received[d] = 0 /\ d \notin late  BY <1>1 DEF OnePlace, TypeOK
  <2>2. PICK g \in Handlers : g # h /\ Forwards(g, d)  BY <1>1, <1>6, <2>1 DEF Used
  <2> QED  BY <1>1, <2>2 DEF OneForwardPerKey, Forwards
<1>9. OnePlace'  BY <1>1, <1>6 DEF OnePlace
<1>10. Remembered'
  <2> SUFFICES ASSUME NEW c \in Copies, Timestamped(c), Used(c)', ~Over(c)
               PROVE  ReplayKey(c) \in DOMAIN keys' /\ keys'[ReplayKey(c)] >= c.stamp + Tolerance
    BY <1>1 DEF Remembered, Over
  <2>1. ReplayKey(c) # k
    <3> SUFFICES ASSUME ReplayKey(c) = k PROVE FALSE  OBVIOUS
    <3>1. Timestamped(d)  BY DEF Timestamped, ReplayKey, NoKey
    <3>2. c # d  BY <1>8, <3>1
    <3> QED  BY <1>1, <1>7, <3>2 DEF Superseded, Forwards
  <2>2. ReplayKey(c) \in DOMAIN keys /\ keys[ReplayKey(c)] >= c.stamp + Tolerance
    BY <1>7 DEF Remembered
  <2> QED  BY <1>3, <2>1, <2>2
<1>11. ClaimHeld'
  <2> SUFFICES ASSUME NEW g \in Handlers, handlers'[g].phase \in Forwarding,
                      Timestamped(handlers'[g].copy)
               PROVE  /\ ReplayKey(handlers'[g].copy) \in DOMAIN keys'
                      /\ keys'[ReplayKey(handlers'[g].copy)] = handlers'[g].since + 2 * Tolerance
                      /\ now' <= handlers'[g].since + ForwardTimeout
    BY DEF ClaimHeld
  <2>1. g # h /\ handlers'[g] = handlers[g]  BY <1>2 DEF Forwarding
  <2>2. ReplayKey(handlers[g].copy) # k  BY <1>1, <2>1 DEF OneForwardPerKey, Forwards
  <2>3. /\ ReplayKey(handlers[g].copy) \in DOMAIN keys
        /\ keys[ReplayKey(handlers[g].copy)] = handlers[g].since + 2 * Tolerance
        /\ now <= handlers[g].since + ForwardTimeout
    BY <2>1 DEF ClaimHeld
  <2> QED  BY <1>1, <1>3, <2>1, <2>2, <2>3
<1>12. OneForwardPerKey'  BY <1>2 DEF OneForwardPerKey, Forwarding
<1>13. Superseded'
  <2> SUFFICES ASSUME NEW g \in Handlers, NEW c \in Copies, handlers'[g].phase \in Forwarding,
                      handlers'[g].copy # c, Timestamped(c),
                      ReplayKey(c) = ReplayKey(handlers'[g].copy), Used(c)'
               PROVE  Over(c)
    BY <1>1 DEF Superseded, Over
  <2> QED  BY <1>2, <1>7 DEF Superseded, Forwarding
<1>14. VerifiedNow'  BY <1>1, <1>2 DEF VerifiedNow, InWindow
<1> QED  BY <1>4, <1>5, <1>9, <1>10, <1>11, <1>12, <1>13, <1>14

(* Moving a forward on from one phase to the next changes nothing else;    *)
(* when the agent acts, the delivery is where it will stay.                *)
LEMMA Proceed ==
  ASSUME ListenerInv, NEW h \in Handlers, Send(h) \/ AgentActs(h)
  PROVE  ListenerInv'
<1> USE DEF ListenerInv
<1> DEFINE d == handlers[h].copy
<1>1. PICK phase \in {"sent", "acted"} :
        /\ handlers' = [handlers EXCEPT ![h] = [handlers[h] EXCEPT !.phase = phase]]
        /\ phase = "sent" => UNCHANGED received
        /\ phase = "acted" => Receives(d)
        /\ UNCHANGED <<now, keys, late>>
  BY DEF Send, AgentActs, Goes
<1>2. /\ handlers[h].phase \in {"dialing", "sent"} /\ d \in Copies
      /\ handlers[h] \in [phase : {"arrived", "verified"} \cup Forwarding, copy : Copies, since : Nat]
  BY DEF Send, AgentActs, TypeOK, Places, Answered
<1>3. \A g \in Handlers : handlers'[g] = IF g = h THEN [handlers[h] EXCEPT !.phase = phase] ELSE handlers[g]
  BY <1>1 DEF TypeOK
<1>4. handlers'[h].phase = phase /\ handlers'[h].copy = d /\ handlers'[h].since = handlers[h].since
  BY <1>2, <1>3
<1>5. received' \in [Copies -> 0..2] /\ \A c \in Copies : c # d => received'[c] = received[c]
  BY <1>1, <1>2 DEF TypeOK, Receives
<1>6. Timestamped(d) => /\ received[d] = 0 /\ d \notin late
                       /\ \A g \in Handlers : InFlight(g, d) => g = h
  BY <1>2 DEF OnePlace, InFlight, TypeOK
<1>7. received[d] = 0 => received'[d] = IF phase = "acted" THEN 1 ELSE 0
  BY <1>1, <1>2 DEF Receives, TypeOK
<1>8. TypeOK'
  <2>1. handlers'[h] \in Places  BY <1>2, <1>3 DEF Places, Forwarding
  <2>2. handlers' \in [Handlers -> Places]  BY <1>1, <1>3, <2>1 DEF TypeOK
  <2> QED  BY <1>1, <1>5, <2>2 DEF TypeOK
<1>9. SingleUse'  BY <1>5, <1>6, <1>7 DEF SingleUse
<1>10. \A g \in Handlers, c \in Copies :
         /\ Forwards(g, c)' <=> Forwards(g, c)
         /\ InFlight(g, c)' => InFlight(g, c)
         /\ phase = "acted" => ~InFlight(h, c)'
  BY <1>2, <1>3, <1>4 DEF Forwards, InFlight, Forwarding
<1>11. \A c \in Copies : Used(c)' => Used(c)
  <2> SUFFICES ASSUME NEW c \in Copies, Used(c)' PROVE Used(c)  OBVIOUS
  <2>1. CASE c = d  BY <2>1, <1>2 DEF Used, Forwards, Forwarding
  <2>2. CASE c # d  BY <2>2, <1>1, <1>5, <1>10 DEF Used
  <2> QED  BY <2>1, <2>2
<1>12. OnePlace'
  <2> SUFFICES ASSUME NEW c \in Copies, Timestamped(c)
               PROVE  /\ \A g, i \in Handlers : InFlight(g, c)' /\ InFlight(i, c)' => g = i
                      /\ received'[c] > 0 \/ c \in late' => \A g \in Handlers : ~InFlight(g, c)'
                      /\ received'[c] > 0 => c \notin late'
    BY DEF OnePlace
  <2>1. CASE c = d  BY <2>1, <1>1, <1>6, <1>7, <1>10
  <2>2. CASE c # d  BY <2>2, <1>1, <1>5, <1>10 DEF OnePlace
  <2> QED  BY <2>1, <2>2
<1>13. Remembered'
  <2> SUFFICES ASSUME NEW c \in Copies, Timestamped(c), Used(c)', ~Over(c)
               PROVE  ReplayKey(c) \in DOMAIN keys /\ keys[ReplayKey(c)] >= c.stamp + Tolerance
    BY <1>1 DEF Remembered, Over
  <2> QED  BY <1>11 DEF Remembered
<1>14. \A g \in Handlers : handlers'[g].phase \in Forwarding =>
         /\ handlers[g].phase \in Forwarding /\ handlers'[g].copy = handlers[g].copy
         /\ handlers'[g].since = handlers[g].since
  BY <1>2, <1>3, <1>4 DEF Forwarding
<1>15. ClaimHeld'  BY <1>1, <1>14 DEF ClaimHeld
<1>16. OneForwardPerKey'  BY <1>14 DEF OneForwardPerKey
<1>17. Superseded'
  <2> SUFFICES ASSUME NEW g \in Handlers, NEW c \in Copies, handlers'[g].phase \in Forwarding,
                      handlers'[g].copy # c, Timestamped(c),
                      ReplayKey(c) = ReplayKey(handlers'[g].copy), Used(c)'
               PROVE  Over(c)
    BY <1>1 DEF Superseded, Over
  <2> QED  BY <1>11, <1>14 DEF Superseded
<1>18. VerifiedNow'  BY <1>1, <1>3, <1>4 DEF VerifiedNow, InWindow
<1> QED  BY <1>8, <1>9, <1>12, <1>13, <1>15, <1>16, <1>17, <1>18

(* A forward that fails after it was sent leaves the delivery with the     *)
(* proxy.                                                                  *)
LEMMA GiveUp ==
  ASSUME ListenerInv, NEW h \in Handlers, handlers[h].phase = "sent", ForwardFails(h),
         NEW d, d = handlers[h].copy
  PROVE  ListenerInv'
<1> USE DEF ListenerInv
<1>1. /\ d \in Copies /\ Forwards(h, d) /\ InFlight(h, d)
      /\ late' = late \cup {d} /\ UNCHANGED <<now, keys, received>>
  BY DEF ForwardFails, TypeOK, Places, Answered, Forwards, InFlight, Forwarding
<1>2. \A g \in Handlers : handlers'[g] = IF g = h THEN [phase |-> "upstream_unavailable"] ELSE handlers[g]
  BY DEF ForwardFails, Answers, Goes, TypeOK
<1>3. TypeOK'
  <2>1. [phase |-> "upstream_unavailable"] \in Places  BY DEF Places, Answered
  <2> QED  BY <1>1, <2>1 DEF TypeOK, ForwardFails, Answers, Goes
<1>4. SingleUse'  BY <1>1 DEF SingleUse
<1>5. \A g \in Handlers, c \in Copies :
        /\ Forwards(g, c)' => g # h /\ Forwards(g, c)
        /\ InFlight(g, c)' => g # h /\ InFlight(g, c)
  BY <1>2 DEF Forwards, InFlight, Forwarding
<1>6. \A c \in Copies : Used(c)' => Used(c)  BY <1>1, <1>5 DEF Used
<1>7. OnePlace'
  <2> SUFFICES ASSUME NEW c \in Copies, Timestamped(c)
               PROVE  /\ \A g, i \in Handlers : InFlight(g, c)' /\ InFlight(i, c)' => g = i
                      /\ received'[c] > 0 \/ c \in late' => \A g \in Handlers : ~InFlight(g, c)'
                      /\ received'[c] > 0 => c \notin late'
    BY DEF OnePlace
  <2>1. CASE c = d  BY <2>1, <1>1, <1>5 DEF OnePlace
  <2>2. CASE c # d  BY <2>2, <1>1, <1>5 DEF OnePlace
  <2> QED  BY <2>1, <2>2
<1>8. Remembered'
  <2> SUFFICES ASSUME NEW c \in Copies, Timestamped(c), Used(c)', ~Over(c)
               PROVE  ReplayKey(c) \in DOMAIN keys /\ keys[ReplayKey(c)] >= c.stamp + Tolerance
    BY <1>1 DEF Remembered, Over
  <2> QED  BY <1>6 DEF Remembered
<1>9. \A g \in Handlers : handlers'[g].phase \in Forwarding => handlers'[g] = handlers[g]
  BY <1>2 DEF Forwarding
<1>10. ClaimHeld'  BY <1>1, <1>9 DEF ClaimHeld
<1>11. OneForwardPerKey'  BY <1>9 DEF OneForwardPerKey
<1>12. Superseded'
  <2> SUFFICES ASSUME NEW g \in Handlers, NEW c \in Copies, handlers'[g].phase \in Forwarding,
                      handlers'[g].copy # c, Timestamped(c),
                      ReplayKey(c) = ReplayKey(handlers'[g].copy), Used(c)'
               PROVE  Over(c)
    BY <1>1 DEF Superseded, Over
  <2> QED  BY <1>6, <1>9 DEF Superseded
<1>13. VerifiedNow'  BY <1>1, <1>2 DEF VerifiedNow, InWindow
<1> QED  BY <1>3, <1>4, <1>7, <1>8, <1>10, <1>11, <1>12, <1>13

(* A delivery the proxy still holds is acted on, or dropped.               *)
LEMMA Settled ==
  ASSUME ListenerInv, NEW d \in late, AgentActsLate(d) \/ ProxyGivesUp(d)
  PROVE  ListenerInv'
<1> USE DEF ListenerInv
<1>1. /\ d \in Copies /\ late' = late \ {d} /\ UNCHANGED <<now, keys, handlers>>
      /\ received' \in [Copies -> 0..2]
      /\ \A c \in Copies : c # d => received'[c] = received[c]
      /\ Timestamped(d) => received[d] = 0 /\ received'[d] <= 1
  BY DEF AgentActsLate, ProxyGivesUp, Receives, TypeOK, OnePlace
<1>2. \A g \in Handlers, c \in Copies : /\ Forwards(g, c)' <=> Forwards(g, c)
                                        /\ InFlight(g, c)' <=> InFlight(g, c)
  BY <1>1 DEF Forwards, InFlight
<1>3. \A c \in Copies : Used(c)' => Used(c)
  <2> SUFFICES ASSUME NEW c \in Copies, Used(c)' PROVE Used(c)  OBVIOUS
  <2>1. CASE c = d  BY <2>1 DEF Used
  <2>2. CASE c # d  BY <2>2, <1>1, <1>2 DEF Used
  <2> QED  BY <2>1, <2>2
<1>4. TypeOK'  BY <1>1 DEF TypeOK
<1>5. SingleUse'  BY <1>1 DEF SingleUse
<1>6. OnePlace'
  <2> SUFFICES ASSUME NEW c \in Copies, Timestamped(c)
               PROVE  /\ \A g, i \in Handlers : InFlight(g, c)' /\ InFlight(i, c)' => g = i
                      /\ received'[c] > 0 \/ c \in late' => \A g \in Handlers : ~InFlight(g, c)'
                      /\ received'[c] > 0 => c \notin late'
    BY DEF OnePlace
  <2>1. CASE c = d  BY <2>1, <1>1, <1>2 DEF OnePlace
  <2>2. CASE c # d  BY <2>2, <1>1, <1>2 DEF OnePlace
  <2> QED  BY <2>1, <2>2
<1>7. Remembered'
  <2> SUFFICES ASSUME NEW c \in Copies, Timestamped(c), Used(c)', ~Over(c)
               PROVE  ReplayKey(c) \in DOMAIN keys /\ keys[ReplayKey(c)] >= c.stamp + Tolerance
    BY <1>1 DEF Remembered, Over
  <2> QED  BY <1>3 DEF Remembered
<1>8. ClaimHeld' /\ OneForwardPerKey'  BY <1>1 DEF ClaimHeld, OneForwardPerKey
<1>9. Superseded'
  <2> SUFFICES ASSUME NEW g \in Handlers, NEW c \in Copies, handlers[g].phase \in Forwarding,
                      handlers[g].copy # c, Timestamped(c),
                      ReplayKey(c) = ReplayKey(handlers[g].copy), Used(c)'
               PROVE  Over(c)
    BY <1>1 DEF Superseded, Over
  <2> QED  BY <1>3 DEF Superseded
<1>10. VerifiedNow'  BY <1>1 DEF VerifiedNow, InWindow
<1> QED  BY <1>4, <1>5, <1>6, <1>7, <1>8, <1>9, <1>10

(* Time passes only over goroutines that may wait that long; a delivery    *)
(* that verifies later verified before.                                    *)
LEMMA TimePasses == ASSUME ListenerInv, Stall = 0, Tick PROVE ListenerInv'
<1> USE DEF ListenerInv
<1>1. /\ now \in Nat /\ now' = now + 1 /\ UNCHANGED <<keys, handlers, late, received>>
  BY DEF Tick, TypeOK
<1>2. \A g \in Handlers, c \in Copies : /\ Forwards(g, c)' <=> Forwards(g, c)
                                        /\ InFlight(g, c)' <=> InFlight(g, c)
  BY <1>1 DEF Forwards, InFlight
<1>3. \A c \in Copies : (Used(c)' <=> Used(c)) /\ (Over(c) => Over(c)')
  BY <1>1, <1>2, CopiesAssumption, ToleranceAssumption DEF Used, Over
<1>4. TypeOK'  BY <1>1 DEF TypeOK
<1>5. SingleUse' /\ OnePlace'  BY <1>1, <1>2 DEF SingleUse, OnePlace
<1>6. Remembered'  BY <1>1, <1>3 DEF Remembered
<1>7. ClaimHeld'
  <2> SUFFICES ASSUME NEW g \in Handlers, handlers[g].phase \in Forwarding,
                      Timestamped(handlers[g].copy)
               PROVE  /\ ReplayKey(handlers[g].copy) \in DOMAIN keys
                      /\ keys[ReplayKey(handlers[g].copy)] = handlers[g].since + 2 * Tolerance
                      /\ now' <= handlers[g].since + ForwardTimeout
    BY <1>1 DEF ClaimHeld
  <2>1. handlers[g].since \in Nat  BY DEF TypeOK, Places, Forwarding, Answered
  <2>2. now < handlers[g].since + ForwardTimeout  BY DEF Tick
  <2> QED  BY <1>1, <2>1, <2>2, TimeoutAssumption, ToleranceAssumption DEF ClaimHeld
<1>8. OneForwardPerKey'  BY <1>1 DEF OneForwardPerKey
<1>9. Superseded'  BY <1>1, <1>3 DEF Superseded
<1>10. VerifiedNow'
  <2> SUFFICES ASSUME NEW g \in Handlers, handlers[g].phase = "verified" PROVE FALSE
    BY <1>1 DEF VerifiedNow
  <2>1. now < handlers[g].since + Stall  BY DEF Tick
  <2> QED  BY <1>1, <2>1 DEF VerifiedNow
<1> QED  BY <1>4, <1>5, <1>6, <1>7, <1>8, <1>9, <1>10

(* Every claim that is still live survives a sweep of the cache.           *)
LEMMA SweptKeeps ==
  /\ \A k \in DOMAIN keys : Live(k) => k \in DOMAIN Swept /\ Swept[k] = keys[k]
  /\ \A k \in DOMAIN Swept : k \in DOMAIN keys /\ Swept[k] = keys[k]
BY DEF Swept, Restrict

(* An answer is a place where nothing is forwarded.                        *)
LEMMA AnswerSettles ==
  ASSUME ListenerInv, NEW h \in Handlers, NEW reason \in Answered, Answers(h, reason),
         \A k \in DOMAIN keys : Live(k) => k \in DOMAIN keys' /\ keys'[k] = keys[k],
         \A k \in DOMAIN keys' : keys'[k] \in Nat,
         UNCHANGED <<now, late, received>>
  PROVE  ListenerInv'
<1> DEFINE p == [phase |-> reason]
<1>1. p \in Places  BY DEF Places
<1>2. p.phase \notin Forwarding /\ p.phase # "verified"  BY DEF Answered, Forwarding
<1>3. Goes(h, p)  BY DEF Answers
<1> HIDE DEF p
<1> QED  BY <1>1, <1>2, <1>3, Settle

(* Each step of a goroutine, of the proxy or of the clock.                 *)
LEMMA ListenerStep == ASSUME Stall = 0, ListenerInv, [Next]_vars PROVE ListenerInv'
<1>1. \A k \in DOMAIN keys : keys[k] \in Nat  BY DEF ListenerInv, TypeOK
<1>2. now \in Nat  BY DEF ListenerInv, TypeOK
<1>3. ASSUME NEW h \in Handlers, NEW c \in Copies, Arrive(h, c) PROVE ListenerInv'
  <2> DEFINE p == At("arrived", c, now)
  <2>1. /\ p \in Places /\ p.phase \notin Forwarding /\ p.phase # "verified"
    BY <1>2 DEF At, Places, Forwarding
  <2>2. Goes(h, p) /\ UNCHANGED <<now, keys, late, received>>  BY <1>3 DEF Arrive
  <2> HIDE DEF p
  <2> QED  BY <1>1, <2>1, <2>2, Settle
<1>4. ASSUME NEW h \in Handlers, RejectEarly(h) PROVE ListenerInv'
  BY <1>1, <1>4, AnswerSettles DEF RejectEarly, Answered
<1>5. ASSUME NEW h \in Handlers, Verify(h) PROVE ListenerInv'
  <2> DEFINE c == handlers[h].copy
             p == At(IF ReplayKey(c) = NoKey THEN "dialing" ELSE "verified", c, now)
  <2>1. c \in Copies /\ UNCHANGED <<now, keys, late, received>>
    BY <1>5 DEF Verify, ListenerInv, TypeOK, Places, Answered
  <2>2. CASE ~Verifies(c)
    BY <1>1, <1>5, <2>1, <2>2, AnswerSettles DEF Verify, Answered
  <2>3. CASE Verifies(c)
    <3>1. Goes(h, p)  BY <1>5, <2>3 DEF Verify
    <3>2. /\ p \in Places
          /\ p.phase \in Forwarding => ~Timestamped(p.copy)
          /\ p.phase = "verified" => p.since = now /\ Timestamped(p.copy) /\ InWindow(p.copy)
      BY <1>2, <2>1, <2>3
      DEF At, Places, Forwarding, Verifies, Timestamped, ReplayKey, NoKey
    <3> HIDE DEF p
    <3> QED  BY <1>1, <2>1, <3>1, <3>2, Settle
  <2> QED  BY <2>2, <2>3
<1>6. ASSUME NEW h \in Handlers, Record(h) PROVE ListenerInv'
  <2>1. PICK d : d = handlers[h].copy  OBVIOUS
  <2>2. handlers[h].phase = "verified" /\ UNCHANGED <<now, late, received>>
    BY <1>6 DEF Record
  <2>3. CASE Answers(h, "replay_detected") /\ UNCHANGED keys
    BY <1>1, <2>2, <2>3, AnswerSettles DEF Answered
  <2>4. CASE Answers(h, "replay_cache_full") /\ keys' = Swept
    BY <1>1, <2>2, <2>4, SweptKeeps, AnswerSettles DEF Answered
  <2>5. CASE /\ ~Live(ReplayKey(d)) /\ Goes(h, At("dialing", d, now))
             /\ keys' = [j \in DOMAIN Swept \cup {ReplayKey(d)} |->
                           IF j = ReplayKey(d) THEN now + 2 * Tolerance ELSE Swept[j]]
    <3>1. \A k \in DOMAIN keys : Live(k) => k \in DOMAIN keys' /\ keys'[k] = keys[k]
      BY <2>5, SweptKeeps
    <3>2. \A k \in DOMAIN keys' : keys'[k] \in Nat
      BY <1>1, <1>2, <2>5, SweptKeeps, ToleranceAssumption
    <3>3. ReplayKey(d) \in DOMAIN keys' /\ keys'[ReplayKey(d)] = now + 2 * Tolerance
      BY <2>5
    <3> QED  BY <2>1, <2>2, <2>5, <3>1, <3>2, <3>3, Claim
  <2> QED  BY <1>6, <2>1, <2>3, <2>4, <2>5 DEF Record
<1>7. ASSUME NEW h \in Handlers, Unreachable(h) PROVE ListenerInv'
  BY <1>7, Release
<1>8. ASSUME NEW h \in Handlers, Send(h) \/ AgentActs(h) PROVE ListenerInv'
  BY <1>8, Proceed
<1>9. ASSUME NEW h \in Handlers, Relay(h) \/ BadGateway(h) PROVE ListenerInv'
  BY <1>1, <1>9, AnswerSettles DEF Relay, BadGateway, Answered
<1>10. ASSUME NEW h \in Handlers, ForwardFails(h) PROVE ListenerInv'
  <2>1. CASE handlers[h].phase = "sent"  BY <1>10, <2>1, GiveUp
  <2>2. CASE handlers[h].phase # "sent"
    BY <1>1, <1>10, <2>2, AnswerSettles DEF ForwardFails, Answered
  <2> QED  BY <2>1, <2>2
<1>11. ASSUME NEW h \in Handlers, Leave(h) PROVE ListenerInv'
  <2>1. Idle \in Places /\ Idle.phase \notin Forwarding /\ Idle.phase # "verified"
    BY DEF Idle, Places, Forwarding
  <2>2. Goes(h, Idle) /\ UNCHANGED <<now, keys, late, received>>  BY <1>11 DEF Leave
  <2> QED  BY <1>1, <2>1, <2>2, Settle
<1>12. ASSUME NEW c \in late, AgentActsLate(c) \/ ProxyGivesUp(c) PROVE ListenerInv'
  BY <1>12, Settled
<1>13. CASE Tick  BY <1>13, TimePasses
<1>14. CASE UNCHANGED vars
  BY <1>14
  DEF vars, ListenerInv, TypeOK, SingleUse, OnePlace, InFlight, Remembered, Used, Forwards,
      Over, ClaimHeld, OneForwardPerKey, Superseded, VerifiedNow, InWindow
<1> QED
  BY <1>3, <1>4, <1>5, <1>6, <1>7, <1>8, <1>9, <1>10, <1>11, <1>12, <1>13, <1>14
  DEF Next, Handles

(* The invariant of the listener.                                          *)
THEOREM ListenerInvariant == ASSUME Stall = 0 PROVE Spec => []ListenerInv
<1> QED  BY ListenerInit, ListenerStep, PTL DEF Spec

(* Whatever copies arrive when, and whatever the proxy loses or delays,    *)
(* the agent never gets one timestamped signature twice, and no two        *)
(* goroutines of ServeHTTP forward under one replay key at once.           *)
THEOREM ListenerSingleUse ==
  ASSUME Stall = 0 PROVE Spec => []SingleUse /\ []OneForwardPerKey
<1>1. ListenerInv => SingleUse /\ OneForwardPerKey  BY DEF ListenerInv
<1> QED  BY <1>1, ListenerInvariant, PTL

-------------------------------------------------------------------------------
(* A cache that only lost keys is as bounded and as genuine as it was.     *)
LEMMA FewerKeys ==
  ASSUME GenuineInv, DOMAIN keys' \subseteq DOMAIN keys
  PROVE  IsFiniteSet(DOMAIN keys') /\ ClaimsAreGenuine'
<1>1. IsFiniteSet(DOMAIN keys) /\ ClaimsAreGenuine  BY DEF GenuineInv
<1>2. /\ IsFiniteSet(DOMAIN keys') /\ Cardinality(DOMAIN keys') \in Nat
      /\ Cardinality(DOMAIN keys) \in Nat /\ Cardinality(DOMAIN keys') <= Cardinality(DOMAIN keys)
  BY <1>1, FS_Subset, FS_CardinalityType
<1> QED  BY <1>1, <1>2, CapacityAssumption DEF ClaimsAreGenuine

(* A claim is made with room left after the sweep, by a genuine copy.      *)
LEMMA OneMoreKey ==
  ASSUME GenuineInv, NEW c \in Copies, c.genuine, NEW S \in SUBSET DOMAIN keys,
         Cardinality(S) < MaxKeys, DOMAIN keys' = S \cup {ReplayKey(c)}
  PROVE  IsFiniteSet(DOMAIN keys') /\ ClaimsAreGenuine'
<1>1. IsFiniteSet(DOMAIN keys) /\ ClaimsAreGenuine  BY DEF GenuineInv
<1>2. IsFiniteSet(S)  BY <1>1, FS_Subset
<1>3. /\ IsFiniteSet(S \cup {ReplayKey(c)}) /\ Cardinality(S) \in Nat
      /\ Cardinality(S \cup {ReplayKey(c)}) \in {Cardinality(S), Cardinality(S) + 1}
  <2>1. IsFiniteSet(S \cup {ReplayKey(c)})  BY <1>2, FS_AddElement
  <2>2. Cardinality(S \cup {ReplayKey(c)}) =
          IF ReplayKey(c) \in S THEN Cardinality(S) ELSE Cardinality(S) + 1
    BY <1>2, FS_AddElement
  <2> QED  BY <1>2, <2>1, <2>2, FS_CardinalityType
<1>4. Cardinality(DOMAIN keys') <= MaxKeys  BY <1>3, CapacityAssumption
<1>5. \A k \in DOMAIN keys' : \E d \in Copies : d.genuine /\ ReplayKey(d) = k
  BY <1>1 DEF ClaimsAreGenuine
<1> QED  BY <1>3, <1>4, <1>5 DEF ClaimsAreGenuine

LEMMA GenuineInit == Init => GenuineInv
<1> SUFFICES ASSUME Init PROVE GenuineInv OBVIOUS
<1>1. DOMAIN keys = {} /\ \A h \in Handlers : handlers[h].phase = "idle"  BY DEF Init, Idle
<1>2. IsFiniteSet(DOMAIN keys) /\ Cardinality(DOMAIN keys) = 0  BY <1>1, FS_EmptySet
<1>3. ClaimsAreGenuine  BY <1>1, <1>2, CapacityAssumption DEF ClaimsAreGenuine
<1>4. now \in Nat /\ handlers \in [Handlers -> Places]  BY DEF Init, Places, Idle
<1> QED  BY <1>1, <1>2, <1>3, <1>4 DEF GenuineInv

(* A goroutine goes on.                                                    *)
LEMMA GenuineGoes ==
  ASSUME GenuineInv, NEW h \in Handlers, NEW p \in Places, Goes(h, p), now' = now,
         p.phase = "verified" => p.copy.genuine,
         IsFiniteSet(DOMAIN keys') /\ ClaimsAreGenuine'
  PROVE  GenuineInv'
<1>1. \A g \in Handlers : handlers'[g] = IF g = h THEN p ELSE handlers[g]
  BY DEF Goes, GenuineInv
<1>2. handlers' \in [Handlers -> Places] /\ now' \in Nat  BY DEF Goes, GenuineInv
<1>3. \A g \in Handlers : handlers'[g].phase = "verified" => handlers'[g].copy.genuine
  BY <1>1 DEF GenuineInv
<1> QED  BY <1>2, <1>3 DEF GenuineInv

LEMMA GenuineStep == GenuineInv /\ [Next]_vars => GenuineInv'
<1> SUFFICES ASSUME GenuineInv, [Next]_vars PROVE GenuineInv' OBVIOUS
<1>1. now \in Nat /\ handlers \in [Handlers -> Places]  BY DEF GenuineInv
<1>2. ASSUME NEW r \in Answered PROVE [phase |-> r] \in Places /\ r # "verified"
  BY <1>2 DEF Places, Answered
<1>3. ASSUME UNCHANGED keys PROVE IsFiniteSet(DOMAIN keys') /\ ClaimsAreGenuine'
  BY <1>3, FewerKeys
<1>4. ASSUME NEW h \in Handlers, NEW r \in Answered, Answers(h, r), now' = now,
             DOMAIN keys' \subseteq DOMAIN keys
      PROVE  GenuineInv'
  <2>1. [phase |-> r] \in Places /\ [phase |-> r].phase # "verified"  BY <1>2
  <2>2. Goes(h, [phase |-> r])  BY <1>4 DEF Answers
  <2> DEFINE p == [phase |-> r]
  <2> HIDE DEF p
  <2>3. p \in Places /\ p.phase # "verified" /\ Goes(h, p)  BY <2>1, <2>2 DEF p
  <2> QED  BY <1>4, <2>3, FewerKeys, GenuineGoes
<1>5. ASSUME NEW h \in Handlers, handlers[h].phase \in {"arrived", "verified"} \cup Forwarding
      PROVE  handlers[h].copy \in Copies /\ handlers[h].since \in Nat
  BY <1>1, <1>5 DEF Places, Answered, Forwarding
<1>6. ASSUME NEW h \in Handlers, NEW c \in Copies, NEW t \in Nat,
             NEW f \in {"arrived", "verified"} \cup Forwarding, Goes(h, At(f, c, t)), now' = now,
             f = "verified" => c.genuine, IsFiniteSet(DOMAIN keys') /\ ClaimsAreGenuine'
      PROVE  GenuineInv'
  <2> DEFINE p == At(f, c, t)
  <2>1. p \in Places /\ p.phase = f /\ p.copy = c  BY <1>6 DEF At, Places
  <2> HIDE DEF p
  <2> QED  BY <1>6, <2>1, GenuineGoes DEF p
<1>7. ASSUME NEW h \in Handlers, NEW c \in Copies, Arrive(h, c) PROVE GenuineInv'
  BY <1>1, <1>3, <1>6, <1>7 DEF Arrive
<1>8. ASSUME NEW h \in Handlers, Verify(h) PROVE GenuineInv'
  <2> DEFINE c == handlers[h].copy
  <2>1. c \in Copies /\ now' = now /\ UNCHANGED keys  BY <1>5, <1>8 DEF Verify
  <2>2. CASE ~Verifies(c)
    <3>1. Answers(h, "rejected")  BY <1>8, <2>2 DEF Verify
    <3> QED  BY <1>4, <2>1, <3>1 DEF Answered
  <2>3. CASE Verifies(c)
    <3>1. \E f \in {"dialing", "verified"} : Goes(h, At(f, c, now))  BY <1>8, <2>3 DEF Verify
    <3>2. c.genuine  BY <2>3 DEF Verifies
    <3> QED  BY <1>1, <1>3, <1>6, <2>1, <3>1, <3>2 DEF Forwarding
  <2> QED  BY <2>2, <2>3
<1>9. ASSUME NEW h \in Handlers, Record(h) PROVE GenuineInv'
  <2> DEFINE c == handlers[h].copy
  <2>1. c \in Copies /\ c.genuine /\ now' = now  BY <1>5, <1>9 DEF Record, GenuineInv
  <2>2. DOMAIN Swept \subseteq DOMAIN keys  BY DEF Swept, Restrict
  <2>3. CASE Answers(h, "replay_detected") /\ UNCHANGED keys  BY <1>4, <2>1, <2>3 DEF Answered
  <2>4. CASE keys' = Swept /\ Answers(h, "replay_cache_full")
    BY <1>4, <2>1, <2>2, <2>4 DEF Answered
  <2>5. CASE /\ Cardinality(DOMAIN Swept) < MaxKeys
             /\ keys' = [j \in DOMAIN Swept \cup {ReplayKey(c)} |->
                           IF j = ReplayKey(c) THEN now + 2 * Tolerance ELSE Swept[j]]
             /\ Goes(h, At("dialing", c, now))
    <3>1. DOMAIN keys' = DOMAIN Swept \cup {ReplayKey(c)}  BY <2>5
    <3>2. IsFiniteSet(DOMAIN keys') /\ ClaimsAreGenuine'  BY <2>1, <2>2, <2>5, <3>1, OneMoreKey
    <3> QED  BY <1>1, <1>6, <2>1, <2>5, <3>2 DEF Forwarding
  <2> QED  BY <1>9, <2>3, <2>4, <2>5 DEF Record
<1>10. ASSUME NEW h \in Handlers, Send(h) \/ AgentActs(h) PROVE GenuineInv'
  <2> DEFINE c == handlers[h].copy
             t == handlers[h].since
  <2>1. handlers[h] \in Places /\ handlers[h].phase \in Forwarding
    BY <1>1, <1>10 DEF Send, AgentActs, Forwarding
  <2>2. c \in Copies /\ t \in Nat  BY <1>5, <2>1
  <2>3. ASSUME NEW f PROVE [handlers[h] EXCEPT !.phase = f] = At(f, c, t)
    <3>1. handlers[h] \in [phase : {"arrived", "verified"} \cup Forwarding, copy : Copies, since : Nat]
      BY <2>1 DEF Places, Forwarding, Answered
    <3> QED  BY <3>1 DEF At
  <2>4. \E f \in Forwarding : Goes(h, At(f, c, t))  BY <1>10, <2>3 DEF Send, AgentActs, Forwarding
  <2>5. now' = now /\ UNCHANGED keys  BY <1>10 DEF Send, AgentActs
  <2> QED  BY <1>3, <1>6, <2>2, <2>4, <2>5 DEF Forwarding
<1>11. ASSUME NEW h \in Handlers,
              \/ RejectEarly(h) \/ Unreachable(h) \/ Relay(h) \/ BadGateway(h) \/ ForwardFails(h)
       PROVE  GenuineInv'
  <2>1. now' = now /\ \E r \in Answered : Answers(h, r)
    BY <1>11 DEF RejectEarly, Unreachable, Relay, BadGateway, ForwardFails, Answered
  <2>2. DOMAIN keys' \subseteq DOMAIN keys
    BY <1>11 DEF RejectEarly, Unreachable, Relay, BadGateway, ForwardFails, Restrict
  <2> QED  BY <1>4, <2>1, <2>2
<1>12. ASSUME NEW h \in Handlers, Leave(h) PROVE GenuineInv'
  <2>1. Idle \in Places /\ Idle.phase # "verified"  BY DEF Idle, Places
  <2>2. Goes(h, Idle) /\ now' = now /\ UNCHANGED keys  BY <1>12 DEF Leave
  <2> QED  BY <1>3, <2>1, <2>2, GenuineGoes
<1>13. ASSUME UNCHANGED <<keys, handlers>>, now' \in Nat PROVE GenuineInv'
  BY <1>3, <1>13 DEF GenuineInv
<1>14. ASSUME NEW c \in late, AgentActsLate(c) \/ ProxyGivesUp(c) PROVE GenuineInv'
  BY <1>1, <1>13, <1>14 DEF AgentActsLate, ProxyGivesUp
<1>15. CASE Tick  BY <1>1, <1>13, <1>15 DEF Tick
<1>16. CASE UNCHANGED vars  BY <1>1, <1>13, <1>16 DEF vars
<1> QED  BY <1>7, <1>8, <1>9, <1>10, <1>11, <1>12, <1>14, <1>15, <1>16 DEF Next, Handles

(* The cache never holds more than its capacity, and nothing but claims of *)
(* genuine deliveries, however goroutines stall (ServeHTTP verifies before *)
(* it records).                                                            *)
THEOREM OnlyGenuineClaims == Spec => []ClaimsAreGenuine
<1>1. Init => GenuineInv  BY GenuineInit
<1>2. GenuineInv /\ [Next]_vars => GenuineInv'  BY GenuineStep
<1>3. GenuineInv => ClaimsAreGenuine  BY DEF GenuineInv
<1> QED  BY <1>1, <1>2, <1>3, PTL DEF Spec

-------------------------------------------------------------------------------
(* replayKey is empty just for the providers that sign no timestamp.       *)
LEMMA OnlyTimestampedHaveKeys == ASSUME NEW c PROVE Timestamped(c) <=> ReplayKey(c) # NoKey
BY DEF Timestamped, ReplayKey, NoKey

(* A forward is over before its own claim expires (forward's client times  *)
(* out within twice the tolerance).                                        *)
LEMMA ForwardsAreLive ==
  ASSUME ClaimInv, NEW h \in Handlers, handlers[h].phase \in Forwarding,
         Timestamped(handlers[h].copy)
  PROVE  Live(ReplayKey(handlers[h].copy))
<1>1. handlers[h].since \in Nat /\ now \in Nat
  BY DEF ClaimInv, Places, Forwarding, Answered
<1>2. /\ ReplayKey(handlers[h].copy) \in DOMAIN keys
      /\ keys[ReplayKey(handlers[h].copy)] = handlers[h].since + 2 * Tolerance
      /\ now <= handlers[h].since + ForwardTimeout
  BY DEF ClaimInv, ClaimHeld
<1> QED  BY <1>1, <1>2, ToleranceAssumption, TimeoutAssumption DEF Live

LEMMA ClaimInit == Init => ClaimInv
<1> SUFFICES ASSUME Init PROVE ClaimInv OBVIOUS
<1>1. \A h \in Handlers : handlers[h].phase = "idle"  BY DEF Init, Idle
<1>2. now \in Nat /\ handlers \in [Handlers -> Places] /\ DOMAIN keys = {}
  BY DEF Init, Places, Idle
<1>3. ClaimHeld /\ OneForwardPerKey  BY <1>1 DEF ClaimHeld, OneForwardPerKey, Forwarding
<1> QED  BY <1>1, <1>2, <1>3 DEF ClaimInv

(* A goroutine goes to a place whose claim, if it has one, is its own,     *)
(* and the other forwards keep theirs.                                     *)
LEMMA ClaimGoes ==
  ASSUME ClaimInv, NEW h \in Handlers, NEW p \in Places, Goes(h, p), now' = now,
         NoKey \notin DOMAIN keys',
         p.phase = "verified" => Timestamped(p.copy),
         p.phase \in Forwarding /\ Timestamped(p.copy) =>
           /\ ReplayKey(p.copy) \in DOMAIN keys'
           /\ keys'[ReplayKey(p.copy)] = p.since + 2 * Tolerance
           /\ now <= p.since + ForwardTimeout
           /\ \A g \in Handlers \ {h} : handlers[g].phase \in Forwarding =>
                ReplayKey(handlers[g].copy) # ReplayKey(p.copy),
         \A g \in Handlers \ {h} :
           handlers[g].phase \in Forwarding /\ Timestamped(handlers[g].copy) =>
             /\ ReplayKey(handlers[g].copy) \in DOMAIN keys'
             /\ keys'[ReplayKey(handlers[g].copy)] = keys[ReplayKey(handlers[g].copy)]
  PROVE  ClaimInv'
<1>1. \A g \in Handlers : handlers'[g] = IF g = h THEN p ELSE handlers[g]
  BY DEF Goes, ClaimInv
<1>2. handlers' \in [Handlers -> Places] /\ now' \in Nat  BY DEF Goes, ClaimInv
<1>3. \A g \in Handlers : handlers'[g].phase = "verified" => Timestamped(handlers'[g].copy)
  BY <1>1 DEF ClaimInv
<1>4. ClaimHeld'
  <2> SUFFICES ASSUME NEW g \in Handlers, handlers'[g].phase \in Forwarding,
                      Timestamped(handlers'[g].copy)
               PROVE  /\ ReplayKey(handlers'[g].copy) \in DOMAIN keys'
                      /\ keys'[ReplayKey(handlers'[g].copy)] = handlers'[g].since + 2 * Tolerance
                      /\ now' <= handlers'[g].since + ForwardTimeout
    BY DEF ClaimHeld
  <2>1. CASE g = h  BY <2>1, <1>1
  <2>2. CASE g # h  BY <2>2, <1>1 DEF ClaimInv, ClaimHeld
  <2> QED  BY <2>1, <2>2
<1>5. OneForwardPerKey'
  <2> SUFFICES ASSUME NEW g \in Handlers, NEW i \in Handlers, g # i,
                      handlers'[g].phase \in Forwarding, handlers'[i].phase \in Forwarding,
                      Timestamped(handlers'[g].copy),
                      ReplayKey(handlers'[g].copy) = ReplayKey(handlers'[i].copy)
               PROVE  FALSE
    BY DEF OneForwardPerKey
  <2>1. Timestamped(handlers'[i].copy)  BY OnlyTimestampedHaveKeys
  <2>2. CASE g = h  BY <2>2, <1>1
  <2>3. CASE i = h  BY <2>1, <2>3, <1>1
  <2>4. CASE g # h /\ i # h  BY <2>4, <1>1 DEF ClaimInv, OneForwardPerKey
  <2> QED  BY <2>2, <2>3, <2>4
<1> QED  BY <1>2, <1>3, <1>4, <1>5 DEF ClaimInv

(* Each step of a goroutine, of the proxy or of the clock.                 *)
LEMMA ClaimStep == ClaimInv /\ [Next]_vars => ClaimInv'
<1> SUFFICES ASSUME ClaimInv, [Next]_vars PROVE ClaimInv' OBVIOUS
<1>1. now \in Nat /\ handlers \in [Handlers -> Places] /\ NoKey \notin DOMAIN keys
  BY DEF ClaimInv
<1>2. ASSUME NEW h \in Handlers, NEW p \in Places, Goes(h, p), now' = now,
             NoKey \notin DOMAIN keys', p.phase = "verified" => Timestamped(p.copy),
             p.phase \in Forwarding => ~Timestamped(p.copy),
             \A k \in DOMAIN keys : Live(k) => k \in DOMAIN keys' /\ keys'[k] = keys[k]
      PROVE  ClaimInv'
  BY <1>2, ForwardsAreLive, ClaimGoes DEF Live
<1>3. ASSUME NEW h \in Handlers, NEW r \in Answered, Answers(h, r), now' = now,
             NoKey \notin DOMAIN keys',
             \A k \in DOMAIN keys : Live(k) => k \in DOMAIN keys' /\ keys'[k] = keys[k]
      PROVE  ClaimInv'
  <2> DEFINE p == [phase |-> r]
  <2>1. p \in Places /\ p.phase # "verified" /\ p.phase \notin Forwarding /\ Goes(h, p)
    BY <1>3 DEF Places, Answered, Forwarding, Answers
  <2> HIDE DEF p
  <2> QED  BY <1>2, <1>3, <2>1
<1>4. ASSUME NEW h \in Handlers, handlers[h].phase \in {"arrived", "verified"} \cup Forwarding
      PROVE  handlers[h].copy \in Copies /\ handlers[h].since \in Nat
  BY <1>1, <1>4 DEF Places, Answered, Forwarding
<1>5. ASSUME NEW h \in Handlers, NEW c \in Copies, Arrive(h, c) PROVE ClaimInv'
  <2> DEFINE p == At("arrived", c, now)
  <2>1. p \in Places /\ p.phase # "verified" /\ p.phase \notin Forwarding
    BY <1>1 DEF At, Places, Forwarding
  <2>2. Goes(h, p) /\ UNCHANGED <<now, keys>>  BY <1>5 DEF Arrive
  <2> HIDE DEF p
  <2> QED  BY <1>1, <1>2, <2>1, <2>2
<1>6. ASSUME NEW h \in Handlers, Verify(h) PROVE ClaimInv'
  <2> DEFINE c == handlers[h].copy
             p == At(IF ReplayKey(c) = NoKey THEN "dialing" ELSE "verified", c, now)
  <2>1. c \in Copies /\ UNCHANGED <<now, keys>>  BY <1>4, <1>6 DEF Verify
  <2>2. CASE ~Verifies(c)
    <3>1. Answers(h, "rejected")  BY <1>6, <2>2 DEF Verify
    <3> QED  BY <1>1, <1>3, <2>1, <3>1 DEF Answered
  <2>3. CASE Verifies(c)
    <3>1. Goes(h, p)  BY <1>6, <2>3 DEF Verify
    <3>2. /\ p \in Places
          /\ p.phase = "verified" => Timestamped(p.copy)
          /\ p.phase \in Forwarding => ~Timestamped(p.copy)
      BY <1>1, <2>1, OnlyTimestampedHaveKeys DEF At, Places, Forwarding
    <3> HIDE DEF p
    <3> QED  BY <1>1, <1>2, <2>1, <3>1, <3>2
  <2> QED  BY <2>2, <2>3
<1>7. ASSUME NEW h \in Handlers, Record(h) PROVE ClaimInv'
  <2> DEFINE c == handlers[h].copy
             k == ReplayKey(c)
             p == At("dialing", c, now)
  <2>1. /\ c \in Copies /\ now' = now /\ Timestamped(c) /\ k # NoKey
    BY <1>4, <1>7, OnlyTimestampedHaveKeys DEF Record, ClaimInv
  <2>2. CASE Answers(h, "replay_detected") /\ UNCHANGED keys
    BY <1>1, <1>3, <2>1, <2>2 DEF Answered
  <2>3. CASE keys' = Swept /\ Answers(h, "replay_cache_full")
    BY <1>1, <1>3, <2>1, <2>3, SweptKeeps DEF Answered
  <2>4. CASE /\ ~Live(k) /\ Goes(h, p)
             /\ keys' = [j \in DOMAIN Swept \cup {k} |->
                           IF j = k THEN now + 2 * Tolerance ELSE Swept[j]]
    <3>1. p \in Places /\ p.phase = "dialing" /\ p.copy = c /\ p.since = now
      BY <1>1, <2>1 DEF At, Places, Forwarding
    <3>2. k \in DOMAIN keys' /\ keys'[k] = now + 2 * Tolerance /\ NoKey \notin DOMAIN keys'
      BY <1>1, <2>1, <2>4, SweptKeeps
    <3>3. \A j \in DOMAIN keys : Live(j) => j \in DOMAIN keys' /\ keys'[j] = keys[j]
      BY <2>4, SweptKeeps
    <3>4. \A g \in Handlers : handlers[g].phase \in Forwarding /\ Timestamped(handlers[g].copy)
                              => Live(ReplayKey(handlers[g].copy))
      BY ForwardsAreLive
    <3>5. \A g \in Handlers : handlers[g].phase \in Forwarding => ReplayKey(handlers[g].copy) # k
      BY <2>1, <2>4, <3>4, OnlyTimestampedHaveKeys
    <3>6. now <= now + ForwardTimeout  BY <1>1, TimeoutAssumption, ToleranceAssumption
    <3>7. Goes(h, p)  BY <2>4
    <3> HIDE DEF p, k, c
    <3>8. \A g \in Handlers \ {h} :
            handlers[g].phase \in Forwarding /\ Timestamped(handlers[g].copy) =>
              /\ ReplayKey(handlers[g].copy) \in DOMAIN keys'
              /\ keys'[ReplayKey(handlers[g].copy)] = keys[ReplayKey(handlers[g].copy)]
      BY <3>3, <3>4 DEF Live
    <3>9. k = ReplayKey(c)  BY DEF k, c
    <3> QED  BY <2>1, <3>1, <3>2, <3>5, <3>6, <3>7, <3>8, <3>9, ClaimGoes
  <2> QED  BY <1>7, <2>2, <2>3, <2>4 DEF Record
<1>8. ASSUME NEW h \in Handlers, Unreachable(h) PROVE ClaimInv'
  <2> DEFINE p == [phase |-> "upstream_unreachable"]
             k == ReplayKey(handlers[h].copy)
  <2>1. p \in Places /\ p.phase # "verified" /\ p.phase \notin Forwarding
    BY DEF Places, Answered, Forwarding
  <2>2. Goes(h, p) /\ now' = now  BY <1>8 DEF Unreachable, Answers
  <2>3. \A j : /\ j \in DOMAIN keys' <=> j \in DOMAIN keys /\ j # k
               /\ j \in DOMAIN keys' => keys'[j] = keys[j]
    BY <1>8 DEF Unreachable, Restrict
  <2>4. ASSUME NEW g \in Handlers \ {h}, handlers[g].phase \in Forwarding,
               Timestamped(handlers[g].copy)
        PROVE  ReplayKey(handlers[g].copy) # k /\ ReplayKey(handlers[g].copy) \in DOMAIN keys
    BY <1>8, <2>4 DEF Unreachable, ClaimInv, ClaimHeld, OneForwardPerKey, Forwarding
  <2> HIDE DEF p, k
  <2> QED  BY <1>1, <2>1, <2>2, <2>3, <2>4, ClaimGoes
<1>9. ASSUME NEW h \in Handlers, Send(h) \/ AgentActs(h) PROVE ClaimInv'
  <2>1. /\ handlers[h].phase \in Forwarding /\ UNCHANGED <<now, keys>>
        /\ handlers[h] \in [phase : {"arrived", "verified"} \cup Forwarding, copy : Copies, since : Nat]
    BY <1>1, <1>9 DEF Send, AgentActs, Forwarding, Places, Answered
  <2>2. PICK p \in Places : /\ Goes(h, p) /\ p.phase \in Forwarding
                            /\ p.copy = handlers[h].copy /\ p.since = handlers[h].since
    <3>1. PICK f \in Forwarding : Goes(h, [handlers[h] EXCEPT !.phase = f])
      BY <1>9 DEF Send, AgentActs, Forwarding
    <3>2. [handlers[h] EXCEPT !.phase = f] \in Places  BY <2>1 DEF Places
    <3> QED  BY <2>1, <3>1, <3>2
  <2>3. p.phase # "verified"  BY <2>2 DEF Forwarding
  <2>4. Timestamped(p.copy) =>
          /\ ReplayKey(p.copy) \in DOMAIN keys
          /\ keys[ReplayKey(p.copy)] = p.since + 2 * Tolerance
          /\ now <= p.since + ForwardTimeout
    BY <2>1, <2>2 DEF ClaimInv, ClaimHeld
  <2>5. Timestamped(p.copy) =>
          \A g \in Handlers \ {h} : handlers[g].phase \in Forwarding =>
            ReplayKey(handlers[g].copy) # ReplayKey(p.copy)
    BY <2>1, <2>2 DEF ClaimInv, OneForwardPerKey
  <2>6. \A g \in Handlers \ {h} :
          handlers[g].phase \in Forwarding /\ Timestamped(handlers[g].copy) =>
            ReplayKey(handlers[g].copy) \in DOMAIN keys
    BY DEF ClaimInv, ClaimHeld
  <2> QED  BY <1>1, <2>1, <2>2, <2>3, <2>4, <2>5, <2>6, ClaimGoes
<1>10. ASSUME NEW h \in Handlers, RejectEarly(h) \/ Relay(h) \/ BadGateway(h) \/ ForwardFails(h)
       PROVE  ClaimInv'
  <2>1. UNCHANGED <<now, keys>> /\ \E r \in Answered : Answers(h, r)
    BY <1>10 DEF RejectEarly, Relay, BadGateway, ForwardFails, Answered
  <2> QED  BY <1>1, <1>3, <2>1
<1>11. ASSUME NEW h \in Handlers, Leave(h) PROVE ClaimInv'
  <2>1. Idle \in Places /\ Idle.phase # "verified" /\ Idle.phase \notin Forwarding
    BY DEF Idle, Places, Forwarding
  <2>2. Goes(h, Idle) /\ UNCHANGED <<now, keys>>  BY <1>11 DEF Leave
  <2> QED  BY <1>1, <1>2, <2>1, <2>2
<1>12. ASSUME UNCHANGED <<now, keys, handlers>> PROVE ClaimInv'
  BY <1>12 DEF ClaimInv, ClaimHeld, OneForwardPerKey
<1>13. CASE Tick
  <2>1. now' = now + 1 /\ UNCHANGED <<keys, handlers>>  BY <1>13 DEF Tick
  <2>2. \A h \in Handlers : handlers[h].phase \in Forwarding =>
          now + 1 <= handlers[h].since + ForwardTimeout
    BY <1>1, <1>4, <1>13, TimeoutAssumption, ToleranceAssumption DEF Tick
  <2>3. ClaimHeld'  BY <2>1, <2>2 DEF ClaimInv, ClaimHeld
  <2> QED  BY <1>1, <2>1, <2>3 DEF ClaimInv, OneForwardPerKey
<1> QED
  BY <1>5, <1>6, <1>7, <1>8, <1>9, <1>10, <1>11, <1>12, <1>13
  DEF Next, Handles, vars, AgentActsLate, ProxyGivesUp

LEMMA ClaimInvariant == Spec => []ClaimInv
BY ClaimInit, ClaimStep, PTL DEF Spec

(* No two goroutines of ServeHTTP forward under one replay key at once,    *)
(* however long one stalls between verifying and recording.                *)
THEOREM ForwardsApart == Spec => []OneForwardPerKey
<1>1. ClaimInv => OneForwardPerKey  BY DEF ClaimInv
<1> QED  BY <1>1, ClaimInvariant, PTL

(* A live claim goes away only with the forward that made it, and only     *)
(* while that is still dialing (neverSent): record's sweep takes expired   *)
(* claims alone, and a release never hits another delivery's claim.        *)
THEOREM ReleasedOnlyUnsent == Spec => ReleasedUnsent
<1> DEFINE Act == \A k \in DOMAIN keys \ DOMAIN keys' : Live(k) =>
                    \E h \in Handlers : /\ handlers[h].phase = "dialing"
                                        /\ ReplayKey(handlers[h].copy) = k
                                        /\ keys[k] = handlers[h].since + 2 * Tolerance
<1>1. ASSUME ClaimInv, [Next]_vars PROVE Act
  <2> SUFFICES ASSUME NEW k \in DOMAIN keys, k \notin DOMAIN keys', Live(k)
               PROVE  \E h \in Handlers : /\ handlers[h].phase = "dialing"
                                          /\ ReplayKey(handlers[h].copy) = k
                                          /\ keys[k] = handlers[h].since + 2 * Tolerance
    OBVIOUS
  <2>1. \E h \in Handlers : Record(h) \/ Unreachable(h)
    BY <1>1 DEF Next, Handles, vars, Arrive, RejectEarly, Verify, Send, AgentActs, Relay,
                BadGateway, ForwardFails, Leave, AgentActsLate, ProxyGivesUp, Tick
  <2>2. PICK h \in Handlers : Record(h) \/ Unreachable(h)  BY <2>1
  <2>3. ~Record(h)
    <3> SUFFICES ASSUME Record(h) PROVE FALSE  OBVIOUS
    <3>1. k \in DOMAIN Swept  BY SweptKeeps
    <3> QED  BY <3>1 DEF Record
  <2>4. handlers[h].phase = "dialing" /\ ReplayKey(handlers[h].copy) = k
    BY <2>2, <2>3 DEF Unreachable, Restrict
  <2>5. Timestamped(handlers[h].copy)  BY <1>1, <2>4, OnlyTimestampedHaveKeys DEF ClaimInv
  <2> QED  BY <1>1, <2>4, <2>5 DEF ClaimInv, ClaimHeld, Forwarding
<1>2. ClaimInv /\ [Next]_vars => [Act]_vars  BY <1>1
<1> QED  BY <1>2, ClaimInvariant, PTL DEF Spec, ReleasedUnsent
================================================================================
