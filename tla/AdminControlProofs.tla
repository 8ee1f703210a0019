-------------------------- MODULE AdminControlProofs --------------------------
(***************************************************************************)
(* Proofs about the admin API and the startup loader, for any admins,      *)
(* commands, limiters, persisted rules and bounds.                         *)
(***************************************************************************)
EXTENDS AdminControl, SequenceTheorems, TLAPS

\* While a goroutine is between its calls on l, and once l is enabled against
\* the configuration, the limit l has is one that was asked for.
AskedInv ==
    \A l \in Limiters :
        \/ limiter[l].enabled /\ ~Configured[l].enabled
        \/ \E a \in Admins : Wiring(a, l)
        => <<l, limiter[l].rpm>> \in asked

\* What a goroutine that is alone on l has done and has yet to do there.
Halfway(a, l) ==
    LET left == alone[l].left
        rule == call[a].rule
    IN  /\ left.enabled = TRUE
        /\ left.rpm = limiter[l].rpm
        /\ left.delay = IF call[a].pc = "delay" /\ rule.delay > 0 THEN rule.delay ELSE limiter[l].delay
        /\ left.slots = IF call[a].pc \in {"delay", "slots"} /\ rule.slots > 0
                        THEN rule.slots ELSE limiter[l].slots

AloneInv ==
    \A l \in Limiters : alone[l].so =>
        /\ \A a, b \in Admins : Wiring(a, l) /\ Wiring(b, l) => a = b
        /\ \A a \in Admins : Wiring(a, l) => Halfway(a, l)
        /\ (\A a \in Admins : ~Wiring(a, l)) => limiter[l] = alone[l].left

\* The limiter is enabled, with a limit that was asked for.
InForce(l) == limiter[l].enabled /\ <<l, limiter[l].rpm>> \in asked

\* A rule of this process is in force or on its way, live or not.
EnforcedInv ==
    \A id \in Ids, l \in Limiters :
        rules[id] # NoRule /\ Wires(rules[id].rule, l) /\ id \notin told => InFlight(l) \/ InForce(l)

\* Only the load asks for a cap that does not limit.
CapInv ==
    /\ \A a \in Admins, l \in Limiters :
          call[a] # Idle /\ Wires(call[a].rule, l) => call[a].rule.maxRPM > 0
    /\ \A l \in Limiters, n \in Int : <<l, n>> \in asked => n > 0 \/ LoadedCap(l, n)
    /\ phase = "down" => asked = {}

\* What the load has done so far, and how long it took.
LoadInv ==
    phase = "loading" =>
         /\ load.now <= clock /\ clock <= load.now + MaxLoad
         /\ \A i \in 1..load.done :
              Loadable(Persisted[i], load.now) =>
                 \/ Persisted[i].id \in told
                 \/ rules[Persisted[i].id] # NoRule /\ rules[Persisted[i].id].loaded >= i

-----------------------------------------------------------------------------
(***************************************************************************)
(* Idle is not a request that is being served.                             *)
(***************************************************************************)
LEMMA CallFacts ==
    ASSUME TypeOK, NEW a \in Admins
    PROVE  /\ call[a].pc \in {"rpm", "delay", "slots", "enable"} =>
                 /\ call[a] \in [pc : {"rpm", "delay", "slots", "enable"}, rule : Rule]
                 /\ call[a].rule \in Rule
                 /\ call[a] # Idle
                 /\ phase = "serving"
           /\ call[a] = Idle => call[a].pc = "idle"
<1>1. call[a] \in {Idle} \cup [pc : {"rpm", "delay", "slots", "enable"}, rule : Rule]
  BY DEF TypeOK
<1>2. call[a] = Idle => call[a].pc = "idle"
  BY DEF Idle
<1> QED  BY <1>1, <1>2 DEF TypeOK

(***************************************************************************)
(* The settings that set-rule leaves are settings (handleSetRule).         *)
(***************************************************************************)
LEMMA WiredType ==
    ASSUME NEW s \in Settings, NEW rule \in Rule
    PROVE  Wired(s, rule) \in Settings
BY DEF Wired, Settings, Rule

(***************************************************************************)
(* Which goroutines are between their calls on a limiter, after each step  *)
(* of handleSetRule.                                                       *)
(***************************************************************************)
LEMMA WiringStep ==
    ASSUME TypeOK, NEW a \in Admins, NEW b \in Admins, NEW m \in Limiters
    PROVE  /\ \A c \in Commands : SetRule(a, c) => (Wiring(b, m)' <=> Wiring(b, m))
           /\ Unwired(a) => (Wiring(b, m)' <=> Wiring(b, m))
           /\ \A l \in Limiters : SetRequestsPerMin(a, l) =>
                 (Wiring(b, m)' <=> Wiring(b, m) \/ (b = a /\ m = l))
           /\ \A l \in Limiters : SetThrottleDelay(a, l) \/ SetMaxDelaySlots(a, l) =>
                 (Wiring(b, m)' <=> Wiring(b, m)) /\ (b = a /\ Wiring(b, m) => m = l)
           /\ \A l \in Limiters : Enable(a, l) =>
                 (Wiring(b, m)' <=> Wiring(b, m) /\ b # a) /\ (b = a /\ Wiring(b, m) => m = l)
<1>1. ASSUME NEW c \in Commands, SetRule(a, c) PROVE Wiring(b, m)' <=> Wiring(b, m)
  BY <1>1, CallFacts DEF SetRule, Wiring, Wires, TypeOK
<1>2. ASSUME Unwired(a) PROVE Wiring(b, m)' <=> Wiring(b, m)
  BY <1>2, CallFacts DEF Unwired, Wiring, Wires, TypeOK, Idle
<1>3. ASSUME NEW l \in Limiters, SetRequestsPerMin(a, l)
      PROVE  Wiring(b, m)' <=> Wiring(b, m) \/ (b = a /\ m = l)
  BY <1>3, CallFacts DEF SetRequestsPerMin, Wiring, Wires, TypeOK
<1>4. ASSUME NEW l \in Limiters, SetThrottleDelay(a, l) \/ SetMaxDelaySlots(a, l)
      PROVE  (Wiring(b, m)' <=> Wiring(b, m)) /\ (b = a /\ Wiring(b, m) => m = l)
  BY <1>4, CallFacts DEF SetThrottleDelay, SetMaxDelaySlots, Wiring, Wires, TypeOK
<1>5. ASSUME NEW l \in Limiters, Enable(a, l)
      PROVE  (Wiring(b, m)' <=> Wiring(b, m) /\ b # a) /\ (b = a /\ Wiring(b, m) => m = l)
  BY <1>5, CallFacts DEF Enable, Wiring, Wires, TypeOK, Idle
<1> QED  BY <1>1, <1>2, <1>3, <1>4, <1>5

(***************************************************************************)
(* The calls on a limiter change that limiter only, and the call.          *)
(***************************************************************************)
LEMMA LimiterStep ==
    ASSUME TypeOK, NEW a \in Admins, NEW l \in Limiters,
           \/ SetRequestsPerMin(a, l) \/ SetThrottleDelay(a, l)
           \/ SetMaxDelaySlots(a, l) \/ Enable(a, l)
    PROVE  /\ limiter' \in [Limiters -> Settings]
           /\ \A m \in Limiters : m # l => limiter'[m] = limiter[m]
           /\ call' \in [Admins -> {Idle} \cup [pc : {"rpm", "delay", "slots", "enable"}, rule : Rule]]
           /\ phase = "serving"
           /\ UNCHANGED <<clock, phase, starts, rules, load, told>>
<1>1. call[a] \in [pc : {"rpm", "delay", "slots", "enable"}, rule : Rule] /\ phase = "serving"
  BY CallFacts DEF SetRequestsPerMin, SetThrottleDelay, SetMaxDelaySlots, Enable
<1>2. limiter[l] \in Settings /\ call[a].rule \in Rule
  BY <1>1 DEF TypeOK
<1>3. /\ limiter' \in [Limiters -> Settings]
      /\ \A m \in Limiters : m # l => limiter'[m] = limiter[m]
  <2>1. CASE SetRequestsPerMin(a, l)
    BY <1>2, <2>1 DEF SetRequestsPerMin, TypeOK, Settings, Rule
  <2>2. CASE SetThrottleDelay(a, l)
    <3> DEFINE s == [limiter[l] EXCEPT !.delay = IF call[a].rule.delay > 0 THEN call[a].rule.delay
                                                ELSE limiter[l].delay]
    <3>1. s \in Settings
      BY <1>2 DEF Settings, Rule
    <3>2. limiter' = [limiter EXCEPT ![l] = s]
      BY <2>2 DEF SetThrottleDelay, TypeOK
    <3> HIDE DEF s
    <3> QED  BY <3>1, <3>2 DEF TypeOK
  <2>3. CASE SetMaxDelaySlots(a, l)
    <3> DEFINE s == [limiter[l] EXCEPT !.slots = IF call[a].rule.slots > 0 THEN call[a].rule.slots
                                                ELSE limiter[l].slots]
    <3>1. s \in Settings
      BY <1>2 DEF Settings, Rule
    <3>2. limiter' = [limiter EXCEPT ![l] = s]
      BY <2>3 DEF SetMaxDelaySlots, TypeOK
    <3> HIDE DEF s
    <3> QED  BY <3>1, <3>2 DEF TypeOK
  <2>4. CASE Enable(a, l)
    BY <1>2, <2>4 DEF Enable, TypeOK, Settings
  <2> QED  BY <2>1, <2>2, <2>3, <2>4
<1>4. call' \in [Admins -> {Idle} \cup [pc : {"rpm", "delay", "slots", "enable"}, rule : Rule]]
  BY <1>1 DEF SetRequestsPerMin, SetThrottleDelay, SetMaxDelaySlots, Enable, TypeOK
<1> QED
  BY <1>1, <1>3, <1>4 DEF SetRequestsPerMin, SetThrottleDelay, SetMaxDelaySlots, Enable

(***************************************************************************)
(* What a snapshot puts into the store counts as no persisted rule.        *)
(***************************************************************************)
LEMMA SnapshotFacts ==
    ASSUME TypeOK, Start \/ \E id \in Ids : Listen(id)
    PROVE  /\ rules' \in [Ids -> Stored \cup {NoRule}]
           /\ told' \subseteq Ids
           /\ \A id \in Ids :
                 /\ rules'[id] = NoRule \/ rules'[id].loaded = 0 \/ rules'[id] = rules[id]
                 /\ id \in told' \/ rules'[id] = NoRule \/ (id \notin told /\ rules'[id] = rules[id])
<1>1. \A id \in Ids : Entries(id) \subseteq Stored \cup {NoRule}
                      /\ \A e \in Entries(id) : e = NoRule \/ e.loaded = 0
  <2> SUFFICES ASSUME NEW d \in Shared
               PROVE  [rule |-> d.rule, expiresAt |-> d.expiresAt, loaded |-> 0] \in Stored
    BY DEF Entries
  <2> QED  BY AdminAssumption DEF Stored
<1>2. CASE Start
  <2>1. rules' \in FirstRules /\ told' = {id \in Ids : rules'[id] # NoRule}
    BY <1>2 DEF Start
  <2>2. rules' \in [Ids -> Stored \cup {NoRule}] /\ \A id \in Ids : rules'[id] = NoRule \/ rules'[id].loaded = 0
    BY <1>1, <2>1 DEF FirstRules
  <2> QED  BY <2>1, <2>2
<1>3. ASSUME NEW id \in Ids, Listen(id)
      PROVE  /\ rules' \in [Ids -> Stored \cup {NoRule}]
             /\ told' \subseteq Ids
             /\ \A d \in Ids :
                   /\ rules'[d] = NoRule \/ rules'[d].loaded = 0 \/ rules'[d] = rules[d]
                   /\ d \in told' \/ rules'[d] = NoRule \/ (d \notin told /\ rules'[d] = rules[d])
  <2>1. PICK e \in Entries(id) : rules' = [rules EXCEPT ![id] = e]
    BY <1>3 DEF Listen
  <2>2. told' = told \cup {id}
    BY <1>3 DEF Listen
  <2>3. e \in Stored \cup {NoRule} /\ (e = NoRule \/ e.loaded = 0)
    BY <1>1
  <2> QED  BY <2>1, <2>2, <2>3 DEF TypeOK
<1> QED  BY <1>2, <1>3

(***************************************************************************)
(* A start takes one persisted rule at a time; the rule it stores, and     *)
(* what is left alone (Load).                                              *)
(***************************************************************************)
LEMMA LoadFacts ==
    ASSUME TypeOK, LoadRule
    PROVE  /\ load.done + 1 \in 1..Len(Persisted)
           /\ Persisted[load.done + 1] \in [id : Ids, rule : Rule, sound : BOOLEAN, expiresAt : Int]
           /\ \A k \in 1..Len(Persisted) : Persisted[k].id \in Ids
           /\ load' = [load EXCEPT !.done = load.done + 1]
           /\ phase = "loading" /\ call = [a \in Admins |-> Idle]
           /\ UNCHANGED <<clock, phase, starts, call>>
<1>1. load.done + 1 \in 1..Len(Persisted) /\ Len(Persisted) \in Nat
  BY AdminAssumption DEF LoadRule, TypeOK
<1>2. Persisted[load.done + 1] \in [id : Ids, rule : Rule, sound : BOOLEAN, expiresAt : Int]
  <2> DEFINE S == [id : Ids, rule : Rule, sound : BOOLEAN, expiresAt : Int]
  <2>1. Persisted \in Seq(S)  BY AdminAssumption
  <2> HIDE DEF S
  <2>2. Persisted[load.done + 1] \in S  BY <1>1, <2>1, ElementOfSeq
  <2> QED  BY <2>2 DEF S
<1>3. \A k \in 1..Len(Persisted) : Persisted[k].id \in Ids
  <2> DEFINE S == [id : Ids, rule : Rule, sound : BOOLEAN, expiresAt : Int]
  <2>1. Persisted \in Seq(S)  BY AdminAssumption
  <2>2. \A e \in S : e.id \in Ids  OBVIOUS
  <2> HIDE DEF S
  <2>3. \A k \in 1..Len(Persisted) : Persisted[k] \in S  BY <2>1, ElementOfSeq
  <2> QED  BY <2>2, <2>3
<1> QED  BY <1>3, <1>1, <1>2 DEF LoadRule, TypeOK

(***************************************************************************)
(* The rule that a load stores (rule_loader.go lines 77-93).               *)
(***************************************************************************)
LEMMA LoadedRule ==
    ASSUME TypeOK, LoadRule, Loadable(Persisted[load.done + 1], load.now)
    PROVE  \E e \in Stored :
             /\ e.rule = Persisted[load.done + 1].rule
             /\ e.loaded = load.done + 1
             /\ e.expiresAt = clock + Remaining(Persisted[load.done + 1], load.now) * Second
             /\ rules' = [rules EXCEPT ![Persisted[load.done + 1].id] = e]
             /\ told' = told \ {Persisted[load.done + 1].id}
<1> DEFINE pr == Persisted[load.done + 1]
           e == [rule |-> pr.rule, loaded |-> load.done + 1,
                 expiresAt |-> clock + Remaining(pr, load.now) * Second]
<1>1. load.done + 1 \in Nat /\ pr \in [id : Ids, rule : Rule, sound : BOOLEAN, expiresAt : Int]
  BY LoadFacts DEF TypeOK
<1>2. e \in Stored
  BY <1>1, AdminAssumption DEF Stored, Remaining, TypeOK
<1>3. rules' = [rules EXCEPT ![pr.id] = e] /\ told' = told \ {pr.id}
  BY DEF LoadRule
<1> QED  BY <1>2, <1>3

(***************************************************************************)
(* The types are kept by every request, start, load and end (handler.go,   *)
(* rule_loader.go).                                                        *)
(***************************************************************************)
LEMMA TypeStep == TypeOK /\ [Next]_vars => TypeOK'
<1> SUFFICES ASSUME TypeOK, [Next]_vars PROVE TypeOK'  OBVIOUS
<1>1. CASE UNCHANGED vars
  BY <1>1 DEF vars, TypeOK, history
<1>2. ASSUME NEW a \in Admins, NEW c \in Commands, SetRule(a, c) PROVE TypeOK'
  <2>1. [rule |-> c.rule, expiresAt |-> clock + c.duration * Second, loaded |-> 0] \in Stored
    BY AdminAssumption DEF Stored, TypeOK
  <2>2. [pc |-> "rpm", rule |-> c.rule] \in [pc : {"rpm", "delay", "slots", "enable"}, rule : Rule]
    BY AdminAssumption
  <2> QED  BY <1>2, <2>1, <2>2 DEF SetRule, TypeOK, history
<1>3. ASSUME NEW a \in Admins, NEW c \in Commands, Remove(a, c) PROVE TypeOK'
  BY <1>3 DEF Remove, TypeOK, history
<1>4. ASSUME NEW a \in Admins, Unwired(a) PROVE TypeOK'
  BY <1>4, CallFacts DEF Unwired, TypeOK, history
<1>5. ASSUME NEW a \in Admins, NEW l \in Limiters, SetRequestsPerMin(a, l) PROVE TypeOK'
  <2>1. call[a].rule \in Rule /\ limiter[l] \in Settings
    BY <1>5, CallFacts DEF SetRequestsPerMin, TypeOK
  <2>2. alone' \in [Limiters -> [so : BOOLEAN, left : Settings]]
    BY <1>5, <2>1, WiredType DEF SetRequestsPerMin, Asking, TypeOK
  <2>3. asked' \subseteq Limiters \X Int
    BY <1>5, <2>1 DEF SetRequestsPerMin, Asking, TypeOK, Rule
  <2> QED  BY <1>5, <2>2, <2>3, LimiterStep DEF TypeOK
<1>6. ASSUME NEW a \in Admins, NEW l \in Limiters, SetThrottleDelay(a, l) PROVE TypeOK'
  <2>1. alone' \in [Limiters -> [so : BOOLEAN, left : Settings]] /\ asked' \subseteq Limiters \X Int
    BY <1>6 DEF SetThrottleDelay, TypeOK, history
  <2> QED  BY <1>6, <2>1, LimiterStep DEF TypeOK
<1>7. ASSUME NEW a \in Admins, NEW l \in Limiters, SetMaxDelaySlots(a, l) PROVE TypeOK'
  <2>1. alone' \in [Limiters -> [so : BOOLEAN, left : Settings]] /\ asked' \subseteq Limiters \X Int
    BY <1>7 DEF SetMaxDelaySlots, TypeOK, history
  <2> QED  BY <1>7, <2>1, LimiterStep DEF TypeOK
<1>8. ASSUME NEW a \in Admins, NEW l \in Limiters, Enable(a, l) PROVE TypeOK'
  <2>1. alone' \in [Limiters -> [so : BOOLEAN, left : Settings]] /\ asked' \subseteq Limiters \X Int
    BY <1>8 DEF Enable, TypeOK, history
  <2> QED  BY <1>8, <2>1, LimiterStep DEF TypeOK
<1>9. CASE Start
  BY <1>9, SnapshotFacts, AdminAssumption DEF Start, TypeOK, history
<1>10. CASE LoadRule
  <2> DEFINE i == load.done + 1
             pr == Persisted[i]
  <2>1. /\ i \in 1..Len(Persisted) /\ pr \in [id : Ids, rule : Rule, sound : BOOLEAN, expiresAt : Int]
        /\ load' \in [now : Nat, done : 0..Len(Persisted)]
        /\ phase = "loading" /\ UNCHANGED <<clock, phase, starts, call>>
    BY <1>10, LoadFacts DEF TypeOK
  <2>2. [rule |-> pr.rule, loaded |-> i, expiresAt |-> clock + Remaining(pr, load.now) * Second] \in Stored
    BY <2>1, AdminAssumption DEF Stored, Remaining, TypeOK
  <2>3. rules' \in [Ids -> Stored \cup {NoRule}]
    BY <1>10, <2>1, <2>2 DEF LoadRule, TypeOK
  <2>4. /\ limiter' \in [Limiters -> Settings]
        /\ asked' \subseteq Limiters \X Int
        /\ alone' \in [Limiters -> [so : BOOLEAN, left : Settings]]
    <3>1. CASE UNCHANGED <<limiter, asked, alone>>
      BY <3>1 DEF TypeOK
    <3>2. CASE \E l \in Limiters :
                  /\ Wires(pr.rule, l)
                  /\ limiter' = [limiter EXCEPT ![l].rpm = pr.rule.maxRPM, ![l].enabled = TRUE]
                  /\ Asking(pr.rule, l)
      <4>1. PICK l \in Limiters :
                  /\ limiter' = [limiter EXCEPT ![l].rpm = pr.rule.maxRPM, ![l].enabled = TRUE]
                  /\ Asking(pr.rule, l)
        BY <3>2
      <4>2. pr.rule \in Rule /\ limiter[l] \in Settings
        BY <2>1 DEF TypeOK
      <4>3. limiter' \in [Limiters -> Settings]
        BY <4>1, <4>2 DEF TypeOK, Settings, Rule
      <4>4. alone' \in [Limiters -> [so : BOOLEAN, left : Settings]]
        BY <4>1, <4>2, WiredType DEF Asking, TypeOK
      <4>5. asked' \subseteq Limiters \X Int
        BY <4>1, <4>2 DEF Asking, TypeOK, Rule
      <4> QED  BY <4>3, <4>4, <4>5
    <3> QED  BY <1>10, <3>1, <3>2 DEF LoadRule, history
  <2>5. told' \subseteq Ids
    BY <1>10 DEF LoadRule, TypeOK
  <2> QED  BY <2>1, <2>3, <2>4, <2>5 DEF TypeOK
<1>11. CASE Serve
  BY <1>11 DEF Serve, TypeOK, history
<1>12. CASE Exit
  BY <1>12, AdminAssumption DEF Exit, TypeOK, NotLoading, Untouched, Idle
<1>13. CASE Tick
  BY <1>13 DEF Tick, TypeOK, history
<1>14. ASSUME NEW id \in Ids, Listen(id) PROVE TypeOK'
  BY <1>14, SnapshotFacts DEF Listen, TypeOK, history
<1> QED
  BY <1>1, <1>2, <1>3, <1>4, <1>5, <1>6, <1>7, <1>8, <1>9, <1>10, <1>11, <1>12, <1>13, <1>14 DEF Next, Refuse

(***************************************************************************)
(* Every path sets the limit before it enables the limiter (handleSetRule, *)
(* Load).                                                                  *)
(***************************************************************************)
LEMMA AskedStep == TypeOK /\ AskedInv /\ [Next]_vars => AskedInv'
<1> SUFFICES ASSUME TypeOK, AskedInv, [Next]_vars PROVE AskedInv'  OBVIOUS
<1>1. CASE UNCHANGED vars
  BY <1>1 DEF vars, AskedInv, Wiring, Wires
<1>2. ASSUME NEW a \in Admins, NEW c \in Commands, SetRule(a, c) PROVE AskedInv'
  BY <1>2, WiringStep DEF SetRule, AskedInv, history
<1>3. ASSUME NEW a \in Admins, NEW c \in Commands, Remove(a, c) PROVE AskedInv'
  BY <1>3 DEF Remove, AskedInv, history, Wiring, Wires
<1>4. ASSUME NEW a \in Admins, Unwired(a) PROVE AskedInv'
  BY <1>4, WiringStep DEF Unwired, AskedInv, history
<1>5. ASSUME NEW a \in Admins, NEW l \in Limiters, SetRequestsPerMin(a, l) PROVE AskedInv'
  <2> SUFFICES ASSUME NEW m \in Limiters,
                      \/ limiter'[m].enabled /\ ~Configured[m].enabled
                      \/ \E b \in Admins : Wiring(b, m)'
               PROVE  <<m, limiter'[m].rpm>> \in asked'
    BY DEF AskedInv
  <2>1. CASE m = l
    BY <1>5, <2>1 DEF SetRequestsPerMin, Asking, TypeOK, Settings
  <2>2. CASE m # l
    <3>1. limiter'[m] = limiter[m]  BY <1>5, <2>2, LimiterStep
    <3>2. (\E b \in Admins : Wiring(b, m)') => \E b \in Admins : Wiring(b, m)
      BY <1>5, <2>2, WiringStep
    <3> QED  BY <1>5, <3>1, <3>2 DEF SetRequestsPerMin, Asking, AskedInv
  <2> QED  BY <2>1, <2>2
<1>6. ASSUME NEW a \in Admins, NEW l \in Limiters, SetThrottleDelay(a, l) PROVE AskedInv'
  <2>1. \A m \in Limiters : limiter'[m].rpm = limiter[m].rpm
    BY <1>6 DEF SetThrottleDelay, TypeOK, Settings
  <2>2. \A m \in Limiters : limiter'[m].enabled => limiter[m].enabled \/ \E b \in Admins : Wiring(b, m)
    BY <1>6 DEF SetThrottleDelay, TypeOK, Settings, Wiring
  <2>3. \A m \in Limiters, b \in Admins : Wiring(b, m)' => Wiring(b, m)
    BY <1>6, WiringStep
  <2>4. asked' = asked
    BY <1>6 DEF SetThrottleDelay, history
  <2> QED  BY <2>1, <2>2, <2>3, <2>4 DEF AskedInv
<1>7. ASSUME NEW a \in Admins, NEW l \in Limiters, SetMaxDelaySlots(a, l) PROVE AskedInv'
  <2>1. \A m \in Limiters : limiter'[m].rpm = limiter[m].rpm
    BY <1>7 DEF SetMaxDelaySlots, TypeOK, Settings
  <2>2. \A m \in Limiters : limiter'[m].enabled => limiter[m].enabled \/ \E b \in Admins : Wiring(b, m)
    BY <1>7 DEF SetMaxDelaySlots, TypeOK, Settings, Wiring
  <2>3. \A m \in Limiters, b \in Admins : Wiring(b, m)' => Wiring(b, m)
    BY <1>7, WiringStep
  <2>4. asked' = asked
    BY <1>7 DEF SetMaxDelaySlots, history
  <2> QED  BY <2>1, <2>2, <2>3, <2>4 DEF AskedInv
<1>8. ASSUME NEW a \in Admins, NEW l \in Limiters, Enable(a, l) PROVE AskedInv'
  <2>1. \A m \in Limiters : limiter'[m].rpm = limiter[m].rpm
    BY <1>8 DEF Enable, TypeOK, Settings
  <2>2. \A m \in Limiters : limiter'[m].enabled => limiter[m].enabled \/ \E b \in Admins : Wiring(b, m)
    BY <1>8 DEF Enable, TypeOK, Settings, Wiring
  <2>3. \A m \in Limiters, b \in Admins : Wiring(b, m)' => Wiring(b, m)
    BY <1>8, WiringStep
  <2>4. asked' = asked
    BY <1>8 DEF Enable, history
  <2> QED  BY <2>1, <2>2, <2>3, <2>4 DEF AskedInv
<1>9. CASE Start
  BY <1>9 DEF Start, AskedInv, history, Wiring, Wires
<1>10. CASE LoadRule
  <2> DEFINE pr == Persisted[load.done + 1]
  <2>1. \A b \in Admins, m \in Limiters : ~Wiring(b, m)'
    BY <1>10, LoadFacts DEF Wiring, Idle
  <2>2. CASE UNCHANGED <<limiter, asked, alone>>
    BY <2>1, <2>2 DEF AskedInv
  <2>3. CASE \E l \in Limiters :
                /\ Wires(pr.rule, l)
                /\ limiter' = [limiter EXCEPT ![l].rpm = pr.rule.maxRPM, ![l].enabled = TRUE]
                /\ Asking(pr.rule, l)
    <3>1. PICK l \in Limiters :
             /\ limiter' = [limiter EXCEPT ![l].rpm = pr.rule.maxRPM, ![l].enabled = TRUE]
             /\ Asking(pr.rule, l)
      BY <2>3
    <3>2. asked' = asked \cup {<<l, pr.rule.maxRPM>>}
      BY <3>1 DEF Asking
    <3>3. limiter'[l].rpm = pr.rule.maxRPM
      BY <3>1 DEF TypeOK, Settings
    <3>4. \A m \in Limiters : m # l => limiter'[m] = limiter[m]
      BY <3>1 DEF TypeOK
    <3> QED  BY <2>1, <3>2, <3>3, <3>4 DEF AskedInv
  <2> QED  BY <1>10, <2>2, <2>3 DEF LoadRule, history
<1>11. CASE Serve
  BY <1>11 DEF Serve, AskedInv, history, Wiring, Wires
<1>12. CASE Exit
  BY <1>12, AdminAssumption DEF Exit, AskedInv, Wiring, Idle
<1>13. CASE Tick
  BY <1>13 DEF Tick, AskedInv, history, Wiring, Wires
<1>14. ASSUME NEW id \in Ids, Listen(id) PROVE AskedInv'
  BY <1>14 DEF Listen, AskedInv, history, Wiring, Wires
<1> QED
  BY <1>1, <1>2, <1>3, <1>4, <1>5, <1>6, <1>7, <1>8, <1>9, <1>10, <1>11, <1>12, <1>13, <1>14 DEF Next, Refuse

(***************************************************************************)
(* A set-rule that is alone on its limiter goes through the documented     *)
(* settings one by one (handler.go lines 62-73).                           *)
(***************************************************************************)
LEMMA AloneStep == TypeOK /\ AloneInv /\ [Next]_vars => AloneInv'
<1> SUFFICES ASSUME TypeOK, AloneInv, [Next]_vars PROVE AloneInv'  OBVIOUS
<1>1. CASE UNCHANGED vars
  BY <1>1 DEF vars, AloneInv, Halfway, Wiring, Wires
<1>2. ASSUME NEW a \in Admins, NEW c \in Commands, SetRule(a, c) PROVE AloneInv'
  <2>1. \A b \in Admins, m \in Limiters : Wiring(b, m) => call'[b] = call[b]
    BY <1>2, CallFacts DEF SetRule, Wiring, TypeOK
  <2>2. \A b \in Admins, m \in Limiters : Wiring(b, m)' <=> Wiring(b, m)
    BY <1>2, WiringStep
  <2>3. UNCHANGED <<limiter, alone>>
    BY <1>2 DEF SetRule, history
  <2>4. \A b \in Admins, m \in Limiters : Wiring(b, m) /\ Halfway(b, m) => Halfway(b, m)'
    BY <2>1, <2>3 DEF Halfway
  <2> QED  BY <2>2, <2>3, <2>4 DEF AloneInv
<1>3. ASSUME NEW a \in Admins, NEW c \in Commands, Remove(a, c) PROVE AloneInv'
  BY <1>3 DEF Remove, AloneInv, Halfway, Wiring, Wires, history
<1>4. ASSUME NEW a \in Admins, Unwired(a) PROVE AloneInv'
  <2>1. \A b \in Admins, m \in Limiters : Wiring(b, m) => call'[b] = call[b]
    BY <1>4, CallFacts DEF Unwired, Wiring, TypeOK
  <2>2. \A b \in Admins, m \in Limiters : Wiring(b, m)' <=> Wiring(b, m)
    BY <1>4, WiringStep
  <2>3. UNCHANGED <<limiter, alone>>
    BY <1>4 DEF Unwired, history
  <2>4. \A b \in Admins, m \in Limiters : Wiring(b, m) /\ Halfway(b, m) => Halfway(b, m)'
    BY <2>1, <2>3 DEF Halfway
  <2> QED  BY <2>2, <2>3, <2>4 DEF AloneInv
<1>5. ASSUME NEW a \in Admins, NEW l \in Limiters, SetRequestsPerMin(a, l) PROVE AloneInv'
  <2> SUFFICES ASSUME NEW m \in Limiters, alone'[m].so
               PROVE  /\ \A b, d \in Admins : Wiring(b, m)' /\ Wiring(d, m)' => b = d
                      /\ \A b \in Admins : Wiring(b, m)' => Halfway(b, m)'
                      /\ (\A b \in Admins : ~Wiring(b, m)') => limiter'[m] = alone'[m].left
    BY DEF AloneInv
  <2>1. CASE m # l
    <3>1. limiter'[m] = limiter[m] /\ alone'[m] = alone[m]
      BY <1>5, <2>1, LimiterStep DEF SetRequestsPerMin, Asking, TypeOK, history
    <3>2. \A b \in Admins : (Wiring(b, m)' <=> Wiring(b, m)) /\ (Wiring(b, m) => b # a)
      <4>1. \A b \in Admins : Wiring(b, m)' <=> Wiring(b, m)
        BY <1>5, <2>1, WiringStep
      <4>2. ~Wiring(a, m)
        BY <1>5, <2>1 DEF SetRequestsPerMin, Wiring, Wires
      <4> QED  BY <4>1, <4>2
    <3>3. \A b \in Admins : b # a => call'[b] = call[b]
      BY <1>5 DEF SetRequestsPerMin, TypeOK
    <3> QED  BY <3>1, <3>2, <3>3 DEF AloneInv, Halfway
  <2>2. CASE m = l
    <3>1. /\ \A b \in Admins : ~Wiring(b, l)
          /\ alone'[l].left = Wired(limiter[l], call[a].rule)
          /\ limiter'[l] = [limiter[l] EXCEPT !.rpm = call[a].rule.maxRPM]
          /\ call'[a] = [call[a] EXCEPT !.pc = "delay"]
      BY <1>5, <2>2 DEF SetRequestsPerMin, Asking, TypeOK
    <3>2. \A b \in Admins : Wiring(b, l)' <=> b = a
      BY <1>5, <3>1, WiringStep
    <3>3. limiter[l] \in Settings
          /\ call[a] \in [pc : {"rpm", "delay", "slots", "enable"}, rule : Rule]
      BY <1>5, CallFacts DEF SetRequestsPerMin, TypeOK
    <3>4. Halfway(a, l)'
      BY <3>1, <3>3 DEF Halfway, Wired, Settings
    <3> QED  BY <2>2, <3>2, <3>4
  <2> QED  BY <2>1, <2>2
<1>6. ASSUME NEW a \in Admins, NEW l \in Limiters, SetThrottleDelay(a, l) PROVE AloneInv'
  <2> SUFFICES ASSUME NEW m \in Limiters, alone'[m].so
               PROVE  /\ \A b, d \in Admins : Wiring(b, m)' /\ Wiring(d, m)' => b = d
                      /\ \A b \in Admins : Wiring(b, m)' => Halfway(b, m)'
                      /\ (\A b \in Admins : ~Wiring(b, m)') => limiter'[m] = alone'[m].left
    BY DEF AloneInv
  <2>1. CASE m # l
    <3>1. limiter'[m] = limiter[m] /\ alone'[m] = alone[m]
      BY <1>6, <2>1, LimiterStep DEF SetThrottleDelay, Asking, TypeOK, history
    <3>2. \A b \in Admins : (Wiring(b, m)' <=> Wiring(b, m)) /\ (Wiring(b, m) => b # a)
      <4>1. \A b \in Admins : Wiring(b, m)' <=> Wiring(b, m)
        BY <1>6, <2>1, WiringStep
      <4>2. ~Wiring(a, m)
        BY <1>6, <2>1 DEF SetThrottleDelay, Wiring, Wires
      <4> QED  BY <4>1, <4>2
    <3>3. \A b \in Admins : b # a => call'[b] = call[b]
      BY <1>6 DEF SetThrottleDelay, TypeOK
    <3> QED  BY <3>1, <3>2, <3>3 DEF AloneInv, Halfway
  <2>2. CASE m = l
    <3>1. alone' = alone /\ Wiring(a, l)
      BY <1>6 DEF SetThrottleDelay, Wiring, history
    <3>2. (\A b \in Admins : Wiring(b, l) => b = a) /\ Halfway(a, l)
      BY <2>2, <3>1 DEF AloneInv
    <3>3. limiter[l] \in Settings /\ alone[l].left \in Settings
          /\ call[a] \in [pc : {"rpm", "delay", "slots", "enable"}, rule : Rule]
      BY <1>6, CallFacts DEF SetThrottleDelay, TypeOK
    <3>4. /\ limiter'[l] = [limiter[l] EXCEPT !.delay = IF call[a].rule.delay > 0 THEN call[a].rule.delay ELSE limiter[l].delay]
          /\ call'[a] = [call[a] EXCEPT !.pc = "slots"]
          /\ call[a].pc = "delay"
      BY <1>6 DEF SetThrottleDelay, TypeOK
    <3>5. Halfway(a, l)'
      BY <3>1, <3>2, <3>3, <3>4 DEF Halfway, Settings
    <3>6. \A b \in Admins : Wiring(b, l)' <=> b = a
      BY <1>6, <3>1, <3>2, WiringStep
    <3> QED  BY <2>2, <3>5, <3>6
  <2> QED  BY <2>1, <2>2
<1>7. ASSUME NEW a \in Admins, NEW l \in Limiters, SetMaxDelaySlots(a, l) PROVE AloneInv'
  <2> SUFFICES ASSUME NEW m \in Limiters, alone'[m].so
               PROVE  /\ \A b, d \in Admins : Wiring(b, m)' /\ Wiring(d, m)' => b = d
                      /\ \A b \in Admins : Wiring(b, m)' => Halfway(b, m)'
                      /\ (\A b \in Admins : ~Wiring(b, m)') => limiter'[m] = alone'[m].left
    BY DEF AloneInv
  <2>1. CASE m # l
    <3>1. limiter'[m] = limiter[m] /\ alone'[m] = alone[m]
      BY <1>7, <2>1, LimiterStep DEF SetMaxDelaySlots, Asking, TypeOK, history
    <3>2. \A b \in Admins : (Wiring(b, m)' <=> Wiring(b, m)) /\ (Wiring(b, m) => b # a)
      <4>1. \A b \in Admins : Wiring(b, m)' <=> Wiring(b, m)
        BY <1>7, <2>1, WiringStep
      <4>2. ~Wiring(a, m)
        BY <1>7, <2>1 DEF SetMaxDelaySlots, Wiring, Wires
      <4> QED  BY <4>1, <4>2
    <3>3. \A b \in Admins : b # a => call'[b] = call[b]
      BY <1>7 DEF SetMaxDelaySlots, TypeOK
    <3> QED  BY <3>1, <3>2, <3>3 DEF AloneInv, Halfway
  <2>2. CASE m = l
    <3>1. alone' = alone /\ Wiring(a, l)
      BY <1>7 DEF SetMaxDelaySlots, Wiring, history
    <3>2. (\A b \in Admins : Wiring(b, l) => b = a) /\ Halfway(a, l)
      BY <2>2, <3>1 DEF AloneInv
    <3>3. limiter[l] \in Settings /\ alone[l].left \in Settings
          /\ call[a] \in [pc : {"rpm", "delay", "slots", "enable"}, rule : Rule]
      BY <1>7, CallFacts DEF SetMaxDelaySlots, TypeOK
    <3>4. /\ limiter'[l] = [limiter[l] EXCEPT !.slots = IF call[a].rule.slots > 0 THEN call[a].rule.slots ELSE limiter[l].slots]
          /\ call'[a] = [call[a] EXCEPT !.pc = "enable"]
          /\ call[a].pc = "slots"
      BY <1>7 DEF SetMaxDelaySlots, TypeOK
    <3>5. Halfway(a, l)'
      BY <3>1, <3>2, <3>3, <3>4 DEF Halfway, Settings
    <3>6. \A b \in Admins : Wiring(b, l)' <=> b = a
      BY <1>7, <3>1, <3>2, WiringStep
    <3> QED  BY <2>2, <3>5, <3>6
  <2> QED  BY <2>1, <2>2
<1>8. ASSUME NEW a \in Admins, NEW l \in Limiters, Enable(a, l) PROVE AloneInv'
  <2> SUFFICES ASSUME NEW m \in Limiters, alone'[m].so
               PROVE  /\ \A b, d \in Admins : Wiring(b, m)' /\ Wiring(d, m)' => b = d
                      /\ \A b \in Admins : Wiring(b, m)' => Halfway(b, m)'
                      /\ (\A b \in Admins : ~Wiring(b, m)') => limiter'[m] = alone'[m].left
    BY DEF AloneInv
  <2>1. CASE m # l
    <3>1. limiter'[m] = limiter[m] /\ alone'[m] = alone[m]
      BY <1>8, <2>1, LimiterStep DEF Enable, Asking, TypeOK, history
    <3>2. \A b \in Admins : (Wiring(b, m)' <=> Wiring(b, m)) /\ (Wiring(b, m) => b # a)
      <4>1. \A b \in Admins : Wiring(b, m)' <=> Wiring(b, m)
        BY <1>8, <2>1, WiringStep
      <4>2. ~Wiring(a, m)
        BY <1>8, <2>1 DEF Enable, Wiring, Wires
      <4> QED  BY <4>1, <4>2
    <3>3. \A b \in Admins : b # a => call'[b] = call[b]
      BY <1>8 DEF Enable, TypeOK
    <3> QED  BY <3>1, <3>2, <3>3 DEF AloneInv, Halfway
  <2>2. CASE m = l
    <3>1. alone' = alone /\ Wiring(a, l)
      BY <1>8 DEF Enable, Wiring, history
    <3>2. (\A b \in Admins : Wiring(b, l) => b = a) /\ Halfway(a, l)
      BY <2>2, <3>1 DEF AloneInv
    <3>3. limiter[l] \in Settings /\ alone[l].left \in Settings
          /\ call[a] \in [pc : {"rpm", "delay", "slots", "enable"}, rule : Rule]
      BY <1>8, CallFacts DEF Enable, TypeOK
    <3>4. limiter'[l] = [limiter[l] EXCEPT !.enabled = TRUE] /\ call[a].pc = "enable"
      BY <1>8 DEF Enable, TypeOK
    <3>5. limiter'[l] = alone[l].left
      BY <3>2, <3>3, <3>4 DEF Halfway, Settings
    <3>6. \A b \in Admins : ~Wiring(b, l)'
      BY <1>8, <3>2, WiringStep
    <3> QED  BY <2>2, <3>1, <3>5, <3>6
  <2> QED  BY <2>1, <2>2
<1>9. CASE Start
  BY <1>9 DEF Start, AloneInv, Halfway, Wiring, Wires, history
<1>10. CASE LoadRule
  <2> DEFINE pr == Persisted[load.done + 1]
  <2>1. \A b \in Admins, m \in Limiters : ~Wiring(b, m) /\ ~Wiring(b, m)'
    BY <1>10, LoadFacts DEF Wiring, Idle
  <2>2. CASE UNCHANGED <<limiter, asked, alone>>
    BY <2>1, <2>2 DEF AloneInv
  <2>3. CASE \E l \in Limiters :
                /\ Wires(pr.rule, l)
                /\ limiter' = [limiter EXCEPT ![l].rpm = pr.rule.maxRPM, ![l].enabled = TRUE]
                /\ Asking(pr.rule, l)
    <3>1. PICK l \in Limiters :
                /\ limiter' = [limiter EXCEPT ![l].rpm = pr.rule.maxRPM, ![l].enabled = TRUE]
                /\ Asking(pr.rule, l)
      BY <2>3
    <3>2. pr.rule.delay = 0 /\ pr.rule.slots = 0
      BY <1>10, LoadFacts, AdminAssumption
    <3>3. limiter'[l] = Wired(limiter[l], pr.rule)
      <4>1. limiter'[l] = [limiter[l] EXCEPT !.rpm = pr.rule.maxRPM, !.enabled = TRUE]
        BY <3>1 DEF TypeOK
      <4>2. limiter[l] \in Settings
        BY DEF TypeOK
      <4>3. limiter'[l] = [enabled |-> TRUE, rpm |-> pr.rule.maxRPM,
                           delay |-> limiter[l].delay, slots |-> limiter[l].slots]
        BY <4>1, <4>2 DEF Settings
      <4>4. ~ (pr.rule.delay > 0) /\ ~ (pr.rule.slots > 0)
        BY <3>2
      <4> QED  BY <4>3, <4>4 DEF Wired
    <3>4. alone'[l].left = limiter'[l]
      BY <3>1, <3>3 DEF Asking, TypeOK
    <3>5. \A m \in Limiters : m # l => limiter'[m] = limiter[m] /\ alone'[m] = alone[m]
      BY <3>1 DEF Asking, TypeOK
    <3> QED  BY <2>1, <3>4, <3>5 DEF AloneInv
  <2> QED  BY <1>10, <2>2, <2>3 DEF LoadRule, history
<1>11. CASE Serve
  BY <1>11 DEF Serve, AloneInv, Halfway, Wiring, Wires, history
<1>12. CASE Exit
  BY <1>12, AdminAssumption DEF Exit, AloneInv, Wiring, Idle, Untouched
<1>13. CASE Tick
  BY <1>13 DEF Tick, AloneInv, Halfway, Wiring, Wires, history
<1>14. ASSUME NEW id \in Ids, Listen(id) PROVE AloneInv'
  BY <1>14 DEF Listen, AloneInv, Halfway, Wiring, Wires, history
<1> QED
  BY <1>1, <1>2, <1>3, <1>4, <1>5, <1>6, <1>7, <1>8, <1>9, <1>10, <1>11, <1>12, <1>13, <1>14 DEF Next, Refuse

(***************************************************************************)
(* Nothing turns a limiter off while the process runs, what is asked for   *)
(* stays asked for, and the handler that stored a rule enables its limiter *)
(* in the end (handler.go lines 54-73).                                    *)
(***************************************************************************)
LEMMA EnforcedStep == TypeOK /\ AskedInv /\ EnforcedInv /\ [Next]_vars => EnforcedInv'
<1> SUFFICES ASSUME TypeOK, AskedInv, EnforcedInv, [Next]_vars PROVE EnforcedInv'  OBVIOUS
<1> DEFINE Kept(id) == id \in told' \/ rules'[id] = NoRule \/ (id \notin told /\ rules'[id] = rules[id])
           Stays(m) == InFlight(m) \/ InForce(m) => InFlight(m)' \/ InForce(m)'
<1>K. ASSUME \A id \in Ids : Kept(id), \A m \in Limiters : Stays(m)
      PROVE  EnforcedInv'
  BY <1>K DEF EnforcedInv, Wires
<1>U. ASSUME UNCHANGED <<call, limiter, asked>>, NEW m \in Limiters
      PROVE  Stays(m)
  BY <1>U DEF InFlight, InForce, Wires
<1>1. CASE UNCHANGED vars
  BY <1>1, <1>K, <1>U DEF vars
<1>2. ASSUME NEW a \in Admins, NEW c \in Commands, SetRule(a, c) PROVE EnforcedInv'
  <2>1. \A b \in Admins : b # a => call'[b] = call[b]
    BY <1>2 DEF SetRule, TypeOK
  <2>2. call[a] = Idle /\ call'[a] # Idle /\ call'[a].rule = c.rule
    BY <1>2 DEF SetRule, TypeOK, Idle
  <2>3. \A m \in Limiters : InFlight(m) => InFlight(m)'
    BY <2>1, <2>2 DEF InFlight, Wires
  <2>4. \A m \in Limiters : Wires(c.rule, m) => InFlight(m)'
    BY <2>2 DEF InFlight, Wires
  <2>5. UNCHANGED <<limiter, asked>> /\ (\A id \in Ids : Kept(id) \/ rules'[id].rule = c.rule)
    BY <1>2 DEF SetRule, TypeOK, history
  <2> QED  BY <2>3, <2>4, <2>5 DEF EnforcedInv, InForce, Wires
<1>3. ASSUME NEW a \in Admins, NEW c \in Commands, Remove(a, c) PROVE EnforcedInv'
  <2>1. UNCHANGED <<call, limiter, asked, told>> /\ \A id \in Ids : Kept(id)
    BY <1>3 DEF Remove, TypeOK, history
  <2> QED  BY <1>K, <1>U, <2>1
<1>4. ASSUME NEW a \in Admins, Unwired(a) PROVE EnforcedInv'
  <2>1. \A m \in Limiters : InFlight(m) => InFlight(m)'
    BY <1>4 DEF Unwired, InFlight, Wires, TypeOK
  <2>2. UNCHANGED <<limiter, asked, told, rules>>
    BY <1>4 DEF Unwired, history
  <2> QED  BY <1>K, <2>1, <2>2 DEF InForce
<1>5. ASSUME NEW a \in Admins, NEW l \in Limiters,
             SetRequestsPerMin(a, l) \/ SetThrottleDelay(a, l) \/ SetMaxDelaySlots(a, l)
      PROVE  EnforcedInv'
  <2>1. call[a] # Idle /\ call'[a] # Idle /\ call'[a].rule = call[a].rule
    BY <1>5, CallFacts DEF SetRequestsPerMin, SetThrottleDelay, SetMaxDelaySlots, TypeOK, Idle
  <2>2. \A b \in Admins : b # a => call'[b] = call[b]
    BY <1>5 DEF SetRequestsPerMin, SetThrottleDelay, SetMaxDelaySlots, TypeOK
  <2>3. \A m \in Limiters : InFlight(m) => InFlight(m)'
    BY <2>1, <2>2 DEF InFlight, Wires
  <2>4. \A m \in Limiters : InForce(m) => InForce(m)'
    <3>1. asked \subseteq asked'
      BY <1>5 DEF SetRequestsPerMin, Asking, SetThrottleDelay, SetMaxDelaySlots, history
    <3>2. limiter[l] \in Settings /\ l \in DOMAIN limiter
      BY DEF TypeOK
    <3>3. /\ limiter'[l].enabled = limiter[l].enabled
          /\ limiter'[l].rpm = limiter[l].rpm \/ <<l, limiter'[l].rpm>> \in asked'
      <4>1. CASE SetRequestsPerMin(a, l)
        BY <3>2, <4>1 DEF SetRequestsPerMin, Asking, Settings
      <4>2. CASE SetThrottleDelay(a, l)
        BY <3>2, <4>2 DEF SetThrottleDelay, Settings
      <4>3. CASE SetMaxDelaySlots(a, l)
        BY <3>2, <4>3 DEF SetMaxDelaySlots, Settings
      <4> QED  BY <1>5, <4>1, <4>2, <4>3
    <3>4. \A m \in Limiters : m # l => limiter'[m] = limiter[m]
      BY <1>5, LimiterStep
    <3> QED  BY <3>1, <3>3, <3>4 DEF InForce
  <2>5. UNCHANGED <<rules, told>>
    BY <1>5, LimiterStep
  <2> QED  BY <1>K, <2>3, <2>4, <2>5
<1>6. ASSUME NEW a \in Admins, NEW l \in Limiters, Enable(a, l) PROVE EnforcedInv'
  <2>1. InForce(l)'
    <3>1. <<l, limiter[l].rpm>> \in asked
      BY <1>6 DEF Enable, Wiring, AskedInv
    <3>2. limiter'[l].enabled /\ limiter'[l].rpm = limiter[l].rpm /\ asked' = asked
      BY <1>6 DEF Enable, TypeOK, Settings, history
    <3> QED  BY <3>1, <3>2 DEF InForce
  <2>2. \A m \in Limiters : m # l => Stays(m)
    <3>1. \A m \in Limiters : m # l /\ InFlight(m) => InFlight(m)'
      BY <1>6 DEF Enable, InFlight, Wires, TypeOK
    <3>2. \A m \in Limiters : m # l /\ InForce(m) => InForce(m)'
      BY <1>6, LimiterStep DEF Enable, InForce, history
    <3> QED  BY <3>1, <3>2
  <2>3. UNCHANGED <<rules, told>>
    BY <1>6, LimiterStep
  <2> QED  BY <1>K, <2>1, <2>2, <2>3
<1>7. ASSUME Start \/ \E id \in Ids : Listen(id) PROVE EnforcedInv'
  <2>1. UNCHANGED <<call, limiter, asked>>
    BY <1>7 DEF Start, Listen, history
  <2> QED  BY <1>7, <1>K, <1>U, <2>1, SnapshotFacts
<1>8. CASE LoadRule
  <2> DEFINE pr == Persisted[load.done + 1]
  <2>1. call' = call  BY <1>8, LoadFacts
  <2>2. CASE ~Loadable(pr, load.now)
    BY <1>8, <1>K, <1>U, <2>1, <2>2 DEF LoadRule, history
  <2>3. CASE Loadable(pr, load.now)
    <3>1. \A id \in Ids : Kept(id) \/ rules'[id].rule = pr.rule
      BY <1>8, <2>3, LoadedRule DEF TypeOK
    <3>2. \/ UNCHANGED <<limiter, asked>> /\ \A m \in Limiters : ~Wires(pr.rule, m)
          \/ \E l \in Limiters :
                /\ Wires(pr.rule, l)
                /\ limiter' = [limiter EXCEPT ![l].rpm = pr.rule.maxRPM, ![l].enabled = TRUE]
                /\ asked' = asked \cup {<<l, pr.rule.maxRPM>>}
      BY <1>8, <2>3 DEF LoadRule, Asking, history
    <3>3. \A m \in Limiters : InForce(m) \/ Wires(pr.rule, m) => InForce(m)'
      <4>1. CASE \E l \in Limiters :
                /\ Wires(pr.rule, l)
                /\ limiter' = [limiter EXCEPT ![l].rpm = pr.rule.maxRPM, ![l].enabled = TRUE]
                /\ asked' = asked \cup {<<l, pr.rule.maxRPM>>}
        <5>1. PICK l \in Limiters :
                /\ Wires(pr.rule, l)
                /\ limiter' = [limiter EXCEPT ![l].rpm = pr.rule.maxRPM, ![l].enabled = TRUE]
                /\ asked' = asked \cup {<<l, pr.rule.maxRPM>>}
          BY <4>1
        <5>2. limiter'[l].enabled /\ limiter'[l].rpm = pr.rule.maxRPM
          BY <5>1 DEF TypeOK, Settings
        <5>3. \A m \in Limiters : m # l => limiter'[m] = limiter[m] /\ ~Wires(pr.rule, m)
          BY <5>1 DEF Wires, TypeOK
        <5>4. InForce(l)'
          BY <5>1, <5>2 DEF InForce
        <5>5. ASSUME NEW m \in Limiters, m # l, InForce(m) PROVE InForce(m)'
          <6>1. limiter'[m] = limiter[m] /\ asked \subseteq asked'
            BY <5>1, <5>3, <5>5
          <6> QED  BY <5>5, <6>1 DEF InForce
        <5> QED  BY <5>3, <5>4, <5>5
      <4>2. CASE UNCHANGED <<limiter, asked>> /\ \A m \in Limiters : ~Wires(pr.rule, m)
        BY <4>2 DEF InForce
      <4> QED  BY <3>2, <4>1, <4>2
    <3>4. \A m \in Limiters : InFlight(m) => InFlight(m)'
      BY <2>1 DEF InFlight, Wires
    <3> QED  BY <3>1, <3>3, <3>4 DEF EnforcedInv, Wires
  <2> QED  BY <2>2, <2>3
<1>9. CASE Serve \/ Tick
  BY <1>9, <1>K, <1>U DEF Serve, Tick, history
<1>10. CASE Exit
  BY <1>10 DEF Exit, EnforcedInv
<1> QED
  BY <1>1, <1>2, <1>3, <1>4, <1>5, <1>6, <1>7, <1>8, <1>9, <1>10 DEF Next, Refuse

(***************************************************************************)
(* The admin API asks for caps that limit, and the load for what it finds  *)
(* (validateRule; rule_loader.go lines 101-107).                           *)
(***************************************************************************)
LEMMA CapStep == TypeOK /\ CapInv /\ [Next]_vars => CapInv'
<1> SUFFICES ASSUME TypeOK, CapInv, [Next]_vars PROVE CapInv'  OBVIOUS
<1>0. ASSUME NEW l \in Limiters, NEW n, LoadedCap(l, n), load.done <= load'.done PROVE LoadedCap(l, n)'
  <2>1. load.done \in Int /\ (load'.done \in Int \/ load'.done \notin Int)
    BY DEF TypeOK
  <2>2. load' \in [now : Nat, done : 0..Len(Persisted)]
    BY TypeStep DEF TypeOK
  <2>3. \A i \in 1..load.done : i \in 1..load'.done
    BY <1>0, <2>1, <2>2
  <2> QED  BY <1>0, <2>3 DEF LoadedCap, Wires
<1>U. ASSUME load' = load, asked' = asked, phase' = "down" => phase = "down",
             \A a \in Admins : call'[a] = Idle \/ (call[a] # Idle /\ call'[a].rule = call[a].rule)
      PROVE  CapInv'
  BY <1>U DEF CapInv, LoadedCap, Wires
<1>1. CASE UNCHANGED vars
  BY <1>1, <1>U DEF vars
<1>2. ASSUME NEW a \in Admins, NEW c \in Commands, SetRule(a, c) PROVE CapInv'
  <2>1. \A b \in Admins : b # a => call'[b] = call[b]
    BY <1>2 DEF SetRule, TypeOK
  <2>2. call'[a].rule = c.rule /\ (c.rule.action = "throttle" => c.rule.maxRPM > 0)
    BY <1>2 DEF SetRule, Refused, validateRule, TypeOK
  <2>3. UNCHANGED <<load, asked, phase>>
    BY <1>2 DEF SetRule, history
  <2> QED  BY <2>1, <2>2, <2>3 DEF CapInv, LoadedCap, Wires
<1>3. ASSUME NEW a \in Admins, NEW c \in Commands, Remove(a, c) PROVE CapInv'
  BY <1>3, <1>U DEF Remove, history
<1>4. ASSUME NEW a \in Admins, Unwired(a) PROVE CapInv'
  <2>1. \A b \in Admins : call'[b] = Idle \/ call'[b] = call[b]
    BY <1>4 DEF Unwired, TypeOK
  <2>2. UNCHANGED <<load, asked, phase>>
    BY <1>4 DEF Unwired, history
  <2>3. \A b \in Admins : call'[b] = Idle \/ (call[b] # Idle /\ call'[b].rule = call[b].rule)
    BY <2>1
  <2> QED  BY <1>U, <2>2, <2>3
<1>5. ASSUME NEW a \in Admins, NEW l \in Limiters, SetRequestsPerMin(a, l) PROVE CapInv'
  <2>1. call[a] # Idle /\ call[a].rule.maxRPM > 0
    BY <1>5, CallFacts DEF SetRequestsPerMin, CapInv
  <2>2. asked' = asked \cup {<<l, call[a].rule.maxRPM>>}
    BY <1>5 DEF SetRequestsPerMin, Asking
  <2>3. UNCHANGED <<load, phase>> /\ phase # "down"
    BY <1>5, LimiterStep
  <2>4. \A b \in Admins : call'[b] = call[b] \/ (b = a /\ call'[b].rule = call[b].rule)
    BY <1>5, CallFacts DEF SetRequestsPerMin, TypeOK
  <2>5. \A b \in Admins, m \in Limiters :
           call'[b] # Idle /\ Wires(call'[b].rule, m) => call'[b].rule.maxRPM > 0
    BY <2>1, <2>4 DEF CapInv
  <2>6. \A m \in Limiters, n \in Int : <<m, n>> \in asked' => n > 0 \/ LoadedCap(m, n)
    BY <2>1, <2>2 DEF CapInv
  <2> QED  BY <2>3, <2>5, <2>6 DEF CapInv, LoadedCap, Wires
<1>6. ASSUME NEW a \in Admins, NEW l \in Limiters,
             SetThrottleDelay(a, l) \/ SetMaxDelaySlots(a, l) \/ Enable(a, l)
      PROVE  CapInv'
  <2>1. \A b \in Admins : call'[b] = Idle \/ (call[b] # Idle /\ call'[b].rule = call[b].rule)
    <3>1. \A b \in Admins : b # a => call'[b] = call[b]
      BY <1>6 DEF SetThrottleDelay, SetMaxDelaySlots, Enable, TypeOK
    <3>2. call[a] # Idle
      BY <1>6, CallFacts DEF SetThrottleDelay, SetMaxDelaySlots, Enable
    <3>3. call'[a] = Idle \/ call'[a].rule = call[a].rule
      BY <1>6, CallFacts DEF SetThrottleDelay, SetMaxDelaySlots, Enable, TypeOK
    <3> QED  BY <3>1, <3>2, <3>3
  <2>2. asked' = asked
    BY <1>6 DEF SetThrottleDelay, SetMaxDelaySlots, Enable, history
  <2> QED  BY <1>6, <1>U, <2>1, <2>2, LimiterStep
<1>7. CASE Start
  <2>1. asked' = {} /\ call' = call /\ phase' = "loading"
    BY <1>7 DEF Start, CapInv, history
  <2> QED  BY <2>1 DEF CapInv, Wires
<1>8. CASE LoadRule
  <2> DEFINE i == load.done + 1
             pr == Persisted[i]
  <2>1. /\ i \in 1..Len(Persisted) /\ load'.done = i /\ load.done \in Nat
        /\ phase' = "loading" /\ call' = call
    BY <1>8, LoadFacts DEF TypeOK
  <2>2. \A m \in Limiters, n \in Int : <<m, n>> \in asked' =>
           <<m, n>> \in asked \/ (Wires(pr.rule, m) /\ n = pr.rule.maxRPM)
    <3>1. CASE asked' = asked
      BY <3>1
    <3>2. ASSUME NEW l \in Limiters, Wires(pr.rule, l), Asking(pr.rule, l)
          PROVE  \A m \in Limiters, n \in Int : <<m, n>> \in asked' =>
                    <<m, n>> \in asked \/ (Wires(pr.rule, m) /\ n = pr.rule.maxRPM)
      BY <3>2 DEF Asking
    <3> QED  BY <1>8, <3>1, <3>2 DEF LoadRule, history
  <2>3. \A m \in Limiters, n \in Int : Wires(pr.rule, m) /\ n = pr.rule.maxRPM => LoadedCap(m, n)'
    <3>1. i \in 1..load'.done
      BY <2>1
    <3> QED  BY <3>1 DEF LoadedCap, Wires
  <2>4. \A m \in Limiters, n \in Int : LoadedCap(m, n) => LoadedCap(m, n)'
    BY <1>0, <2>1
  <2> QED  BY <2>1, <2>2, <2>3, <2>4 DEF CapInv, Wires
<1>9. ASSUME Serve \/ Tick \/ \E id \in Ids : Listen(id) PROVE CapInv'
  BY <1>9, <1>U DEF Serve, Tick, Listen, history
<1>10. CASE Exit
  BY <1>10 DEF Exit, CapInv
<1> QED
  BY <1>1, <1>2, <1>3, <1>4, <1>5, <1>6, <1>7, <1>8, <1>9, <1>10 DEF Next, Refuse

(***************************************************************************)
(* The load goes through the persisted rules in order, and nothing but the *)
(* listener touches the store before the server listens (rule_loader.go).  *)
(***************************************************************************)
LEMMA LoadStep == TypeOK /\ LoadInv /\ [Next]_vars => LoadInv'
<1> SUFFICES ASSUME TypeOK, LoadInv, [Next]_vars PROVE LoadInv'  OBVIOUS
<1>1. CASE UNCHANGED vars
  BY <1>1 DEF vars, LoadInv, Loadable, Remaining
<1>2. ASSUME NEW a \in Admins, NEW c \in Commands, SetRule(a, c) PROVE LoadInv'
  BY <1>2 DEF SetRule, LoadInv
<1>3. ASSUME NEW a \in Admins, NEW c \in Commands, Remove(a, c) PROVE LoadInv'
  BY <1>3 DEF Remove, LoadInv
<1>4. ASSUME NEW a \in Admins, Unwired(a) PROVE LoadInv'
  BY <1>4, CallFacts DEF Unwired, LoadInv
<1>5. ASSUME NEW a \in Admins, NEW l \in Limiters, SetRequestsPerMin(a, l) PROVE LoadInv'
  BY <1>5, LimiterStep DEF LoadInv
<1>6. ASSUME NEW a \in Admins, NEW l \in Limiters, SetThrottleDelay(a, l) PROVE LoadInv'
  BY <1>6, LimiterStep DEF LoadInv
<1>7. ASSUME NEW a \in Admins, NEW l \in Limiters, SetMaxDelaySlots(a, l) PROVE LoadInv'
  BY <1>7, LimiterStep DEF LoadInv
<1>8. ASSUME NEW a \in Admins, NEW l \in Limiters, Enable(a, l) PROVE LoadInv'
  BY <1>8, LimiterStep DEF LoadInv
<1>9. CASE Start
  BY <1>9, AdminAssumption DEF Start, LoadInv, TypeOK
<1>10. CASE LoadRule
  <2> DEFINE i == load.done + 1
             pr == Persisted[i]
  <2>1. load'.now = load.now /\ load'.done = i /\ clock' = clock /\ phase = "loading"
        /\ i \in Nat /\ pr.id \in Ids
    BY <1>10, LoadFacts DEF TypeOK
  <2>2. CASE ~Loadable(pr, load.now)
    BY <1>10, <2>1, <2>2 DEF LoadRule, LoadInv, TypeOK
  <2>3. CASE Loadable(pr, load.now)
    <3>1. PICK e \in Stored :
             e.loaded = i /\ rules' = [rules EXCEPT ![pr.id] = e] /\ told' = told \ {pr.id}
      BY <1>10, <2>3, LoadedRule
    <3>2. \A id \in Ids : rules'[id] = IF id = pr.id THEN e ELSE rules[id]
      BY <3>1 DEF TypeOK
    <3>3. \A k \in 1..i : Loadable(Persisted[k], load.now) =>
             \/ Persisted[k].id \in told'
             \/ rules'[Persisted[k].id] # NoRule /\ rules'[Persisted[k].id].loaded >= k
      <4> SUFFICES ASSUME NEW k \in 1..i, Loadable(Persisted[k], load.now), Persisted[k].id \notin told'
                   PROVE  rules'[Persisted[k].id] # NoRule /\ rules'[Persisted[k].id].loaded >= k
        OBVIOUS
      <4>1. CASE Persisted[k].id = pr.id
        BY <2>1, <3>1, <3>2, <4>1, AdminAssumption
      <4>2. CASE Persisted[k].id # pr.id
        <5>1. k \in 1..load.done
          BY <2>1, <4>2 DEF TypeOK
        <5>2. rules[Persisted[k].id] # NoRule /\ rules[Persisted[k].id].loaded >= k
          BY <2>1, <3>1, <4>2, <5>1 DEF LoadInv
        <5>3. Persisted[k].id \in Ids
          BY <1>10, <2>1, LoadFacts DEF TypeOK
        <5> QED  BY <3>2, <4>2, <5>2, <5>3
      <4> QED  BY <4>1, <4>2
    <3> QED  BY <2>1, <3>3 DEF LoadInv
  <2> QED  BY <2>2, <2>3
<1>11. CASE Serve
  BY <1>11 DEF Serve, LoadInv
<1>12. CASE Exit
  BY <1>12 DEF Exit, LoadInv
<1>13. CASE Tick
  <2> SUFFICES ASSUME phase = "loading" PROVE LoadInv'
    BY <1>13 DEF Tick, LoadInv
  <2>1. load.now <= clock' /\ clock' <= load.now + MaxLoad
    BY <1>13, AdminAssumption DEF Tick, LoadInv, TypeOK
  <2> QED  BY <1>13, <2>1 DEF Tick, LoadInv
<1>14. ASSUME NEW id \in Ids, Listen(id) PROVE LoadInv'
  <2>1. \A d \in Ids : d \in told' \/ (d \notin told /\ rules'[d] = rules[d])
    BY <1>14 DEF Listen, TypeOK
  <2>2. \A k \in 1..load.done : Persisted[k].id \in Ids
    <3> DEFINE S == [id : Ids, rule : Rule, sound : BOOLEAN, expiresAt : Int]
    <3>1. Persisted \in Seq(S)  BY AdminAssumption
    <3>2. \A e \in S : e.id \in Ids  OBVIOUS
    <3>3. \A k \in 1..load.done : k \in 1..Len(Persisted)
      BY <3>1 DEF TypeOK
    <3> HIDE DEF S
    <3> QED  BY <3>1, <3>2, <3>3, ElementOfSeq
  <2>3. UNCHANGED <<load, clock, phase>>
    BY <1>14 DEF Listen
  <2> QED  BY <2>1, <2>2, <2>3 DEF LoadInv
<1> QED
  BY <1>1, <1>2, <1>3, <1>4, <1>5, <1>6, <1>7, <1>8, <1>9, <1>10, <1>11, <1>12, <1>13, <1>14 DEF Next, Refuse

(***************************************************************************)
(* Whole seconds: what time.Duration.Seconds cut to an integer leaves      *)
(* (rule_loader.go lines 77-78).                                           *)
(***************************************************************************)
LEMMA WholeSeconds ==
    ASSUME NEW x \in Int
    PROVE  /\ x \div Second \in Int
           /\ (x \div Second) * Second \in Int
           /\ (x \div Second) * Second <= x
           /\ x < (x \div Second) * Second + Second
<1>1. Second \in Int /\ Second > 0
  BY AdminAssumption
<1> QED  BY <1>1, Z3

(***************************************************************************)
(* Only the load stores a rule that counts as loaded, and the clock is     *)
(* then at most MaxLoad past the instant the load counts from              *)
(* (rule_loader.go lines 61-93).                                           *)
(***************************************************************************)
LEMMA ReloadStep == TypeOK /\ LoadInv /\ ReloadKeepsExpiry /\ [Next]_vars => ReloadKeepsExpiry'
<1> SUFFICES ASSUME TypeOK, LoadInv, ReloadKeepsExpiry, [Next]_vars PROVE ReloadKeepsExpiry'
  OBVIOUS
<1>1. CASE rules' = rules
  BY <1>1 DEF ReloadKeepsExpiry
<1>2. ASSUME NEW a \in Admins, NEW c \in Commands, SetRule(a, c) PROVE ReloadKeepsExpiry'
  <2>1. \A id \in Ids : rules'[id] = rules[id] \/ rules'[id].loaded = 0
    BY <1>2 DEF SetRule, TypeOK
  <2> QED  BY <2>1 DEF ReloadKeepsExpiry
<1>3. ASSUME NEW a \in Admins, NEW c \in Commands, Remove(a, c) PROVE ReloadKeepsExpiry'
  <2>1. \A id \in Ids : rules'[id] = rules[id] \/ rules'[id] = NoRule
    BY <1>3 DEF Remove, TypeOK
  <2> QED  BY <2>1 DEF ReloadKeepsExpiry
<1>4. CASE LoadRule
  <2> DEFINE i == load.done + 1
             pr == Persisted[i]
  <2>1. CASE ~Loadable(pr, load.now)
    BY <1>1, <1>4, <2>1 DEF LoadRule
  <2>2. CASE Loadable(pr, load.now)
    <3>1. PICK e \in Stored :
             /\ e.loaded = i
             /\ e.expiresAt = clock + Remaining(pr, load.now) * Second
             /\ rules' = [rules EXCEPT ![pr.id] = e]
      BY <1>4, <2>2, LoadedRule
    <3>2. pr \in [id : Ids, rule : Rule, sound : BOOLEAN, expiresAt : Int] /\ phase = "loading"
      BY <1>4, LoadFacts
    <3>3. clock \in Int /\ load.now \in Int /\ load.now <= clock /\ clock <= load.now + MaxLoad
      BY <3>2 DEF LoadInv, TypeOK
    <3>4. /\ Remaining(pr, load.now) * Second \in Int
          /\ Remaining(pr, load.now) * Second <= pr.expiresAt - load.now
          /\ pr.expiresAt - load.now < Remaining(pr, load.now) * Second + Second
      BY <3>2, <3>3, WholeSeconds DEF Remaining
    <3> DEFINE r == Remaining(pr, load.now) * Second
    <3>5. Second \in Int /\ MaxLoad \in Int
      BY AdminAssumption
    <3>6. pr.expiresAt \in Int
      BY <3>2
    <3> HIDE DEF r
    <3>7. pr.expiresAt - Second < clock + r /\ clock + r <= pr.expiresAt + MaxLoad
      <4>1. r \in Int /\ r <= pr.expiresAt - load.now /\ pr.expiresAt - load.now < r + Second
        BY <3>4 DEF r
      <4> QED  BY <3>3, <3>5, <3>6, <4>1
    <3>8. Persisted[e.loaded].expiresAt - Second < e.expiresAt
          /\ e.expiresAt <= Persisted[e.loaded].expiresAt + MaxLoad
      BY <3>1, <3>7 DEF r
    <3>9. \A id \in Ids : rules'[id] = rules[id] \/ rules'[id] = e
      BY <3>1 DEF TypeOK
    <3> QED  BY <3>8, <3>9 DEF ReloadKeepsExpiry
  <2> QED  BY <2>1, <2>2
<1>5. CASE Exit
  <2>1. \A id \in Ids : rules'[id] = NoRule
    BY <1>5 DEF Exit
  <2> QED  BY <2>1 DEF ReloadKeepsExpiry
<1>6. ASSUME Start \/ \E id \in Ids : Listen(id) PROVE ReloadKeepsExpiry'
  <2>1. \A id \in Ids : rules'[id] = NoRule \/ rules'[id].loaded = 0 \/ rules'[id] = rules[id]
    BY <1>6, SnapshotFacts
  <2> QED  BY <2>1 DEF ReloadKeepsExpiry
<1>7. rules' = rules \/ LoadRule \/ Exit \/ Start \/ (\E id \in Ids : Listen(id))
      \/ \E a \in Admins, c \in Commands : SetRule(a, c) \/ Remove(a, c)
  BY DEF Next, vars, Refuse, Unwired, SetRequestsPerMin, SetThrottleDelay, SetMaxDelaySlots, Enable,
         Serve, Tick
<1> QED  BY <1>1, <1>2, <1>3, <1>4, <1>5, <1>6, <1>7

Inv == TypeOK /\ AskedInv /\ AloneInv /\ EnforcedInv /\ CapInv /\ LoadInv /\ ReloadKeepsExpiry

(***************************************************************************)
(* A process that has not started has nothing stored, and every limiter is *)
(* as configured.                                                          *)
(***************************************************************************)
LEMMA InitInv == Init => Inv
<1> SUFFICES ASSUME Init PROVE Inv  OBVIOUS
<1>1. \A a \in Admins : call[a] = Idle /\ call[a].pc = "idle"
  BY DEF Init, Idle
<1>2. \A a \in Admins, l \in Limiters : ~Wiring(a, l)
  BY <1>1 DEF Wiring
<1>3. TypeOK
  <2>1. Len(Persisted) \in Nat /\ MaxStarts \in Nat
    BY AdminAssumption
  <2>2. load \in [now : Nat, done : 0..Len(Persisted)] /\ starts \in 0..MaxStarts /\ clock \in Nat
    BY <2>1 DEF Init, NotLoading
  <2>3. alone \in [Limiters -> [so : BOOLEAN, left : Settings]] /\ limiter \in [Limiters -> Settings]
    BY AdminAssumption DEF Init, Untouched
  <2>4. call \in [Admins -> {Idle} \cup [pc : {"rpm", "delay", "slots", "enable"}, rule : Rule]]
    BY DEF Init
  <2>5. rules \in [Ids -> Stored \cup {NoRule}] /\ asked \subseteq Limiters \X Int /\ told \subseteq Ids
    BY DEF Init
  <2> QED  BY <2>2, <2>3, <2>4, <2>5 DEF TypeOK, Init
<1>4. AskedInv
  BY <1>2 DEF AskedInv, Init
<1>5. AloneInv
  BY <1>2, AdminAssumption DEF AloneInv, Init, Untouched
<1>6. EnforcedInv /\ CapInv /\ LoadInv /\ ReloadKeepsExpiry
  BY <1>1 DEF EnforcedInv, CapInv, LoadInv, ReloadKeepsExpiry, Init
<1> QED  BY <1>3, <1>4, <1>5, <1>6 DEF Inv

-----------------------------------------------------------------------------
(***************************************************************************)
(* The inductive invariant of the admin API and the loader.                *)
(***************************************************************************)
THEOREM Invariance == Spec => []Inv
<1>1. Init => Inv
  BY InitInv
<1>2. Inv /\ [Next]_vars => Inv'
  BY TypeStep, AskedStep, AloneStep, EnforcedStep, CapStep, LoadStep, ReloadStep DEF Inv
<1> QED  BY <1>1, <1>2, PTL DEF Spec

(***************************************************************************)
(* Requests and rules exist only in a process that serves or loads.        *)
(***************************************************************************)
THEOREM TypeCorrect == Spec => []TypeOK
<1>1. Inv => TypeOK  BY DEF Inv
<1> QED  BY <1>1, Invariance, PTL

(***************************************************************************)
(* No limiter the configuration leaves off is ever seen enabled with a     *)
(* limit nobody asked for (handleSetRule; Load).                           *)
(***************************************************************************)
THEOREM NeverEnabledUnset == Spec => []EnabledAsAsked
<1>1. Inv => EnabledAsAsked  BY DEF Inv, AskedInv, EnabledAsAsked
<1> QED  BY <1>1, Invariance, PTL

(***************************************************************************)
(* A set-rule that met no other on its limiter did what is documented.     *)
(***************************************************************************)
THEOREM SetRuleAlone == Spec => []AloneAsDocumented
<1>1. Inv => AloneAsDocumented  BY DEF Inv, AloneInv, AloneAsDocumented
<1> QED  BY <1>1, Invariance, PTL

(***************************************************************************)
(* A live throttle rule of this process has its limiter enabled, with a    *)
(* cap that limits or that PROXY_THROTTLE_RULES gave it, or a goroutine    *)
(* about to enable it; the store may be Firestore's or in memory.          *)
(***************************************************************************)
THEOREM RulesAreEnforced == Spec => []LiveRuleEnforced
<1>1. Inv => LiveRuleEnforced
  <2> SUFFICES ASSUME Inv, NEW id \in Ids, NEW l \in Limiters,
                      Live(rules[id]), Wires(rules[id].rule, l), id \notin told, ~InFlight(l)
               PROVE  limiter[l].enabled /\ (limiter[l].rpm > 0 \/ LoadedCap(l, limiter[l].rpm))
    BY DEF LiveRuleEnforced
  <2>1. InForce(l)
    BY DEF Inv, EnforcedInv, Live
  <2>2. limiter[l].rpm \in Int
    BY DEF Inv, TypeOK, Settings
  <2> QED  BY <2>1, <2>2 DEF Inv, CapInv, InForce
<1> QED  BY <1>1, Invariance, PTL

(***************************************************************************)
(* A restart neither lengthens nor shortens a persisted rule by more than  *)
(* the load's rounding and duration.                                       *)
(***************************************************************************)
THEOREM RestartKeepsExpiry == Spec => []ReloadKeepsExpiry
<1>1. Inv => ReloadKeepsExpiry  BY DEF Inv
<1> QED  BY <1>1, Invariance, PTL

(***************************************************************************)
(* The server listens only once every persisted rule with a second left is *)
(* in the store, or was changed there by the listener.                     *)
(***************************************************************************)
THEOREM ServesAfterLoad == Spec => LoadedBeforeServing
<1> DEFINE A == phase = "loading" /\ phase' = "serving" =>
                  \A i \in 1..Len(Persisted) :
                     Loadable(Persisted[i], load.now) =>
                        \/ Persisted[i].id \in told
                        \/ rules[Persisted[i].id] # NoRule /\ rules[Persisted[i].id].loaded >= i
<1>1. Inv /\ [Next]_vars => [A]_vars
  <2> SUFFICES ASSUME Inv, Next, phase = "loading", phase' = "serving" PROVE A
    BY DEF vars
  <2>1. Serve
    BY CallFacts, LoadFacts DEF Inv, Next, Refuse, SetRule, Remove, Unwired, SetRequestsPerMin, SetThrottleDelay,
          SetMaxDelaySlots, Enable, Start, LoadRule, Exit, Listen, Tick, vars
  <2>2. load.done = Len(Persisted)
    BY <2>1 DEF Serve
  <2> QED  BY <2>2 DEF Inv, LoadInv
<1> QED  BY <1>1, Invariance, PTL DEF Spec, LoadedBeforeServing
=============================================================================
