-------------------------- MODULE RuleStoreProofs --------------------------
(***************************************************************************)
(* Proofs about the in-memory rule store, for every value of its           *)
(* constants: its types, the cap of a throttle rule, that no live rule is  *)
(* lost, and that it implements RuleTable.                                 *)
(***************************************************************************)
EXTENDS RuleStore, TLAPS

-----------------------------------------------------------------------------
(* Type correctness.                                                       *)

LEMMA InitTypeOK == Init => TypeOK
<1> SUFFICES ASSUME Init
             PROVE  TypeOK
  OBVIOUS
<1>1. call \in [Callers -> Call] /\ \A p \in Callers : call[p].pc = "idle"
  BY DEF Init, Call, Idle
<1>2. pending \in [Admins -> {NothingPending} \cup [id : Ids, rule : Rule]]
  BY DEF Init
<1>3. resetting \in [on : BOOLEAN, left : SUBSET Stored] /\ resetting.left = {}
  BY DEF Init, NotResetting
<1>4. QED
  BY <1>1, <1>2, <1>3 DEF Init, TypeOK

\* What an incremented or a reset counter does to a stored rule.
LEMMA CounterType ==
    ASSUME NEW rule \in Rule, NEW n \in Nat
    PROVE  /\ [rule EXCEPT !.currentRPM = n] \in Rule
           /\ [rule EXCEPT !.currentRPM = n].currentRPM = n
           /\ [rule EXCEPT !.currentRPM = n].maxRPM = rule.maxRPM
           /\ [rule EXCEPT !.currentRPM = n].action = rule.action
           /\ [rule EXCEPT !.currentRPM = n].targets = rule.targets
           /\ [rule EXCEPT !.currentRPM = n].expiresAt = rule.expiresAt
           /\ [rule EXCEPT !.currentRPM = n] # NoRule
BY RulesAssumption DEF Rule

LEMMA StepTypeOK == TypeOK /\ [Next]_vars => TypeOK'
<1> SUFFICES ASSUME TypeOK, [Next]_vars
             PROVE  TypeOK'
  OBVIOUS
<1>1. ASSUME NEW p \in Callers, NEW r \in Requests, Begin(p, r)
      PROVE  TypeOK'
  BY <1>1 DEF Begin, TypeOK, Call, Idle, Scanning, Stored, lifecycle, history
<1>2. ASSUME NEW p \in Callers, NEW id \in Ids, Skip(p, id)
      PROVE  TypeOK'
  BY <1>2 DEF Skip, TypeOK, Call, Idle, Stored, lifecycle, history
<1>3. ASSUME NEW p \in Callers, NEW id \in Ids, Decide(p, id)
      PROVE  TypeOK'
  <2>1. /\ call[p] \in [pc : {"scan"}, request : Requests, now : Int, left : SUBSET Ids]
        /\ rules[id] \in Rule
        /\ rules[id] # NoRule
    BY <1>3, RulesAssumption DEF Decide, TypeOK, Call, Idle, Stored
  <2>2. ASSUME NEW verdict \in BOOLEAN, Return(p, verdict)
        PROVE  /\ call' \in [Callers -> Call]
               /\ \A q \in Callers : call'[q].pc = "scan" => call'[q] = call[q]
    BY <2>1, <2>2 DEF Return, Done, TypeOK, Call
  <2>3. WithinCap(rules[id]) \in BOOLEAN
    BY DEF WithinCap
  <2>4. /\ call' \in [Callers -> Call]
        /\ \A q \in Callers : call'[q].pc = "scan" => call'[q] = call[q]
    BY <1>3, <2>2, <2>3 DEF Decide
  <2>5. /\ rules' \in [Ids -> Rule \cup {NoRule}]
        /\ Stored' = Stored
        /\ passed' \in [Ids -> Nat]
    <3>1. CASE UNCHANGED <<rules, passed>>
      BY <3>1 DEF TypeOK, Stored
    <3>2. CASE /\ rules' = [rules EXCEPT ![id].currentRPM = @ + 1]
               /\ passed' = [passed EXCEPT ![id] = IF WithinCap(rules[id]) THEN @ + 1 ELSE @]
      <4>1. rules[id].currentRPM + 1 \in Nat
        BY <2>1 DEF Rule
      <4>2. rules' = [rules EXCEPT ![id] = [rules[id] EXCEPT !.currentRPM = rules[id].currentRPM + 1]]
        BY <3>2
      <4>3. QED
        BY <2>1, <3>2, <4>1, <4>2, CounterType DEF TypeOK, Stored
    <3>3. QED
      BY <1>3, <3>1, <3>2 DEF Decide
  <2>6. QED
    BY <1>3, <2>4, <2>5 DEF Decide, TypeOK, lifecycle
<1>4. ASSUME NEW p \in Callers, NoMatch(p)
      PROVE  TypeOK'
  BY <1>4 DEF NoMatch, Return, Done, TypeOK, Call, Idle, Stored, lifecycle, history
<1>5. ASSUME NEW p \in Callers, Leave(p)
      PROVE  TypeOK'
  BY <1>5 DEF Leave, TypeOK, Call, Idle, Stored, lifecycle, history
<1>6. ASSUME NEW a \in Admins, NEW id \in Ids, SetRuleBegin(a, id)
      PROVE  TypeOK'
  <2>1. PICK act \in Actions, t \in TargetSets, m \in Caps, d \in Durations :
          pending' = [pending EXCEPT ![a] =
             [id |-> id, rule |-> [action |-> act, targets |-> t, maxRPM |-> m,
                                   expiresAt |-> clock + d, currentRPM |-> 0]]]
    BY <1>6 DEF SetRuleBegin
  <2>2. clock + d \in Int
    BY RulesAssumption DEF TypeOK
  <2>3. [action |-> act, targets |-> t, maxRPM |-> m,
         expiresAt |-> clock + d, currentRPM |-> 0] \in Rule
    BY <2>2 DEF Rule
  <2>4. pending' \in [Admins -> {NothingPending} \cup [id : Ids, rule : Rule]]
    BY <2>1, <2>3 DEF TypeOK
  <2>5. QED
    BY <1>6, <2>4 DEF SetRuleBegin, TypeOK, Stored, lifecycle, history
<1>7. ASSUME NEW a \in Admins, SetRuleInsert(a)
      PROVE  TypeOK'
  <2>1. pending[a] \in [id : Ids, rule : Rule]
    BY <1>7 DEF SetRuleInsert, TypeOK
  <2>2. QED
    BY <1>7, <2>1 DEF SetRuleInsert, NoReaders, NotResetting, TypeOK, Stored, lifecycle
<1>8. ASSUME NEW id \in Ids, RemoveRule(id)
      PROVE  TypeOK'
  BY <1>8 DEF RemoveRule, NoReaders, NotResetting, TypeOK, Stored, lifecycle
<1>9. ASSUME RemoveAll
      PROVE  TypeOK'
  BY <1>9 DEF RemoveAll, NoReaders, NotResetting, TypeOK, Stored, lifecycle
<1>10. ASSUME DeleteExpired
       PROVE  TypeOK'
  BY <1>10 DEF DeleteExpired, NoReaders, NotResetting, TypeOK, Stored, lifecycle
<1>11. ASSUME ResetBegin
       PROVE  TypeOK'
  BY <1>11 DEF ResetBegin, TypeOK, Stored, lifecycle, history
<1>12. ASSUME NEW id \in Ids, ResetOne(id)
       PROVE  TypeOK'
  <2>1. rules[id] \in Rule /\ rules[id] # NoRule /\ resetting.on
    BY <1>12, RulesAssumption DEF ResetOne, TypeOK, Stored
  <2>2. rules' = [rules EXCEPT ![id] = [rules[id] EXCEPT !.currentRPM = 0]]
    BY <1>12 DEF ResetOne
  <2>3. [rules[id] EXCEPT !.currentRPM = 0] \in Rule
    BY <2>1, CounterType
  <2>4. rules \in [Ids -> Rule \cup {NoRule}]
    BY DEF TypeOK
  <2>5. rules' \in [Ids -> Rule \cup {NoRule}]
    BY <2>2, <2>3, <2>4
  <2>6. \A x \in Ids : rules'[x] # NoRule <=> rules[x] # NoRule
    <3>1. rules'[id] # NoRule
      BY <2>2, <2>3, <2>4, RulesAssumption
    <3>2. \A x \in Ids \ {id} : rules'[x] = rules[x]
      BY <2>2, <2>4
    <3>3. QED
      BY <2>1, <3>1, <3>2
  <2>7. Stored' = Stored
    BY <2>6 DEF Stored
  <2>8. QED
    BY <1>12, <2>1, <2>5, <2>7 DEF ResetOne, TypeOK, lifecycle
<1>13. ASSUME ResetEnd
       PROVE  TypeOK'
  BY <1>13 DEF ResetEnd, NotResetting, TypeOK, Stored, lifecycle, history
<1>14. ASSUME NEW loop \in {"cleanup", "reset"}, LoopExit(loop)
       PROVE  TypeOK'
  BY <1>14 DEF LoopExit, TypeOK, Stored, history
<1>15. ASSUME Stop
       PROVE  TypeOK'
  BY <1>15 DEF Stop, TypeOK, Stored, history
<1>16. ASSUME Tick
       PROVE  TypeOK'
  BY <1>16 DEF Tick, TypeOK, Stored, lifecycle, history
<1>17. CASE UNCHANGED vars
  BY <1>17 DEF vars, TypeOK, Stored
<1>18. QED
  BY <1>1, <1>2, <1>3, <1>4, <1>5, <1>6, <1>7, <1>8, <1>9, <1>10, <1>11, <1>12, <1>13,
     <1>14, <1>15, <1>16, <1>17 DEF Next, ShouldAllow, Loops

(***************************************************************************)
(* The variables of the store keep their types, and scans and resets visit *)
(* only rules that are in the map: no writer changes it under a reader.    *)
(***************************************************************************)
THEOREM TypeCorrect == Spec => []TypeOK
<1>1. QED
  BY InitTypeOK, StepTypeOK, PTL DEF Spec

-----------------------------------------------------------------------------
(* The cap of a throttle rule.                                             *)

\* Since its last reset a rule let no more requests pass than it counted, nor
\* than its cap; an id without a rule has nothing on record.
PassedRecorded ==
    \A id \in Ids :
        IF rules[id] = NoRule
        THEN passed[id] = 0
        ELSE /\ passed[id] <= rules[id].currentRPM
             /\ passed[id] = 0 \/ passed[id] <= rules[id].maxRPM

LEMMA StepPassedRecorded == TypeOK /\ PassedRecorded /\ [Next]_vars => PassedRecorded'
<1> SUFFICES ASSUME TypeOK, PassedRecorded, [Next]_vars
             PROVE  PassedRecorded'
  OBVIOUS
<1>1. ASSUME rules' = rules, passed' = passed
      PROVE  PassedRecorded'
  BY <1>1 DEF PassedRecorded
<1>2. ASSUME NEW p \in Callers, NEW id \in Ids, Decide(p, id)
      PROVE  PassedRecorded'
  <2>1. CASE UNCHANGED <<rules, passed>>
    BY <1>1, <2>1
  <2>2. CASE /\ rules' = [rules EXCEPT ![id].currentRPM = @ + 1]
             /\ passed' = [passed EXCEPT ![id] = IF WithinCap(rules[id]) THEN @ + 1 ELSE @]
    <3>1. rules[id] \in Rule /\ rules[id] # NoRule
      BY <1>2, RulesAssumption DEF Decide, TypeOK, Stored
    <3>2. rules[id].currentRPM \in Nat /\ rules[id].maxRPM \in Int
      BY <3>1, RulesAssumption DEF Rule
    <3>3. rules' = [rules EXCEPT ![id] = [rules[id] EXCEPT !.currentRPM = rules[id].currentRPM + 1]]
      BY <2>2
    <3>4. /\ rules'[id] # NoRule
          /\ rules'[id].currentRPM = rules[id].currentRPM + 1
          /\ rules'[id].maxRPM = rules[id].maxRPM
      <4>1. rules'[id] = [rules[id] EXCEPT !.currentRPM = rules[id].currentRPM + 1]
        BY <3>3 DEF TypeOK
      <4>2. rules[id].currentRPM + 1 \in Nat
        BY <3>2
      <4>3. QED
        BY <3>1, <4>1, <4>2, CounterType
    <3>5. /\ passed[id] \in Nat
          /\ passed'[id] = IF WithinCap(rules[id]) THEN passed[id] + 1 ELSE passed[id]
      BY <2>2 DEF TypeOK
    <3>6. /\ passed'[id] <= rules'[id].currentRPM
          /\ passed'[id] = 0 \/ passed'[id] <= rules'[id].maxRPM
      BY <3>1, <3>2, <3>4, <3>5 DEF PassedRecorded, WithinCap
    <3>7. \A other \in Ids \ {id} : rules'[other] = rules[other] /\ passed'[other] = passed[other]
      BY <2>2, <3>3 DEF TypeOK
    <3>8. QED
      BY <3>4, <3>6, <3>7 DEF PassedRecorded
  <2>3. QED
    BY <1>2, <2>1, <2>2 DEF Decide
<1>3. ASSUME NEW a \in Admins, SetRuleInsert(a)
      PROVE  PassedRecorded'
  <2>1. /\ pending[a].id \in Ids
        /\ pending[a].rule \in Rule /\ pending[a].rule # NoRule
    BY <1>3, RulesAssumption DEF SetRuleInsert, TypeOK
  <2>2. pending[a].rule.currentRPM \in Nat
    BY <2>1 DEF Rule
  <2>3. QED
    BY <1>3, <2>1, <2>2 DEF SetRuleInsert, PassedRecorded, TypeOK
<1>4. ASSUME NEW id \in Ids, RemoveRule(id)
      PROVE  PassedRecorded'
  BY <1>4 DEF RemoveRule, PassedRecorded, TypeOK
<1>5. ASSUME RemoveAll
      PROVE  PassedRecorded'
  BY <1>5 DEF RemoveAll, PassedRecorded
<1>6. ASSUME DeleteExpired
      PROVE  PassedRecorded'
  BY <1>6 DEF DeleteExpired, PassedRecorded, TypeOK
<1>7. ASSUME NEW id \in Ids, ResetOne(id)
      PROVE  PassedRecorded'
  <2>1. rules[id] \in Rule /\ rules[id] # NoRule
    BY <1>7, RulesAssumption DEF ResetOne, TypeOK, Stored
  <2>2. rules' = [rules EXCEPT ![id] = [rules[id] EXCEPT !.currentRPM = 0]]
    BY <1>7 DEF ResetOne
  <2>3. rules'[id] # NoRule /\ rules'[id].currentRPM = 0 /\ passed'[id] = 0
    <3>1. rules'[id] = [rules[id] EXCEPT !.currentRPM = 0]
      BY <2>2 DEF TypeOK
    <3>2. passed'[id] = 0
      BY <1>7 DEF ResetOne, TypeOK
    <3>3. QED
      BY <2>1, <3>1, <3>2, CounterType
  <2>4. \A other \in Ids \ {id} : rules'[other] = rules[other] /\ passed'[other] = passed[other]
    BY <1>7, <2>2 DEF ResetOne, TypeOK
  <2>5. QED
    BY <2>3, <2>4 DEF PassedRecorded
<1>8. QED
  BY <1>1, <1>2, <1>3, <1>4, <1>5, <1>6, <1>7
     DEF Next, ShouldAllow, Loops, Begin, Skip, NoMatch, Leave, SetRuleBegin, ResetBegin,
         ResetEnd, LoopExit, Stop, Tick, vars, history

(***************************************************************************)
(* Between two resets a throttle rule lets at most MaxRPM requests pass    *)
(* (ShouldAllow, lines 133-134), for any number of requests and readers.   *)
(***************************************************************************)
THEOREM CapHolds == Spec => []ThrottleCap
<1>1. Init => PassedRecorded
  BY DEF Init, PassedRecorded
<1>2. TypeOK /\ PassedRecorded => ThrottleCap
  BY DEF TypeOK, PassedRecorded, ThrottleCap
<1>3. QED
  BY <1>1, <1>2, TypeCorrect, StepPassedRecorded, PTL DEF Spec

-----------------------------------------------------------------------------
(* What was set, and what is in the map.                                   *)

\* A rule about to be inserted is one that the promised table could take.
PendingFresh ==
    /\ clock >= 1
    /\ \A a \in Admins : pending[a] # NothingPending => pending[a].rule \in Promised!Fresh

LEMMA FreshLasts ==
    ASSUME clock \in Nat, clock' \in Nat, clock <= clock'
    PROVE  Promised!Fresh \subseteq Promised!Fresh'
<1>1. 1..clock \subseteq 1..clock'
  OBVIOUS
<1>2. QED
  BY <1>1 DEF Promised!Fresh

LEMMA StepPendingFresh == TypeOK /\ PendingFresh /\ [Next]_vars => PendingFresh'
<1> SUFFICES ASSUME TypeOK, PendingFresh, [Next]_vars
             PROVE  PendingFresh'
  OBVIOUS
<1>1. ASSUME pending' = pending, clock' = clock \/ clock' = clock + 1
      PROVE  PendingFresh'
  <2>1. clock \in Nat /\ clock' \in Nat /\ clock <= clock'
    BY <1>1 DEF TypeOK
  <2>2. QED
    BY <1>1, <2>1, FreshLasts DEF PendingFresh
<1>2. ASSUME NEW a \in Admins, NEW id \in Ids, SetRuleBegin(a, id)
      PROVE  PendingFresh'
  <2>1. PICK act \in Actions, t \in TargetSets, m \in Caps, d \in Durations :
          pending' = [pending EXCEPT ![a] =
             [id |-> id, rule |-> [action |-> act, targets |-> t, maxRPM |-> m,
                                   expiresAt |-> clock + d, currentRPM |-> 0]]]
    BY <1>2 DEF SetRuleBegin
  <2>2. clock' = clock /\ clock \in 1..clock
    BY <1>2 DEF SetRuleBegin, PendingFresh, TypeOK
  <2>3. [action |-> act, targets |-> t, maxRPM |-> m,
         expiresAt |-> clock + d, currentRPM |-> 0] \in Promised!Fresh
    BY <2>2 DEF Promised!Fresh
  <2>4. Promised!Fresh' = Promised!Fresh
    BY <2>2 DEF Promised!Fresh
  <2>5. \A b \in Admins \ {a} : pending'[b] = pending[b]
    BY <2>1 DEF TypeOK
  <2>6. pending'[a].rule \in Promised!Fresh
    BY <2>1, <2>3 DEF TypeOK
  <2>7. QED
    BY <2>2, <2>4, <2>5, <2>6 DEF PendingFresh
<1>3. ASSUME NEW a \in Admins, SetRuleInsert(a)
      PROVE  PendingFresh'
  <2>1. clock' = clock /\ Promised!Fresh' = Promised!Fresh
    BY <1>3 DEF SetRuleInsert, Promised!Fresh
  <2>2. \A b \in Admins : pending'[b] = NothingPending \/ pending'[b] = pending[b]
    BY <1>3 DEF SetRuleInsert, TypeOK
  <2>3. QED
    BY <2>1, <2>2 DEF PendingFresh
<1>4. QED
  BY <1>1, <1>2, <1>3
     DEF Next, ShouldAllow, Loops, Begin, Skip, Decide, NoMatch, Leave, RemoveRule, RemoveAll,
         DeleteExpired, ResetBegin, ResetOne, ResetEnd, LoopExit, Stop, Tick, vars

\* The rule apart from its counter.
Settings(rule) == [rule EXCEPT !.currentRPM = 0]

LEMMA CounterKeepsSettings ==
    ASSUME NEW rule \in Rule, NEW n \in Nat
    PROVE  Settings([rule EXCEPT !.currentRPM = n]) = Settings(rule)
BY DEF Settings, Rule

LEMMA SettingsKeep ==
    ASSUME NEW rule \in Rule
    PROVE  /\ Settings(rule) \in Rule
           /\ Settings(rule).expiresAt = rule.expiresAt
BY DEF Settings, Rule

\* A rule in the map is the one that was set; one that was set and is not in
\* the map has expired, also for every scan under way.
SetRecorded ==
    \A id \in Ids :
        /\ rules[id] # NoRule => Settings(rules[id]) = intended[id]
        /\ rules[id] = NoRule /\ intended[id] # NoRule =>
             /\ Expired(intended[id], clock)
             /\ \A p \in Callers : call[p].pc = "scan" => Expired(intended[id], call[p].now)

LEMMA StepSetRecorded ==
    TypeOK /\ PendingFresh /\ SetRecorded /\ [Next]_vars => SetRecorded'
<1> SUFFICES ASSUME TypeOK, PendingFresh, SetRecorded, [Next]_vars
             PROVE  SetRecorded'
  OBVIOUS
<1>1. ASSUME intended' = intended, clock' = clock \/ clock' = clock + 1,
             \A id \in Ids : rules[id] = NoRule <=> rules'[id] = NoRule,
             \A id \in Ids : rules[id] # NoRule => Settings(rules'[id]) = Settings(rules[id]),
             \A q \in Callers : call'[q].pc = "scan" =>
                 call[q].pc = "scan" /\ call'[q].now = call[q].now
      PROVE  SetRecorded'
  <2>1. ASSUME NEW id \in Ids, rules'[id] = NoRule, intended'[id] # NoRule
        PROVE  /\ Expired(intended'[id], clock')
               /\ \A p \in Callers : call'[p].pc = "scan" => Expired(intended'[id], call'[p].now)
    <3>1. /\ Expired(intended[id], clock)
          /\ \A p \in Callers : call[p].pc = "scan" => Expired(intended[id], call[p].now)
      BY <1>1, <2>1 DEF SetRecorded
    <3>2. intended[id].expiresAt \in Int /\ clock \in Int
      BY <1>1, <2>1 DEF TypeOK, Rule
    <3>3. QED
      BY <1>1, <3>1, <3>2 DEF Expired
  <2>2. QED
    BY <1>1, <2>1 DEF SetRecorded
<1>2. ASSUME NoReaders, call' = call, clock' = clock,
             \A id \in Ids :
                \/ rules'[id] = rules[id] /\ intended'[id] = intended[id]
                \/ rules'[id] # NoRule /\ Settings(rules'[id]) = intended'[id]
                \/ rules'[id] = NoRule /\ intended'[id] = NoRule
                \/ rules'[id] = NoRule /\ Expired(intended'[id], clock)
      PROVE  SetRecorded'
  BY <1>2 DEF SetRecorded, NoReaders
<1>3. ASSUME NEW p \in Callers, NEW r \in Requests, Begin(p, r)
      PROVE  SetRecorded'
  <2>1. rules' = rules /\ intended' = intended /\ clock' = clock
    BY <1>3 DEF Begin, history
  <2>2. \A q \in Callers \ {p} : call'[q] = call[q]
    BY <1>3 DEF Begin, TypeOK
  <2>3. call'[p].now = clock
    BY <1>3 DEF Begin, Scanning, TypeOK
  <2>4. QED
    BY <2>1, <2>2, <2>3 DEF SetRecorded
<1>4. ASSUME NEW p \in Callers, NEW id \in Ids, Skip(p, id)
      PROVE  SetRecorded'
  <2>1. call[p] \in [pc : {"scan"}, request : Requests, now : Int, left : SUBSET Ids]
    BY <1>4 DEF Skip, TypeOK, Call, Idle
  <2>2. \A q \in Callers : call'[q].pc = "scan" =>
          call[q].pc = "scan" /\ call'[q].now = call[q].now
    BY <1>4, <2>1 DEF Skip, TypeOK
  <2>3. rules' = rules /\ intended' = intended /\ clock' = clock
    BY <1>4 DEF Skip, history
  <2>4. QED
    BY <1>1, <2>2, <2>3
<1>5. ASSUME NEW p \in Callers, NEW id \in Ids, Decide(p, id)
      PROVE  SetRecorded'
  <2>1. rules[id] \in Rule /\ rules[id] # NoRule
    BY <1>5, RulesAssumption DEF Decide, TypeOK, Stored
  <2>2. rules[id].currentRPM + 1 \in Nat
    BY <2>1 DEF Rule
  <2>3. \/ rules' = rules
        \/ rules' = [rules EXCEPT ![id] =
                        [rules[id] EXCEPT !.currentRPM = rules[id].currentRPM + 1]]
    BY <1>5 DEF Decide
  <2>4. \A x \in Ids : \/ rules'[x] = rules[x]
                       \/ x = id /\ rules'[x] =
                            [rules[id] EXCEPT !.currentRPM = rules[id].currentRPM + 1]
    BY <2>3 DEF TypeOK
  <2>5. /\ \A x \in Ids : rules[x] = NoRule <=> rules'[x] = NoRule
        /\ \A x \in Ids : rules[x] # NoRule => Settings(rules'[x]) = Settings(rules[x])
    BY <2>1, <2>2, <2>4, CounterType, CounterKeepsSettings
  <2>6. \A q \in Callers : call'[q].pc = "scan" => call'[q] = call[q]
    BY <1>5 DEF Decide, Return, Done, TypeOK
  <2>7. clock' = clock /\ intended' = intended
    BY <1>5 DEF Decide
  <2>8. QED
    BY <1>1, <2>5, <2>6, <2>7
<1>6. ASSUME NEW p \in Callers, NoMatch(p) \/ Leave(p)
      PROVE  SetRecorded'
  <2>1. \A q \in Callers : call'[q].pc = "scan" => call'[q] = call[q]
    BY <1>6 DEF NoMatch, Leave, Return, Done, Idle, TypeOK
  <2>2. rules' = rules /\ intended' = intended /\ clock' = clock
    BY <1>6 DEF NoMatch, Leave, history
  <2>3. QED
    BY <1>1, <2>1, <2>2
<1>7. ASSUME NEW a \in Admins, SetRuleInsert(a)
      PROVE  SetRecorded'
  <2> DEFINE new == pending[a]
  <2>1. new.id \in Ids /\ new.rule \in Rule /\ new.rule # NoRule /\ new.rule.currentRPM = 0
    BY <1>7, RulesAssumption DEF SetRuleInsert, TypeOK, PendingFresh, Promised!Fresh
  <2>2. Settings(new.rule) = new.rule
    BY <2>1 DEF Settings, Rule
  <2>3. /\ NoReaders /\ call' = call /\ clock' = clock
        /\ rules' = [rules EXCEPT ![new.id] = new.rule]
        /\ intended' = [intended EXCEPT ![new.id] = new.rule]
    BY <1>7 DEF SetRuleInsert
  <2> HIDE DEF new
  <2>4. \A id \in Ids : \/ rules'[id] = rules[id] /\ intended'[id] = intended[id]
                        \/ rules'[id] # NoRule /\ Settings(rules'[id]) = intended'[id]
    BY <2>1, <2>2, <2>3 DEF TypeOK
  <2>5. QED
    BY <1>2, <2>3, <2>4
<1>8. ASSUME NEW id \in Ids, RemoveRule(id)
      PROVE  SetRecorded'
  <2>1. \A x \in Ids : \/ rules'[x] = rules[x] /\ intended'[x] = intended[x]
                       \/ rules'[x] = NoRule /\ intended'[x] = NoRule
    BY <1>8 DEF RemoveRule, TypeOK
  <2>2. QED
    BY <1>2, <1>8, <2>1 DEF RemoveRule
<1>9. ASSUME RemoveAll
      PROVE  SetRecorded'
  BY <1>2, <1>9 DEF RemoveAll
<1>10. ASSUME DeleteExpired
       PROVE  SetRecorded'
  <2>1. NoReaders /\ call' = call /\ clock' = clock /\ intended' = intended
    BY <1>10 DEF DeleteExpired
  <2>2. ASSUME NEW id \in Ids
        PROVE  \/ rules'[id] = rules[id]
               \/ rules'[id] = NoRule /\ Expired(intended[id], clock)
    <3>1. CASE rules[id] # NoRule /\ Lapsed(rules[id])
      <4>1. rules[id] \in Rule /\ intended[id] = Settings(rules[id])
        BY <3>1 DEF TypeOK, SetRecorded
      <4>2. intended[id].expiresAt = rules[id].expiresAt
        BY <4>1, SettingsKeep
      <4>3. QED
        BY <1>10, <3>1, <4>2 DEF DeleteExpired, Lapsed, Expired
    <3>2. CASE ~(rules[id] # NoRule /\ Lapsed(rules[id]))
      BY <1>10, <3>2 DEF DeleteExpired
    <3>3. QED
      BY <3>1, <3>2
  <2>3. QED
    BY <1>2, <2>1, <2>2
<1>11. ASSUME NEW id \in Ids, ResetOne(id)
       PROVE  SetRecorded'
  <2>1. rules[id] \in Rule /\ rules[id] # NoRule
    BY <1>11, RulesAssumption DEF ResetOne, TypeOK, Stored
  <2>2. rules' = [rules EXCEPT ![id] = [rules[id] EXCEPT !.currentRPM = 0]]
    BY <1>11 DEF ResetOne
  <2>3. \A x \in Ids : \/ rules'[x] = rules[x]
                       \/ x = id /\ rules'[x] = [rules[id] EXCEPT !.currentRPM = 0]
    BY <2>2 DEF TypeOK
  <2>4. /\ \A x \in Ids : rules[x] = NoRule <=> rules'[x] = NoRule
        /\ \A x \in Ids : rules[x] # NoRule => Settings(rules'[x]) = Settings(rules[x])
    BY <2>1, <2>3, CounterType, CounterKeepsSettings
  <2>5. call' = call /\ clock' = clock /\ intended' = intended
    BY <1>11 DEF ResetOne
  <2>6. QED
    BY <1>1, <2>4, <2>5
<1>12. ASSUME UNCHANGED <<rules, call, intended>>, clock' = clock \/ clock' = clock + 1
       PROVE  SetRecorded'
  BY <1>1, <1>12
<1>13. QED
  BY <1>3, <1>4, <1>5, <1>6, <1>7, <1>8, <1>9, <1>10, <1>11, <1>12
     DEF Next, ShouldAllow, Loops, SetRuleBegin, ResetBegin, ResetEnd, LoopExit, Stop, Tick,
         vars, history

LEMMA SetInvariant == Spec => [](PendingFresh /\ SetRecorded)
<1>1. Init => PendingFresh /\ SetRecorded
  BY DEF Init, PendingFresh, SetRecorded
<1>2. QED
  BY <1>1, TypeCorrect, StepPendingFresh, StepSetRecorded, PTL DEF Spec

(***************************************************************************)
(* A rule that was set, not removed and has not expired is in the map, as  *)
(* it was set: neither background loop loses or alters it.                 *)
(***************************************************************************)
THEOREM LiveRulesKept == Spec => []NoLiveRuleLost
<1>1. SetRecorded => NoLiveRuleLost
  BY DEF SetRecorded, NoLiveRuleLost, Settings
<1>2. QED
  BY <1>1, SetInvariant, PTL

-----------------------------------------------------------------------------
(* Scans.                                                                  *)

\* A scan has passed over no rule that decides its request: the rules it has
\* behind it are still the ones it saw, as far as Decides can tell.
ScanRecorded ==
    \A p \in Callers :
        call[p].pc = "scan" =>
            \A id \in Stored \ call[p].left :
                ~Decides(rules[id], call[p].request, call[p].now)

\* Rules that differ in their counters only decide the same requests.
SameButCounters ==
    /\ Stored' = Stored
    /\ \A id \in Stored : /\ rules'[id].action = rules[id].action
                          /\ rules'[id].targets = rules[id].targets
                          /\ rules'[id].expiresAt = rules[id].expiresAt

LEMMA CounterStep ==
    ASSUME TypeOK, NEW id \in Stored, NEW n \in Nat,
           rules' = [rules EXCEPT ![id] = [rules[id] EXCEPT !.currentRPM = n]]
    PROVE  SameButCounters
<1>1. rules[id] \in Rule /\ rules[id] # NoRule /\ id \in Ids
  BY RulesAssumption DEF TypeOK, Stored
<1>2. rules'[id] = [rules[id] EXCEPT !.currentRPM = n]
  BY <1>1 DEF TypeOK
<1>3. \A other \in Ids \ {id} : rules'[other] = rules[other]
  BY DEF TypeOK
<1>4. QED
  BY <1>1, <1>2, <1>3, CounterType DEF SameButCounters, Stored

LEMMA StepScanRecorded == TypeOK /\ ScanRecorded /\ [Next]_vars => ScanRecorded'
<1> SUFFICES ASSUME TypeOK, ScanRecorded, [Next]_vars
             PROVE  ScanRecorded'
  OBVIOUS
<1>1. ASSUME SameButCounters,
             \A q \in Callers : call'[q].pc = "scan" => call'[q] = call[q]
      PROVE  ScanRecorded'
  BY <1>1 DEF SameButCounters, ScanRecorded, Decides, Expired
<1>2. ASSUME rules' = rules
      PROVE  SameButCounters
  BY <1>2 DEF SameButCounters, Stored
<1>3. ASSUME NoReaders, call' = call
      PROVE  ScanRecorded'
  BY <1>3 DEF NoReaders, ScanRecorded
<1>4. ASSUME NEW p \in Callers, NEW r \in Requests, Begin(p, r)
      PROVE  ScanRecorded'
  <2>1. \A q \in Callers \ {p} : call'[q] = call[q]
    BY <1>4 DEF Begin, TypeOK
  <2>2. call'[p].left = Stored' /\ rules' = rules /\ Stored' = Stored
    BY <1>4 DEF Begin, Scanning, TypeOK, Stored
  <2>3. QED
    BY <2>1, <2>2 DEF ScanRecorded
<1>5. ASSUME NEW p \in Callers, NEW id \in Ids, Skip(p, id)
      PROVE  ScanRecorded'
  <2>1. \A q \in Callers \ {p} : call'[q] = call[q]
    BY <1>5 DEF Skip, TypeOK
  <2>2. rules' = rules /\ Stored' = Stored
    BY <1>5 DEF Skip, Stored
  <2>3. call[p] \in [pc : {"scan"}, request : Requests, now : Int, left : SUBSET Ids]
    BY <1>5 DEF Skip, TypeOK, Call, Idle
  <2>4. /\ call'[p].request = call[p].request /\ call'[p].now = call[p].now
        /\ call'[p].left = call[p].left \ {id}
    BY <1>5, <2>3 DEF Skip, TypeOK
  <2>5. ~Decides(rules[id], call[p].request, call[p].now) /\ call[p].pc = "scan"
    BY <1>5 DEF Skip
  <2>6. QED
    BY <2>1, <2>2, <2>4, <2>5 DEF ScanRecorded
<1>6. ASSUME NEW p \in Callers, NEW id \in Ids, Decide(p, id)
      PROVE  ScanRecorded'
  <2>1. id \in Stored /\ rules[id] \in Rule
    BY <1>6 DEF Decide, TypeOK, Stored
  <2>2. rules[id].currentRPM + 1 \in Nat
    BY <2>1 DEF Rule
  <2>3. \/ rules' = rules
        \/ rules' = [rules EXCEPT ![id] =
                        [rules[id] EXCEPT !.currentRPM = rules[id].currentRPM + 1]]
    BY <1>6 DEF Decide
  <2>4. SameButCounters
    BY <1>2, <2>1, <2>2, <2>3, CounterStep
  <2>5. \A q \in Callers : call'[q].pc = "scan" => call'[q] = call[q]
    BY <1>6 DEF Decide, Return, Done, TypeOK
  <2>6. QED
    BY <1>1, <2>4, <2>5
<1>7. ASSUME NEW p \in Callers, NoMatch(p) \/ Leave(p)
      PROVE  ScanRecorded'
  <2>1. rules' = rules
    BY <1>7 DEF NoMatch, Leave
  <2>2. \A q \in Callers : call'[q].pc = "scan" => call'[q] = call[q]
    BY <1>7 DEF NoMatch, Leave, Return, Done, Idle, TypeOK
  <2>3. QED
    BY <1>1, <1>2, <2>1, <2>2
<1>8. ASSUME NEW id \in Ids, ResetOne(id)
      PROVE  ScanRecorded'
  <2>1. id \in Stored /\ call' = call
    BY <1>8 DEF ResetOne, TypeOK
  <2>2. rules' = [rules EXCEPT ![id] = [rules[id] EXCEPT !.currentRPM = 0]]
    BY <1>8 DEF ResetOne
  <2>3. SameButCounters
    BY <2>1, <2>2, CounterStep
  <2>4. QED
    BY <1>1, <2>1, <2>3
<1>9. ASSUME rules' = rules, call' = call
      PROVE  ScanRecorded'
  BY <1>1, <1>2, <1>9
<1>10. QED
  BY <1>3, <1>4, <1>5, <1>6, <1>7, <1>8, <1>9
     DEF Next, ShouldAllow, Loops, SetRuleBegin, SetRuleInsert, RemoveRule, RemoveAll,
         DeleteExpired, ResetBegin, ResetEnd, LoopExit, Stop, Tick, vars

-----------------------------------------------------------------------------
(* The store implements RuleTable.                                         *)

\* The table, seen through the map.
LEMMA TableOf ==
    ASSUME TypeOK, NEW id \in Ids
    PROVE  /\ rules[id] # NoRule => Table[id] = rules[id]
           /\ rules[id] = NoRule => Table[id] = intended[id]
BY DEF Table

\* A verdict, seen as the answer to a question.
LEMMA ReturnAnswers ==
    ASSUME TypeOK, NEW p \in Callers, call[p].pc = "scan", NEW verdict, Return(p, verdict)
    PROVE  Promised!Answer(p, verdict)
<1>1. /\ Asked[p].request = call[p].request
      /\ Asked[p].now = call[p].now
  BY DEF Asked
<1>2. call' = [call EXCEPT ![p] = Done(call[p].request, call[p].now, verdict)]
  BY DEF Return
<1>3. /\ call'[p] = Done(call[p].request, call[p].now, verdict)
      /\ \A q \in Callers \ {p} : call'[q] = call[q]
  BY <1>2 DEF TypeOK
<1>4. Done(call[p].request, call[p].now, verdict).pc = "done"
  BY DEF Done
<1>5. /\ Asked'[p] = Done(call[p].request, call[p].now, verdict)
      /\ \A q \in Callers \ {p} : Asked'[q] = Asked[q]
  BY <1>3, <1>4 DEF Asked
<1>6. Asked' = [Asked EXCEPT ![p] = Done(call[p].request, call[p].now, verdict)]
  BY <1>5 DEF Asked
<1>7. QED
  BY <1>1, <1>6 DEF Promised!Answer, Done

\* The rule that decides a scan settles the question.
LEMMA DecideSettles ==
    ASSUME TypeOK, NEW p \in Callers, NEW id \in Ids, Decide(p, id)
    PROVE  Promised!Settle(p)
<1>1. /\ call[p].pc = "scan" /\ id \in Stored /\ rules[id] \in Rule /\ rules[id] # NoRule
      /\ Decides(rules[id], call[p].request, call[p].now)
      /\ call[p].now \in Int /\ rules[id].expiresAt \in Int
  BY RulesAssumption DEF Decide, TypeOK, Stored, Call, Idle, Rule
<1>2. /\ Asked[p].pc = "asked"
      /\ Asked[p].request = call[p].request
      /\ Asked[p].now = call[p].now
  BY <1>1 DEF Asked
<1>3. Table[id] = rules[id]
  BY <1>1, TableOf
<1>4. id \in Promised!Deciding(Asked[p].request, Asked[p].now)
  BY <1>1, <1>2, <1>3 DEF Promised!Deciding, Decides, Expired
<1>5. clock' = clock /\ intended' = intended
  BY DEF Decide
<1>6. Promised!SettledBy(p, id)
  <2>1. CASE rules[id].action = "block"
    <3>1. Return(p, FALSE) /\ rules' = rules
      BY <2>1 DEF Decide
    <3>2. Promised!Answer(p, FALSE)
      BY <1>1, <3>1, ReturnAnswers
    <3>3. Table' = Table
      BY <1>5, <3>1 DEF Table
    <3>4. QED
      BY <1>3, <2>1, <3>2, <3>3 DEF Promised!SettledBy
  <2>2. CASE rules[id].action = "allow"
    <3>1. Return(p, TRUE) /\ rules' = rules
      BY <2>2 DEF Decide
    <3>2. Promised!Answer(p, TRUE)
      BY <1>1, <3>1, ReturnAnswers
    <3>3. Table' = Table
      BY <1>5, <3>1 DEF Table
    <3>4. QED
      BY <1>3, <2>2, <3>2, <3>3 DEF Promised!SettledBy
  <2>3. CASE rules[id].action = "throttle"
    <3>1. /\ Return(p, WithinCap(rules[id]))
          /\ rules' = [rules EXCEPT ![id] =
                         [rules[id] EXCEPT !.currentRPM = rules[id].currentRPM + 1]]
      BY <2>3 DEF Decide
    <3>2. rules[id].currentRPM \in Nat /\ rules[id].maxRPM \in Int
      BY <1>1, RulesAssumption DEF Rule
    <3>3. WithinCap(rules[id]) = (Table[id].currentRPM < Table[id].maxRPM)
      BY <1>3, <3>2 DEF WithinCap
    <3>4. Promised!Answer(p, Table[id].currentRPM < Table[id].maxRPM)
      <4>1. Return(p, Table[id].currentRPM < Table[id].maxRPM)
        BY <3>1, <3>3
      <4>2. QED
        BY <1>1, <4>1, ReturnAnswers
    <3>5. /\ rules'[id] = [rules[id] EXCEPT !.currentRPM = rules[id].currentRPM + 1]
          /\ rules'[id] # NoRule
          /\ \A x \in Ids \ {id} : rules'[x] = rules[x]
      <4>1. /\ rules'[id] = [rules[id] EXCEPT !.currentRPM = rules[id].currentRPM + 1]
            /\ \A x \in Ids \ {id} : rules'[x] = rules[x]
        BY <3>1 DEF TypeOK
      <4>2. rules[id].currentRPM + 1 \in Nat
        BY <3>2
      <4>3. rules'[id] # NoRule
        BY <1>1, <4>1, <4>2, CounterType, RulesAssumption
      <4>4. QED
        BY <4>1, <4>3
    <3>6. /\ Table'[id] = [Table[id] EXCEPT !.currentRPM = Table[id].currentRPM + 1]
          /\ \A x \in Ids \ {id} : Table'[x] = Table[x]
      <4>1. Table'[id] = rules'[id]
        BY <3>5 DEF Table
      <4>2. ASSUME NEW x \in Ids \ {id}
            PROVE  Table'[x] = Table[x]
        BY <1>5, <3>5 DEF Table
      <4>3. QED
        BY <1>3, <3>5, <4>1, <4>2
    <3>7. Table' = [Table EXCEPT ![id] =
                      [Table[id] EXCEPT !.currentRPM = Table[id].currentRPM + 1]]
      <4>1. /\ Table' = [x \in Ids |-> Table'[x]]
            /\ Table = [x \in Ids |-> Table[x]]
        BY DEF Table
      <4>2. QED
        BY <3>6, <4>1
    <3>8. QED
      BY <1>3, <2>3, <3>4, <3>7 DEF Promised!SettledBy
  <2>4. QED
    BY <1>1, <2>1, <2>2, <2>3 DEF Decides
<1>7. QED
  BY <1>2, <1>4, <1>5, <1>6 DEF Promised!Settle

\* A scan that found no rule has missed none: what it passed over does not
\* decide, and what the cleanup dropped before it began had expired.
LEMMA NoMatchSettles ==
    ASSUME TypeOK, SetRecorded, ScanRecorded, NEW p \in Callers, NoMatch(p)
    PROVE  Promised!Settle(p)
<1>1. /\ call[p].pc = "scan" /\ call[p].left = {} /\ Return(p, TRUE)
      /\ UNCHANGED <<clock, rules, intended>>
  BY DEF NoMatch, history
<1>2. /\ Asked[p].pc = "asked"
      /\ Asked[p].request = call[p].request
      /\ Asked[p].now = call[p].now
  BY <1>1 DEF Asked
<1>3. ASSUME NEW id \in Promised!Deciding(Asked[p].request, Asked[p].now)
      PROVE  FALSE
  <2>1. /\ id \in Ids /\ Table[id] # NoRule /\ call[p].now < Table[id].expiresAt
        /\ call[p].request \in Table[id].targets
        /\ Table[id].action \in {"block", "allow", "throttle"}
    BY <1>2, <1>3 DEF Promised!Deciding
  <2>2. Table[id] \in Rule
    BY <2>1 DEF TypeOK, Table
  <2>3. ~Expired(Table[id], call[p].now)
    <3>1. call[p].now \in Int
      BY <1>1 DEF TypeOK, Call, Idle
    <3>2. QED
      BY <2>1, <2>2, <3>1 DEF Expired, Rule
  <2>4. CASE rules[id] # NoRule
    BY <1>1, <2>1, <2>3, <2>4, TableOf DEF ScanRecorded, Stored, Decides
  <2>5. CASE rules[id] = NoRule
    BY <1>1, <2>1, <2>3, <2>5, TableOf DEF SetRecorded
  <2>6. QED
    BY <2>4, <2>5
<1>4. Promised!Answer(p, TRUE)
  BY <1>1, ReturnAnswers
<1>5. Table' = Table /\ clock' = clock
  BY <1>1 DEF Table
<1>6. QED
  BY <1>2, <1>3, <1>4, <1>5 DEF Promised!Settle

LEMMA StepRefines ==
    TypeOK /\ PendingFresh /\ SetRecorded /\ ScanRecorded /\ [Next]_vars
        => [Promised!Next]_(Promised!vars)
<1> SUFFICES ASSUME TypeOK, PendingFresh, SetRecorded, ScanRecorded, [Next]_vars
             PROVE  [Promised!Next]_(Promised!vars)
  OBVIOUS
<1>1. ASSUME UNCHANGED <<clock, rules, call, intended>>
      PROVE  UNCHANGED Promised!vars
  BY <1>1 DEF Promised!vars, Table, Asked
<1>2. ASSUME NEW p \in Callers, NEW r \in Requests, Begin(p, r)
      PROVE  Promised!Next
  <2>1. /\ call[p].pc = "idle" /\ UNCHANGED <<clock, rules, intended>>
        /\ call'[p] = Scanning(r, clock, Stored)
        /\ \A q \in Callers \ {p} : call'[q] = call[q]
    BY <1>2 DEF Begin, history, TypeOK
  <2>2. call[p] = Idle
    BY <2>1 DEF TypeOK, Call, Idle
  <2>3. Asked[p] = Promised!Idle
    BY <2>1, <2>2 DEF Asked, Idle, Promised!Idle
  <2>4. /\ Asked'[p] = [pc |-> "asked", request |-> r, now |-> clock]
        /\ \A q \in Callers \ {p} : Asked'[q] = Asked[q]
    BY <2>1 DEF Asked, Scanning
  <2>5. Asked' = [Asked EXCEPT ![p] = [pc |-> "asked", request |-> r, now |-> clock]]
    BY <2>4 DEF Asked
  <2>6. Table' = Table
    BY <2>1 DEF Table
  <2>7. Promised!Ask(p, r)
    BY <2>1, <2>3, <2>5, <2>6 DEF Promised!Ask
  <2>8. QED
    BY <2>7 DEF Promised!Next
<1>3. ASSUME NEW p \in Callers, NEW id \in Ids, Skip(p, id)
      PROVE  UNCHANGED Promised!vars
  <2>1. call[p] \in [pc : {"scan"}, request : Requests, now : Int, left : SUBSET Ids]
    BY <1>3 DEF Skip, TypeOK, Call, Idle
  <2>2. /\ call'[p].pc = "scan" /\ call'[p].request = call[p].request
        /\ call'[p].now = call[p].now /\ call[p].pc = "scan"
        /\ \A q \in Callers \ {p} : call'[q] = call[q]
    BY <1>3, <2>1 DEF Skip, TypeOK
  <2>3. Asked' = Asked
    BY <2>2 DEF Asked
  <2>4. clock' = clock /\ Table' = Table
    BY <1>3 DEF Skip, history, Table
  <2>5. QED
    BY <2>3, <2>4 DEF Promised!vars
<1>4. ASSUME NEW p \in Callers, NEW id \in Ids, Decide(p, id)
      PROVE  Promised!Next
  BY <1>4, DecideSettles DEF Promised!Next
<1>5. ASSUME NEW p \in Callers, NoMatch(p)
      PROVE  Promised!Next
  BY <1>5, NoMatchSettles DEF Promised!Next
<1>6. ASSUME NEW p \in Callers, Leave(p)
      PROVE  Promised!Next
  <2>1. /\ call[p].pc = "done" /\ UNCHANGED <<clock, rules, intended>>
        /\ call'[p] = Idle
        /\ \A q \in Callers \ {p} : call'[q] = call[q]
    BY <1>6 DEF Leave, history, TypeOK
  <2>2. /\ Asked[p].pc = "done" /\ Asked'[p] = Promised!Idle
        /\ \A q \in Callers \ {p} : Asked'[q] = Asked[q]
    BY <2>1 DEF Asked, Idle, Promised!Idle
  <2>3. Asked' = [Asked EXCEPT ![p] = Promised!Idle]
    BY <2>2 DEF Asked
  <2>4. Table' = Table
    BY <2>1 DEF Table
  <2>5. Promised!Leave(p)
    BY <2>1, <2>2, <2>3, <2>4 DEF Promised!Leave
  <2>6. QED
    BY <2>5 DEF Promised!Next
<1>7. ASSUME NEW a \in Admins, SetRuleInsert(a)
      PROVE  Promised!Next
  <2> DEFINE new == pending[a]
  <2>1. new.id \in Ids /\ new.rule # NoRule /\ new.rule \in Promised!Fresh
    BY <1>7, RulesAssumption DEF SetRuleInsert, TypeOK, PendingFresh
  <2>2. /\ UNCHANGED <<clock, call>>
        /\ rules' = [rules EXCEPT ![new.id] = new.rule]
        /\ intended' = [intended EXCEPT ![new.id] = new.rule]
    BY <1>7 DEF SetRuleInsert
  <2> HIDE DEF new
  <2>3. Table' = [Table EXCEPT ![new.id] = new.rule]
    BY <2>1, <2>2 DEF Table, TypeOK
  <2>4. Asked' = Asked
    BY <2>2 DEF Asked
  <2>5. Promised!Set(new.id)
    BY <2>1, <2>2, <2>3, <2>4 DEF Promised!Set
  <2>6. QED
    BY <2>1, <2>5 DEF Promised!Next
<1>8. ASSUME NEW id \in Ids, RemoveRule(id)
      PROVE  Promised!Next
  <2>1. /\ UNCHANGED <<clock, call>>
        /\ rules' = [rules EXCEPT ![id] = NoRule]
        /\ intended' = [intended EXCEPT ![id] = NoRule]
    BY <1>8 DEF RemoveRule
  <2>2. Table' = [Table EXCEPT ![id] = NoRule] /\ Asked' = Asked
    BY <2>1 DEF Table, Asked, TypeOK
  <2>3. Promised!Remove(id)
    BY <2>1, <2>2 DEF Promised!Remove
  <2>4. QED
    BY <2>3 DEF Promised!Next
<1>9. ASSUME RemoveAll
      PROVE  Promised!Next
  <2>1. Table' = [id \in Ids |-> NoRule] /\ Asked' = Asked /\ clock' = clock
    BY <1>9 DEF RemoveAll, Table, Asked
  <2>2. Promised!RemoveAll
    BY <2>1 DEF Promised!RemoveAll
  <2>3. QED
    BY <2>2 DEF Promised!Next
<1>10. ASSUME DeleteExpired
       PROVE  Promised!Next
  <2> DEFINE gone == {id \in Ids : rules[id] # NoRule /\ Lapsed(rules[id])}
  <2>1. /\ UNCHANGED <<clock, call, intended>>
        /\ \A id \in Ids : rules'[id] = IF id \in gone THEN NoRule ELSE rules[id]
    BY <1>10 DEF DeleteExpired
  <2>2. ASSUME NEW id \in Ids
        PROVE  Table'[id] = IF id \in gone /\ Table[id] # NoRule
                            THEN [Table[id] EXCEPT !.currentRPM = 0]
                            ELSE Table[id]
    <3>1. CASE id \in gone
      <4>1. Table[id] = rules[id] /\ rules[id] # NoRule
        BY <3>1, TableOf
      <4>2. Table'[id] = intended[id]
        BY <2>1, <3>1 DEF Table
      <4>3. intended[id] = [rules[id] EXCEPT !.currentRPM = 0]
        BY <4>1 DEF SetRecorded, Settings
      <4>4. QED
        BY <3>1, <4>1, <4>2, <4>3
    <3>2. CASE id \notin gone
      BY <2>1, <3>2 DEF Table
    <3>3. QED
      BY <3>1, <3>2
  <2>3. gone \in SUBSET Ids
    OBVIOUS
  <2>4. Asked' = Asked
    BY <2>1 DEF Asked
  <2> HIDE DEF gone
  <2>5. Table' = [id \in Ids |-> IF id \in gone /\ Table[id] # NoRule
                                 THEN [Table[id] EXCEPT !.currentRPM = 0]
                                 ELSE Table[id]]
    <3>1. DOMAIN Table' = Ids /\ Table' = [id \in Ids |-> Table'[id]]
      BY DEF Table
    <3>2. QED
      BY <2>2, <3>1
  <2>6. Promised!Reset(gone)
    BY <2>1, <2>4, <2>5 DEF Promised!Reset
  <2>7. QED
    BY <2>3, <2>6 DEF Promised!Next
<1>11. ASSUME NEW id \in Ids, ResetOne(id)
       PROVE  Promised!Next
  <2>1. rules[id] \in Rule /\ rules[id] # NoRule
    BY <1>11, RulesAssumption DEF ResetOne, TypeOK, Stored
  <2>2. /\ UNCHANGED <<clock, call, intended>>
        /\ rules' = [rules EXCEPT ![id] = [rules[id] EXCEPT !.currentRPM = 0]]
    BY <1>11 DEF ResetOne
  <2>3. /\ rules'[id] = [rules[id] EXCEPT !.currentRPM = 0]
        /\ rules'[id] # NoRule
        /\ \A x \in Ids \ {id} : rules'[x] = rules[x]
    <3>1. /\ rules'[id] = [rules[id] EXCEPT !.currentRPM = 0]
          /\ \A x \in Ids \ {id} : rules'[x] = rules[x]
      BY <2>2 DEF TypeOK
    <3>2. 0 \in Nat
      OBVIOUS
    <3>3. QED
      BY <2>1, <3>1, <3>2, CounterType
  <2>4. ASSUME NEW x \in Ids
        PROVE  Table'[x] = IF x \in {id} /\ Table[x] # NoRule
                           THEN [Table[x] EXCEPT !.currentRPM = 0]
                           ELSE Table[x]
    BY <2>1, <2>2, <2>3 DEF Table
  <2>5. Table' = [x \in Ids |-> IF x \in {id} /\ Table[x] # NoRule
                                THEN [Table[x] EXCEPT !.currentRPM = 0]
                                ELSE Table[x]]
    <3>1. Table' = [x \in Ids |-> Table'[x]]
      BY DEF Table
    <3>2. QED
      BY <2>4, <3>1
  <2>6. Asked' = Asked
    BY <2>2 DEF Asked
  <2>7. Promised!Reset({id})
    BY <2>2, <2>5, <2>6 DEF Promised!Reset
  <2>8. QED
    BY <2>7 DEF Promised!Next
<1>12. CASE Tick
  <2>1. clock' = clock + 1 /\ Table' = Table /\ Asked' = Asked
    BY <1>12 DEF Tick, history, Table, Asked
  <2>2. QED
    BY <2>1 DEF Promised!Next, Promised!Advance
<1>13. QED
  BY <1>1, <1>2, <1>3, <1>4, <1>5, <1>6, <1>7, <1>8, <1>9, <1>10, <1>11, <1>12
     DEF Next, ShouldAllow, Loops, SetRuleBegin, ResetBegin, ResetEnd, LoopExit, Stop,
         vars, history

(***************************************************************************)
(* The store of the code, which scans a map under a shared lock, drops     *)
(* expired rules in the background and resets counters beside the scans,   *)
(* implements the table that forgets nothing and settles every question at *)
(* one instant, for any number of rules, callers and admins (rules.go,     *)
(* lines 64-193).                                                          *)
(***************************************************************************)
THEOREM Implements == Spec => ImplementsRuleTable
<1>1. Init => Promised!Init
  BY DEF Init, Promised!Init, Table, Asked, Idle, Promised!Idle
<1>2. Init => ScanRecorded
  BY DEF Init, ScanRecorded, Idle
<1>3. QED
  BY <1>1, <1>2, TypeCorrect, SetInvariant, StepScanRecorded, StepRefines, PTL
  DEF Spec, ImplementsRuleTable, Promised!Spec
=============================================================================
