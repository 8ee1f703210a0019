----------------------------- MODULE RuleStore -----------------------------
(***************************************************************************)
(* The in-memory store of dynamic rules, internal/store/rules.go: request  *)
(* goroutines in ShouldAllow, admin goroutines in SetRule, RemoveRule and  *)
(* RemoveAll, the two background loops, and Stop.                          *)
(*                                                                         *)
(* Readers (ShouldAllow and resetAllRPM) hold the read lock and run beside *)
(* one another, one rule at a time; a writer's section is one step, taken  *)
(* when no reader is inside.  Go iterates over a map in no fixed order.    *)
(***************************************************************************)
EXTENDS Integers, FiniteSets

CONSTANTS
    Ids,            \* rule ids
    Requests,       \* requests, each a host and a path
    Callers,        \* goroutines that call ShouldAllow
    Admins,         \* goroutines that call SetRule
    Actions,        \* actions of rules; the startup loader does not validate them
    TargetSets,     \* sets of requests a rule's TargetHost and PathPattern match
    Caps,           \* values of MaxRPM
    Durations,      \* values of DurationSeconds
    NoRule,         \* absence from the map
    MaxTime,        \* bound: last instant of the clock
    MaxCount        \* bound: requests a rule counts between two resets

Rule == [action : Actions, targets : TargetSets, maxRPM : Caps,
         expiresAt : Int, currentRPM : Nat]

ASSUME RulesAssumption ==
    /\ Caps \subseteq Int
    /\ Durations \subseteq Int
    /\ TargetSets \subseteq SUBSET Requests
    /\ MaxTime \in Nat /\ MaxCount \in Nat
    /\ NoRule \notin Rule

VARIABLES
    clock,          \* time.Now()
    rules,          \* s.rules: the rule of an id, or NoRule
    call,           \* call[p]: the state of goroutine p's ShouldAllow
    pending,        \* pending[a]: the rule goroutine a is about to insert
    resetting,      \* whether resetAllRPM runs, and the ids it has still to reset
    stopped,        \* s.stopped; s.stopCh is closed with it
    exited,         \* the background loops that have returned
    passed,         \* history: requests rule id let pass since its last reset
    intended        \* history: the rule the admin last set and did not remove

vars == <<clock, rules, call, pending, resetting, stopped, exited, passed, intended>>
lifecycle == <<stopped, exited>>
history == <<passed, intended>>

NotResetting == [on |-> FALSE, left |-> {}]
Idle == [pc |-> "idle"]
Scanning(r, t, ids) == [pc |-> "scan", request |-> r, now |-> t, left |-> ids]
Done(r, t, verdict) == [pc |-> "done", request |-> r, now |-> t, allowed |-> verdict]
NothingPending == [id |-> NoRule, rule |-> NoRule]

Stored == {id \in Ids : rules[id] # NoRule}

NoReaders ==
    /\ \A p \in Callers : call[p].pc # "scan"
    /\ resetting = NotResetting

Init ==
    /\ clock = 1
    /\ rules = [id \in Ids |-> NoRule]
    /\ call = [p \in Callers |-> Idle]
    /\ pending = [a \in Admins |-> NothingPending]
    /\ resetting = NotResetting
    /\ stopped = FALSE
    /\ exited = {}
    /\ passed = [id \in Ids |-> 0]
    /\ intended = [id \in Ids |-> NoRule]

-----------------------------------------------------------------------------
(* SetRule, RemoveRule, RemoveAll.                                         *)

\* The expiry is computed and the counter zeroed before the lock is taken.
SetRuleBegin(a, id) ==
    /\ pending[a] = NothingPending
    /\ \E act \in Actions, t \in TargetSets, m \in Caps, d \in Durations :
         pending' = [pending EXCEPT ![a] =
            [id |-> id,
             rule |-> [action |-> act, targets |-> t, maxRPM |-> m,
                       expiresAt |-> clock + d, currentRPM |-> 0]]]
    /\ UNCHANGED <<clock, rules, call, resetting, lifecycle, history>>

\* Mutant of SetRuleInsert: the map is written without waiting for the readers.
SetRuleInsert_Unlocked(a) ==
    LET new == pending[a]
    IN  /\ new # NothingPending
        /\ rules' = [rules EXCEPT ![new.id] = new.rule]
        /\ pending' = [pending EXCEPT ![a] = NothingPending]
        /\ passed' = [passed EXCEPT ![new.id] = 0]
        /\ intended' = [intended EXCEPT ![new.id] = new.rule]
        /\ UNCHANGED <<clock, call, resetting, lifecycle>>

SetRuleInsert(a) ==
    LET new == pending[a]
    IN  /\ new # NothingPending
        /\ NoReaders
        /\ rules' = [rules EXCEPT ![new.id] = new.rule]
        /\ pending' = [pending EXCEPT ![a] = NothingPending]
        /\ passed' = [passed EXCEPT ![new.id] = 0]
        /\ intended' = [intended EXCEPT ![new.id] = new.rule]
        /\ UNCHANGED <<clock, call, resetting, lifecycle>>

\* Mutant of RemoveRule: the map is written without waiting for the readers.
RemoveRule_Unlocked(id) ==
    /\ rules[id] # NoRule
    /\ rules' = [rules EXCEPT ![id] = NoRule]
    /\ passed' = [passed EXCEPT ![id] = 0]
    /\ intended' = [intended EXCEPT ![id] = NoRule]
    /\ UNCHANGED <<clock, call, pending, resetting, lifecycle>>

RemoveRule(id) ==
    /\ NoReaders
    /\ rules[id] # NoRule
    /\ rules' = [rules EXCEPT ![id] = NoRule]
    /\ passed' = [passed EXCEPT ![id] = 0]
    /\ intended' = [intended EXCEPT ![id] = NoRule]
    /\ UNCHANGED <<clock, call, pending, resetting, lifecycle>>

RemoveAll ==
    /\ NoReaders
    /\ rules' = [id \in Ids |-> NoRule]
    /\ passed' = [id \in Ids |-> 0]
    /\ intended' = [id \in Ids |-> NoRule]
    /\ UNCHANGED <<clock, call, pending, resetting, lifecycle>>

-----------------------------------------------------------------------------
(* ShouldAllow.                                                            *)

Expired(rule, now) == rule.expiresAt <= now
Decides(rule, r, now) ==
    /\ ~Expired(rule, now)
    /\ r \in rule.targets
    /\ rule.action \in {"block", "allow", "throttle"}

\* RLock, time.Now() and the start of the loop over the map.
Begin(p, r) ==
    /\ call[p].pc = "idle"
    /\ \A id \in Stored : rules[id].currentRPM + Cardinality(Callers) <= MaxCount
    /\ call' = [call EXCEPT ![p] = Scanning(r, clock, Stored)]
    /\ UNCHANGED <<clock, rules, pending, resetting, lifecycle, history>>

\* A rule that has expired, does not match or has no known action is passed over.
Skip(p, id) ==
    /\ call[p].pc = "scan"
    /\ id \in call[p].left
    /\ ~Decides(rules[id], call[p].request, call[p].now)
    /\ call' = [call EXCEPT ![p].left = @ \ {id}]
    /\ UNCHANGED <<clock, rules, pending, resetting, lifecycle, history>>

Return(p, verdict) ==
    call' = [call EXCEPT ![p] = Done(call[p].request, call[p].now, verdict)]

\* Mutant of WithinCap: the counter is compared before it is incremented.
WithinCap_Before(rule) == rule.currentRPM <= rule.maxRPM

\* rule.IncrementRPM() <= int64(rule.MaxRPM), one atomic addition.
WithinCap(rule) == rule.currentRPM + 1 <= rule.maxRPM

\* The first rule that decides settles the verdict.
Decide(p, id) ==
    LET rule == rules[id]
    IN  /\ call[p].pc = "scan"
        /\ id \in call[p].left
        /\ Decides(rule, call[p].request, call[p].now)
        /\ \/ /\ rule.action = "block"
              /\ Return(p, FALSE)
              /\ UNCHANGED <<rules, passed>>
           \/ /\ rule.action = "allow"
              /\ Return(p, TRUE)
              /\ UNCHANGED <<rules, passed>>
           \/ /\ rule.action = "throttle"
              /\ rules' = [rules EXCEPT ![id].currentRPM = @ + 1]
              /\ Return(p, WithinCap(rule))
              /\ passed' = [passed EXCEPT ![id] = IF WithinCap(rule) THEN @ + 1 ELSE @]
        /\ UNCHANGED <<clock, pending, resetting, lifecycle, intended>>

\* The loop ends without a verdict: the request passes.
NoMatch(p) ==
    /\ call[p].pc = "scan"
    /\ call[p].left = {}
    /\ Return(p, TRUE)
    /\ UNCHANGED <<clock, rules, pending, resetting, lifecycle, history>>

Leave(p) ==
    /\ call[p].pc = "done"
    /\ call' = [call EXCEPT ![p] = Idle]
    /\ UNCHANGED <<clock, rules, pending, resetting, lifecycle, history>>

-----------------------------------------------------------------------------
(* The background loops.  A loop whose ticker and stop channel are both    *)
(* ready may take either.                                                  *)

\* Mutant of Lapsed: the cleanup drops a rule in its last second.
Lapsed_Early(rule) == Expired(rule, clock + 1)

Lapsed(rule) == Expired(rule, clock)

DeleteExpired ==
    /\ "cleanup" \notin exited
    /\ NoReaders
    /\ rules' = [id \in Ids |->
                    IF rules[id] # NoRule /\ Lapsed(rules[id]) THEN NoRule ELSE rules[id]]
    /\ passed' = [id \in Ids |-> IF rules'[id] = NoRule THEN 0 ELSE passed[id]]
    /\ UNCHANGED <<clock, call, pending, resetting, lifecycle, intended>>

ResetBegin ==
    /\ "reset" \notin exited
    /\ resetting = NotResetting
    /\ resetting' = [on |-> TRUE, left |-> Stored]
    /\ UNCHANGED <<clock, rules, call, pending, lifecycle, history>>

ResetOne(id) ==
    /\ id \in resetting.left
    /\ rules' = [rules EXCEPT ![id].currentRPM = 0]
    /\ passed' = [passed EXCEPT ![id] = 0]
    /\ resetting' = [resetting EXCEPT !.left = @ \ {id}]
    /\ UNCHANGED <<clock, call, pending, lifecycle, intended>>

ResetEnd ==
    /\ resetting.on /\ resetting.left = {}
    /\ resetting' = NotResetting
    /\ UNCHANGED <<clock, rules, call, pending, lifecycle, history>>

\* Mutant of LoopExit: Stop sends one value instead of closing the channel, and
\* only one of the loops receives it.
LoopExit_FirstOnly(loop) ==
    /\ stopped
    /\ exited = {}
    /\ loop = "reset" => resetting = NotResetting
    /\ exited' = exited \cup {loop}
    /\ UNCHANGED <<clock, rules, call, pending, resetting, stopped, history>>

LoopExit(loop) ==
    /\ stopped
    /\ loop \notin exited
    /\ loop = "reset" => resetting = NotResetting
    /\ exited' = exited \cup {loop}
    /\ UNCHANGED <<clock, rules, call, pending, resetting, stopped, history>>

-----------------------------------------------------------------------------
\* A second call finds stopped set and does nothing.
Stop ==
    /\ NoReaders
    /\ ~stopped
    /\ stopped' = TRUE
    /\ UNCHANGED <<clock, rules, call, pending, resetting, exited, history>>

Tick ==
    /\ clock < MaxTime
    /\ clock' = clock + 1
    /\ UNCHANGED <<rules, call, pending, resetting, lifecycle, history>>

ShouldAllow(p) ==
    \/ \E r \in Requests : Begin(p, r)
    \/ \E id \in Ids : Skip(p, id) \/ Decide(p, id)
    \/ NoMatch(p)
    \/ Leave(p)

Loops ==
    \/ DeleteExpired
    \/ ResetBegin
    \/ \E id \in Ids : ResetOne(id)
    \/ ResetEnd
    \/ \E loop \in {"cleanup", "reset"} : LoopExit(loop)

Next ==
    \/ \E p \in Callers : ShouldAllow(p)
    \/ \E a \in Admins, id \in Ids : SetRuleBegin(a, id)
    \/ \E a \in Admins : SetRuleInsert(a)
    \/ \E id \in Ids : RemoveRule(id)
    \/ RemoveAll
    \/ Loops
    \/ Stop
    \/ Tick

\* Goroutines that can run do: a scan and a reset end, and a loop whose stop
\* channel is closed leaves its select (a ticker fires only now and then, so
\* the stop channel cannot lose the select for ever).
Fairness ==
    /\ \A p \in Callers : WF_vars(call[p].pc = "scan" /\ ShouldAllow(p))
    /\ WF_vars(\E id \in Ids : ResetOne(id))
    /\ WF_vars(ResetEnd)
    /\ \A loop \in {"cleanup", "reset"} : SF_vars(LoopExit(loop))

Spec == Init /\ [][Next]_vars
FairSpec == Spec /\ Fairness

-----------------------------------------------------------------------------
(* What is checked.                                                        *)

\* Where a goroutine is in ShouldAllow.
Call ==
    {Idle}
    \cup [pc : {"scan"}, request : Requests, now : Int, left : SUBSET Ids]
    \cup [pc : {"done"}, request : Requests, now : Int, allowed : BOOLEAN]

(***************************************************************************)
(* The type of every variable; a scan and a reset only visit rules that    *)
(* are in the map.                                                         *)
(***************************************************************************)
TypeOK ==
    /\ clock \in Nat
    /\ rules \in [Ids -> Rule \cup {NoRule}]
    /\ call \in [Callers -> Call]
    /\ \A p \in Callers : call[p].pc = "scan" => call[p].left \subseteq Stored
    /\ pending \in [Admins -> {NothingPending} \cup [id : Ids, rule : Rule]]
    /\ resetting \in [on : BOOLEAN, left : SUBSET Stored]
    /\ ~resetting.on => resetting.left = {}
    /\ stopped \in BOOLEAN
    /\ exited \subseteq {"cleanup", "reset"}
    /\ passed \in [Ids -> Nat]
    /\ intended \in [Ids -> Rule \cup {NoRule}]

(***************************************************************************)
(* Between two resets of its counter a throttle rule lets at most MaxRPM   *)
(* requests pass, with ShouldAllow running in several goroutines and beside *)
(* resetAllRPM under the shared read lock (lines 133-134, 187-193).        *)
(***************************************************************************)
ThrottleCap ==
    \A id \in Ids : rules[id] # NoRule /\ rules[id].maxRPM >= 0
                        => passed[id] <= rules[id].maxRPM

(***************************************************************************)
(* A rule that was set, not removed and not yet expired is in the map, as  *)
(* set: the cleanup loop and the reset loop never lose or alter one        *)
(* (lines 163-193).                                                        *)
(***************************************************************************)
NoLiveRuleLost ==
    \A id \in Ids :
        LET want == intended[id]
        IN  want # NoRule /\ ~Expired(want, clock)
              => /\ rules[id] # NoRule
                 /\ [rules[id] EXCEPT !.currentRPM = 0] = want

\* The rules that could settle request r at instant t.
Candidates(r, t) == {id \in Stored : Decides(rules[id], r, t)}

\* The store as RuleTable sees it: an expired rule that was cleaned up is still
\* in the table, and a scan is a question that is yet to be settled.
Table == [id \in Ids |-> IF rules[id] # NoRule THEN rules[id] ELSE intended[id]]
Asked == [p \in Callers |->
            IF call[p].pc = "scan"
            THEN [pc |-> "asked", request |-> call[p].request, now |-> call[p].now]
            ELSE call[p]]

(***************************************************************************)
(* The store implements the table whose operations are atomic: looking at  *)
(* one rule at a time, cleaning up in the background, resetting counters   *)
(* under the read lock and computing an expiry before taking the lock      *)
(* break no promise of RuleTable.  In particular every verdict follows     *)
(* from a rule that is in the store when it is given, or from there being  *)
(* none that decides the request (ShouldAllow, lines 113-138).             *)
(***************************************************************************)
Promised == INSTANCE RuleTable WITH table <- Table, asked <- Asked

ImplementsRuleTable == Promised!Spec

(***************************************************************************)
(* After Stop both background loops return, also when it comes in the      *)
(* middle of a reset (lines 150-185).                                      *)
(***************************************************************************)
LoopsEnd == stopped ~> exited = {"cleanup", "reset"}

(***************************************************************************)
(* What docs/RATE-LIMITING.md line 255 says of the action block: "drop     *)
(* all".  The rules are visited in the order of a Go map (line 118) and    *)
(* the first match decides, so another matching rule may be met before.    *)
(***************************************************************************)
BlockDropsAll ==
    [][\A p \in Callers :
         call[p].pc = "scan" /\ call'[p].pc = "done" /\ call'[p].allowed
            => \A id \in Candidates(call[p].request, call[p].now) :
                  rules[id].action # "block"]_vars
=============================================================================
