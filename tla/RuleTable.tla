----------------------------- MODULE RuleTable -----------------------------
(***************************************************************************)
(* What a store of dynamic rules promises: a table in which every          *)
(* operation takes effect at one instant and no rule is forgotten.  An     *)
(* expired rule stays in the table, where it decides nothing; there are no *)
(* locks, no scans and no cleanup.                                         *)
(*                                                                         *)
(* A question is settled by any one of the rules that decide it, as of the *)
(* instant it was asked, or passes if there is none.  RuleStore.tla, the   *)
(* mechanism of internal/store/rules.go, is shown to implement this module. *)
(***************************************************************************)
EXTENDS Integers

CONSTANTS
    Ids,            \* rule ids
    Requests,       \* requests, each a host and a path
    Callers,        \* those who ask whether to let a request pass
    Actions,        \* actions of rules
    TargetSets,     \* sets of requests a rule is about
    Caps,           \* requests a throttle rule lets pass between two resets
    Durations,      \* times a rule is valid for
    NoRule          \* an id that has no rule

VARIABLES
    clock,          \* real time
    table,          \* table[id]: the rule last set and not removed, or NoRule
    asked           \* asked[p]: the question of caller p, and the answer to it

vars == <<clock, table, asked>>

Idle == [pc |-> "idle"]

Init ==
    /\ clock = 1
    /\ table = [id \in Ids |-> NoRule]
    /\ asked = [p \in Callers |-> Idle]

-----------------------------------------------------------------------------
(* The table.                                                              *)

\* A rule has counted nothing when it is set, and is valid from some instant
\* before that.
Fresh ==
    {[action |-> act, targets |-> t, maxRPM |-> m, expiresAt |-> from + d, currentRPM |-> 0] :
        act \in Actions, t \in TargetSets, m \in Caps, d \in Durations, from \in 1..clock}

Set(id) ==
    /\ asked' = asked
    /\ \E rule \in Fresh : table' = [table EXCEPT ![id] = rule]
    /\ UNCHANGED clock

Remove(id) ==
    /\ asked' = asked
    /\ table' = [table EXCEPT ![id] = NoRule]
    /\ UNCHANGED clock

RemoveAll ==
    /\ asked' = asked
    /\ table' = [id \in Ids |-> NoRule]
    /\ UNCHANGED clock

\* The counters of some rules start again.
Reset(ids) ==
    /\ asked' = asked
    /\ table' = [id \in Ids |-> IF id \in ids /\ table[id] # NoRule
                                THEN [table[id] EXCEPT !.currentRPM = 0]
                                ELSE table[id]]
    /\ UNCHANGED clock

-----------------------------------------------------------------------------
(* Questions.                                                              *)

Ask(p, r) ==
    /\ asked[p] = Idle
    /\ asked' = [asked EXCEPT ![p] = [pc |-> "asked", request |-> r, now |-> clock]]
    /\ UNCHANGED <<clock, table>>

\* The rules that can settle a question about request r, asked at instant t.
Deciding(r, t) ==
    {id \in Ids : /\ table[id] # NoRule
                  /\ t < table[id].expiresAt
                  /\ r \in table[id].targets
                  /\ table[id].action \in {"block", "allow", "throttle"}}

Answer(p, verdict) ==
    asked' = [asked EXCEPT ![p] = [pc |-> "done", request |-> asked[p].request,
                                   now |-> asked[p].now, allowed |-> verdict]]

\* One rule settles it; a throttle rule counts the request.
SettledBy(p, id) ==
    \/ /\ table[id].action = "block"
       /\ Answer(p, FALSE)
       /\ UNCHANGED table
    \/ /\ table[id].action = "allow"
       /\ Answer(p, TRUE)
       /\ UNCHANGED table
    \/ /\ table[id].action = "throttle"
       /\ Answer(p, table[id].currentRPM < table[id].maxRPM)
       /\ table' = [table EXCEPT ![id].currentRPM = @ + 1]

Settle(p) ==
    /\ asked[p].pc = "asked"
    /\ \/ /\ Deciding(asked[p].request, asked[p].now) = {}
          /\ Answer(p, TRUE)
          /\ UNCHANGED table
       \/ \E id \in Deciding(asked[p].request, asked[p].now) : SettledBy(p, id)
    /\ UNCHANGED clock

Leave(p) ==
    /\ asked[p].pc = "done"
    /\ asked' = [asked EXCEPT ![p] = Idle]
    /\ UNCHANGED <<clock, table>>

Advance ==
    /\ clock' = clock + 1
    /\ UNCHANGED <<table, asked>>

Next ==
    \/ \E p \in Callers : Settle(p) \/ Leave(p) \/ \E r \in Requests : Ask(p, r)
    \/ \E id \in Ids : Set(id) \/ Remove(id)
    \/ RemoveAll
    \/ \E ids \in SUBSET Ids : Reset(ids)
    \/ Advance

Spec == Init /\ [][Next]_vars
=============================================================================
