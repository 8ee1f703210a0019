---------------------------- MODULE AdminControl ----------------------------
(***************************************************************************)
(* The admin API and the startup loader over the rule store and the rate   *)
(* limiters: internal/admin/auth.go and handler.go,                        *)
(* internal/startup/rule_loader.go and the setters of                      *)
(* internal/ratelimit/limiter.go.                                          *)
(*                                                                         *)
(* A set-rule is one call on the store and up to four on a limiter, each   *)
(* under a lock of its own; calls of several admins, requests for the      *)
(* status, the expiry of rules and the end of the process come in between. *)
(* Inside the store and the limiters: RuleStore.tla, RateLimiter.tla,      *)
(* DelaySlots.tla.  The store is in memory, or it is Firestore's: then it  *)
(* starts with what Firestore holds, and its listener changes it while the *)
(* process runs; what arrives when is the subject of FirestoreRules.tla,   *)
(* here it is any of the documents there may be, at any time.  Time is in  *)
(* ticks, Second of them a second.                                         *)
(***************************************************************************)
EXTENDS Integers, Sequences

CONSTANTS
    Admins,         \* goroutines that serve admin requests
    Ids,            \* rule ids
    Limiters,       \* names of the rate limiters
    NoLimiter,      \* a rule that names no limiter, or an unknown one
    Commands,       \* bodies and tokens of the admin requests that arrive
    Persisted,      \* PROXY_THROTTLE_RULES, a sequence
    Synced,         \* whether the store is Firestore's
    Shared,         \* the documents there may be: what any instance has set
    Configured,     \* Configured[l]: the settings of limiter l in the configuration
    NoRule,         \* absence from the store
    Second,         \* ticks in a second
    MaxLoad,        \* longest duration of the startup load
    MaxTime,        \* bound: last instant of the clock
    MaxStarts       \* bound: starts of the process

Actions == {"throttle", "block", "allow"}
Settings == [enabled : BOOLEAN, rpm : Int, delay : Nat, slots : Nat]
Rule == [action : STRING, limiter : Limiters \cup {NoLimiter}, maxRPM : Int, delay : Int, slots : Int]
Stored == [rule : Rule, expiresAt : Int, loaded : Nat]

ASSUME AdminAssumption ==
    /\ NoLimiter \notin Limiters
    /\ NoRule \notin Stored
    /\ Configured \in [Limiters -> Settings]
    /\ Synced \in BOOLEAN
    /\ Shared \subseteq [id : Ids, rule : Rule, expiresAt : Int]
    /\ Second \in Nat \ {0} /\ MaxLoad \in Nat /\ MaxTime \in Nat /\ MaxStarts \in Nat
    /\ \A c \in Commands :
         /\ c.admitted \in BOOLEAN /\ c.host \in BOOLEAN
         /\ c.id \in Ids
         /\ c.rule \in Rule
         /\ c.duration \in Int
    /\ Persisted \in Seq([id : Ids, rule : Rule, sound : BOOLEAN, expiresAt : Int])
    /\ \A i \in 1..Len(Persisted) : Persisted[i].rule.delay = 0 /\ Persisted[i].rule.slots = 0

VARIABLES
    clock,          \* time.Now()
    phase,          \* of the process: "down", "loading", "serving"
    starts,         \* starts so far
    rules,          \* rules[id]: the stored rule, or NoRule
    limiter,        \* limiter[l]: the settings of limiter l
    call,           \* call[a]: the request goroutine a serves
    load,           \* the startup load: the time it began and the rules it has done
    told,           \* history: the ids the listener has changed after this process did
    asked,          \* history: <<limiter, rpm>> that rules of this process asked for
    alone           \* history: alone[l], whether the last set-rule on l was by itself,
                    \* and the settings it leaves then

vars == <<clock, phase, starts, rules, limiter, call, load, told, asked, alone>>
history == <<asked, alone>>

Idle == [pc |-> "idle"]
Untouched == [l \in Limiters |-> [so |-> TRUE, left |-> Configured[l]]]
NotLoading == [now |-> 0, done |-> 0]
Live(s) == s # NoRule /\ s.expiresAt > clock

Init ==
    /\ clock = 1
    /\ phase = "down"
    /\ starts = 0
    /\ rules = [id \in Ids |-> NoRule]
    /\ limiter = Configured
    /\ call = [a \in Admins |-> Idle]
    /\ load = NotLoading
    /\ told = {}
    /\ asked = {}
    /\ alone = Untouched

-----------------------------------------------------------------------------
(* What may be asked.                                                      *)

\* Mutant of validateRule: a throttle rule may have a cap of zero.
validateRule_ZeroCap(c) ==
    /\ c.host
    /\ c.rule.action \in Actions
    /\ c.rule.action = "throttle" => c.rule.maxRPM >= 0
    /\ c.duration > 0

\* validateRule; the host and the id are there or not.
validateRule(c) ==
    /\ c.host
    /\ c.rule.action \in Actions
    /\ c.rule.action = "throttle" => c.rule.maxRPM > 0
    /\ c.duration > 0

\* Whether a rule is to be wired to limiter l.
Wires(rule, l) == rule.action = "throttle" /\ rule.limiter = l /\ l \in Limiters

\* The settings a limiter has after one set-rule by itself.
Wired(s, rule) ==
    [enabled |-> TRUE,
     rpm |-> rule.maxRPM,
     delay |-> IF rule.delay > 0 THEN rule.delay ELSE s.delay,
     slots |-> IF rule.slots > 0 THEN rule.slots ELSE s.slots]

-----------------------------------------------------------------------------
(* POST /admin/control.                                                    *)

\* AdminAuthMiddleware, the decoding of the body and validateRule: a request
\* that fails one of them is answered and leaves no trace.
Refused(c) ==
    \/ ~c.admitted
    \/ c.command \notin {"set-rule", "remove-rule", "remove-all"}
    \/ c.command = "set-rule" /\ ~validateRule(c)

Refuse(a, c) ==
    /\ phase = "serving"
    /\ call[a] = Idle
    /\ Refused(c)
    /\ UNCHANGED vars

\* The store's part of set-rule.
SetRule(a, c) ==
    /\ phase = "serving"
    /\ call[a] = Idle
    /\ c.command = "set-rule" /\ ~Refused(c)
    /\ rules' = [rules EXCEPT ![c.id] = [rule |-> c.rule, expiresAt |-> clock + c.duration * Second,
                                         loaded |-> 0]]
    /\ call' = [call EXCEPT ![a] = [pc |-> "rpm", rule |-> c.rule]]
    /\ told' = told \ {c.id}
    /\ UNCHANGED <<clock, phase, starts, limiter, load, history>>

\* A rule that is not to be wired is answered at once.
Unwired(a) ==
    /\ call[a].pc = "rpm"
    /\ \A l \in Limiters : ~Wires(call[a].rule, l)
    /\ call' = [call EXCEPT ![a] = Idle]
    /\ UNCHANGED <<clock, phase, starts, rules, limiter, load, told, history>>

\* Goroutine a is between its calls on limiter l.
Wiring(a, l) == call[a].pc \in {"delay", "slots", "enable"} /\ Wires(call[a].rule, l)

Asking(rule, l) ==
    /\ asked' = asked \cup {<<l, rule.maxRPM>>}
    /\ alone' = [alone EXCEPT ![l] = [so |-> \A b \in Admins : ~Wiring(b, l),
                                      left |-> Wired(limiter[l], rule)]]

\* Mutant of SetRequestsPerMin: the limiter is enabled before it is set.
SetRequestsPerMin_EnableFirst(a, l) ==
    /\ call[a].pc = "rpm" /\ Wires(call[a].rule, l)
    /\ IF limiter[l].enabled
       THEN /\ limiter' = [limiter EXCEPT ![l].rpm = call[a].rule.maxRPM]
            /\ call' = [call EXCEPT ![a].pc = "delay"]
            /\ Asking(call[a].rule, l)
       ELSE /\ limiter' = [limiter EXCEPT ![l].enabled = TRUE]
            /\ UNCHANGED <<call, history>>
    /\ UNCHANGED <<clock, phase, starts, rules, load, told>>

\* The calls on the limiter, each under its lock.
SetRequestsPerMin(a, l) ==
    /\ call[a].pc = "rpm" /\ Wires(call[a].rule, l)
    /\ limiter' = [limiter EXCEPT ![l].rpm = call[a].rule.maxRPM]
    /\ call' = [call EXCEPT ![a].pc = "delay"]
    /\ Asking(call[a].rule, l)
    /\ UNCHANGED <<clock, phase, starts, rules, load, told>>

\* Mutant of SetThrottleDelay: a rule without a delay takes away the old one.
SetThrottleDelay_Unconditional(a, l) ==
    /\ call[a].pc = "delay" /\ Wires(call[a].rule, l)
    /\ limiter' = [limiter EXCEPT ![l].delay = call[a].rule.delay]
    /\ call' = [call EXCEPT ![a].pc = "slots"]
    /\ UNCHANGED <<clock, phase, starts, rules, load, told, history>>

SetThrottleDelay(a, l) ==
    /\ call[a].pc = "delay" /\ Wires(call[a].rule, l)
    /\ limiter' = [limiter EXCEPT ![l].delay = IF call[a].rule.delay > 0 THEN call[a].rule.delay ELSE @]
    /\ call' = [call EXCEPT ![a].pc = "slots"]
    /\ UNCHANGED <<clock, phase, starts, rules, load, told, history>>

\* Mutant of SetMaxDelaySlots: any number of slots is taken.
SetMaxDelaySlots_Unconditional(a, l) ==
    /\ call[a].pc = "slots" /\ Wires(call[a].rule, l)
    /\ limiter' = [limiter EXCEPT ![l].slots = call[a].rule.slots]
    /\ call' = [call EXCEPT ![a].pc = "enable"]
    /\ UNCHANGED <<clock, phase, starts, rules, load, told, history>>

SetMaxDelaySlots(a, l) ==
    /\ call[a].pc = "slots" /\ Wires(call[a].rule, l)
    /\ limiter' = [limiter EXCEPT ![l].slots = IF call[a].rule.slots > 0 THEN call[a].rule.slots ELSE @]
    /\ call' = [call EXCEPT ![a].pc = "enable"]
    /\ UNCHANGED <<clock, phase, starts, rules, load, told, history>>

Enable(a, l) ==
    /\ call[a].pc = "enable" /\ Wires(call[a].rule, l)
    /\ limiter' = [limiter EXCEPT ![l].enabled = TRUE]
    /\ call' = [call EXCEPT ![a] = Idle]
    /\ UNCHANGED <<clock, phase, starts, rules, load, told, history>>

\* remove-rule (404 when there is none) and remove-all; limiters stay as they are.
Remove(a, c) ==
    /\ phase = "serving"
    /\ call[a] = Idle
    /\ ~Refused(c)
    /\ \/ c.command = "remove-rule" /\ rules' = [rules EXCEPT ![c.id] = NoRule]
       \/ c.command = "remove-all" /\ rules' = [id \in Ids |-> NoRule]
    /\ UNCHANGED <<clock, phase, starts, limiter, call, load, told, history>>

-----------------------------------------------------------------------------
(* The process and the startup loader.                                     *)

\* What the snapshots may say of an id.
Entries(id) ==
    {NoRule} \cup {[rule |-> d.rule, expiresAt |-> d.expiresAt, loaded |-> 0] :
                      d \in {d \in Shared : d.id = id}}

\* The store main begins with: an empty one, or the live rules of the first
\* snapshot.  No limiter is touched for a rule that comes this way.
FirstRules ==
    IF Synced THEN {f \in [Ids -> UNION {Entries(id) : id \in Ids}] :
                      \A id \in Ids : f[id] \in Entries(id) /\ (f[id] = NoRule \/ Live(f[id]))}
              ELSE {[id \in Ids |-> NoRule]}

\* main builds the limiters and the store, and calls Load.
Start ==
    /\ phase = "down"
    /\ starts < MaxStarts
    /\ phase' = "loading"
    /\ starts' = starts + 1
    /\ load' = [now |-> clock, done |-> 0]
    /\ rules' \in FirstRules
    /\ told' = {id \in Ids : rules'[id] # NoRule}
    /\ UNCHANGED <<clock, limiter, call, history>>

\* A change of a snapshot, applied under the lock of the store alone.
Listen(id) ==
    /\ Synced
    /\ phase # "down"
    /\ \E e \in Entries(id) : rules' = [rules EXCEPT ![id] = e]
    /\ told' = told \cup {id}
    /\ UNCHANGED <<clock, phase, starts, limiter, call, load, history>>

\* Whole seconds left of a persisted rule when the load began.
Remaining(pr, now) == (pr.expiresAt - now) \div Second

\* An expiresAt that does not parse, a rule without an id and one with less
\* than a second left are passed over.
Loadable(pr, now) == pr.sound /\ pr.expiresAt > now /\ Remaining(pr, now) > 0

\* Mutant of LoadRule: the time that is left is rounded up.
LoadRule_RoundedUp ==
    LET i == load.done + 1
        pr == Persisted[i]
    IN  /\ phase = "loading" /\ load.done < Len(Persisted)
        /\ load' = [load EXCEPT !.done = i]
        /\ rules' = IF pr.sound /\ pr.expiresAt > load.now
                    THEN [rules EXCEPT ![pr.id] =
                             [rule |-> pr.rule, loaded |-> i,
                              expiresAt |-> clock + (Remaining(pr, load.now) + 1) * Second]]
                    ELSE rules
        /\ UNCHANGED <<clock, phase, starts, limiter, call, told, history>>

\* One persisted rule; nothing checks its action or its cap, and a delay or a
\* number of slots it does not have.
LoadRule ==
    LET i == load.done + 1
        pr == Persisted[i]
    IN  /\ phase = "loading" /\ load.done < Len(Persisted)
        /\ load' = [load EXCEPT !.done = i]
        /\ IF Loadable(pr, load.now)
           THEN /\ rules' = [rules EXCEPT ![pr.id] =
                               [rule |-> pr.rule, loaded |-> i,
                                expiresAt |-> clock + Remaining(pr, load.now) * Second]]
                /\ told' = told \ {pr.id}
                /\ \/ /\ \A l \in Limiters : ~Wires(pr.rule, l)
                      /\ UNCHANGED <<limiter, history>>
                   \/ \E l \in Limiters :
                         /\ Wires(pr.rule, l)
                         /\ limiter' = [limiter EXCEPT ![l].rpm = pr.rule.maxRPM, ![l].enabled = TRUE]
                         /\ Asking(pr.rule, l)
           ELSE UNCHANGED <<rules, limiter, told, history>>
        /\ UNCHANGED <<clock, phase, starts, call>>

\* Mutant of Serve: the server listens while the rules are loaded.
Serve_Early ==
    /\ phase = "loading"
    /\ phase' = "serving"
    /\ UNCHANGED <<clock, starts, rules, limiter, call, load, told, history>>

\* Only then does the server listen.
Serve ==
    /\ phase = "loading" /\ load.done = Len(Persisted)
    /\ phase' = "serving"
    /\ UNCHANGED <<clock, starts, rules, limiter, call, load, told, history>>

\* The process ends, wherever its goroutines are; store and settings go with it.
Exit ==
    /\ phase # "down"
    /\ phase' = "down"
    /\ rules' = [id \in Ids |-> NoRule]
    /\ limiter' = Configured
    /\ call' = [a \in Admins |-> Idle]
    /\ load' = NotLoading
    /\ told' = {}
    /\ asked' = {}
    /\ alone' = Untouched
    /\ UNCHANGED <<clock, starts>>

Tick ==
    /\ clock < MaxTime
    /\ phase = "loading" => clock < load.now + MaxLoad
    /\ clock' = clock + 1
    /\ UNCHANGED <<phase, starts, rules, limiter, call, load, told, history>>

Next ==
    \/ \E a \in Admins :
         \/ \E c \in Commands : Refuse(a, c) \/ SetRule(a, c) \/ Remove(a, c)
         \/ Unwired(a)
         \/ \E l \in Limiters :
              SetRequestsPerMin(a, l) \/ SetThrottleDelay(a, l) \/ SetMaxDelaySlots(a, l) \/ Enable(a, l)
    \/ Start \/ LoadRule \/ Serve \/ Exit
    \/ \E id \in Ids : Listen(id)
    \/ Tick

Spec == Init /\ [][Next]_vars

-----------------------------------------------------------------------------
(* What is checked.                                                        *)

(***************************************************************************)
(* The type of every variable; requests are served, and rules are there,   *)
(* only while the process runs.                                            *)
(***************************************************************************)
TypeOK ==
    /\ clock \in Nat
    /\ phase \in {"down", "loading", "serving"}
    /\ starts \in 0..MaxStarts
    /\ rules \in [Ids -> Stored \cup {NoRule}]
    /\ limiter \in [Limiters -> Settings]
    /\ call \in [Admins -> {Idle} \cup [pc : {"rpm", "delay", "slots", "enable"}, rule : Rule]]
    /\ load \in [now : Nat, done : 0..Len(Persisted)]
    /\ told \subseteq Ids
    /\ asked \subseteq Limiters \X Int
    /\ alone \in [Limiters -> [so : BOOLEAN, left : Settings]]
    /\ phase # "serving" => call = [a \in Admins |-> Idle]
    /\ phase = "down" => rules = [id \in Ids |-> NoRule] /\ limiter = Configured

(***************************************************************************)
(* A limiter that the configuration leaves off is never seen enabled with  *)
(* a limit no rule of this process asked for: every path that enables it   *)
(* sets its limit first, with requests served in between (handleSetRule,   *)
(* handler.go lines 62-73; Load, rule_loader.go lines 102-107).            *)
(***************************************************************************)
EnabledAsAsked ==
    \A l \in Limiters :
        limiter[l].enabled /\ ~Configured[l].enabled => <<l, limiter[l].rpm>> \in asked

(***************************************************************************)
(* A set-rule that met no other on its limiter has exactly the documented  *)
(* effect there, however removals, other limiters' rules, restarts and     *)
(* expiries are interleaved with its calls; only overlapping set-rules can *)
(* leave a mixture (handler.go lines 62-73, each call with its own lock).  *)
(***************************************************************************)
AloneAsDocumented ==
    \A l \in Limiters :
        alone[l].so /\ (\A a \in Admins : ~Wiring(a, l)) => limiter[l] = alone[l].left

\* A goroutine has stored a rule for l and not yet come to the end of its calls.
InFlight(l) == \E a \in Admins : call[a] # Idle /\ Wires(call[a].rule, l)

\* The load has given l the cap n, which nothing has validated.
LoadedCap(l, n) ==
    \E i \in 1..load.done : Wires(Persisted[i].rule, l) /\ Persisted[i].rule.maxRPM = n

(***************************************************************************)
(* While a throttle rule that this process set or loaded, and the listener *)
(* has not changed since, names a limiter, that limiter is enabled, unless *)
(* a set-rule for it is still on its way; and whatever several admins and  *)
(* the load did to it, its cap is one that limits, or one of               *)
(* PROXY_THROTTLE_RULES as it stands there (handler.go lines 54-73 and     *)
(* validateRule; rule_loader.go lines 93-107).                             *)
(***************************************************************************)
LiveRuleEnforced ==
    \A id \in Ids, l \in Limiters :
        Live(rules[id]) /\ Wires(rules[id].rule, l) /\ id \notin told =>
            \/ InFlight(l)
            \/ limiter[l].enabled /\ (limiter[l].rpm > 0 \/ LoadedCap(l, limiter[l].rpm))

(***************************************************************************)
(* A rule that a start took from PROXY_THROTTLE_RULES ends less than a     *)
(* second before the instant it was persisted with, and no later than it   *)
(* by more than the load took: the whole seconds that were left when the   *)
(* load began are counted from the moment the rule is stored               *)
(* (rule_loader.go lines 61-93).                                           *)
(***************************************************************************)
ReloadKeepsExpiry ==
    \A id \in Ids :
        rules[id] # NoRule /\ rules[id].loaded > 0 =>
            LET at == Persisted[rules[id].loaded].expiresAt
            IN  at - Second < rules[id].expiresAt /\ rules[id].expiresAt <= at + MaxLoad

(***************************************************************************)
(* Before the first request is served every persisted rule that had a      *)
(* second or more left is in the store, the last of an id winning, unless  *)
(* the listener has changed that id meanwhile, so that a new instance      *)
(* starts without a gap (Load, rule_loader.go lines 64-110, called before  *)
(* ListenAndServe).                                                        *)
(***************************************************************************)
LoadedBeforeServing ==
    [][phase = "loading" /\ phase' = "serving" =>
         \A i \in 1..Len(Persisted) :
            Loadable(Persisted[i], load.now) =>
               \/ Persisted[i].id \in told
               \/ rules[Persisted[i].id] # NoRule /\ rules[Persisted[i].id].loaded >= i]_vars
=============================================================================
