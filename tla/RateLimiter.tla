---------------------------- MODULE RateLimiter ----------------------------
(***************************************************************************)
(* The per-key rate limiter of internal/ratelimit/limiter.go: the request  *)
(* goroutines that call Allow, the admin goroutines that call the setters, *)
(* and time.  Allow is split where another goroutine can run: the unlocked *)
(* reads of the two settings, the reading of the clock, and the section    *)
(* under the mutex, which is one step.                                     *)
(*                                                                         *)
(* Instants are integers.  0 is Go's zero time, which is before every      *)
(* instant the clock shows.                                                *)
(***************************************************************************)
EXTENDS Integers

CONSTANTS
    Keys,             \* request identities
    Procs,            \* goroutines serving requests
    Limits,           \* values requestsPerMin takes, from the config or an admin
    Window,           \* l.window, one minute in the code
    CleanupInterval,  \* l.cleanupInterval, one minute in the code
    BanDuration,      \* l.banDuration
    NoEntry,          \* absence of a key from l.entries
    MaxStall,         \* bound: time between reading the clock and taking the mutex
    MaxTime           \* bound: last instant of the clock

Zero == 0

Entry == [windowStart : Int, count : Nat, bannedUntil : Int, lastSeen : Int]

ASSUME LimitsAssumption == Limits \subseteq Int
ASSUME TimeAssumption ==
    /\ Window \in Nat \ {0}
    /\ CleanupInterval \in Nat
    /\ BanDuration \in Nat \ {0}
    /\ MaxStall \in Nat
    /\ MaxTime \in Nat
ASSUME NoEntryAssumption == NoEntry \notin Entry

VARIABLES
    clock,            \* what l.now() returns
    enabled,          \* l.enabled
    requestsPerMin,   \* l.requestsPerMin
    entries,          \* l.entries: a record for a key present, else NoEntry
    lastCleanup,      \* l.lastCleanup
    req,              \* req[p]: where goroutine p is in Allow, its key and its `now'
    opened,           \* history: start of the latest window of each key
    counted,          \* history: requests counted in that window
    banEnd            \* history: end of the latest ban of each key

settings == <<enabled, requestsPerMin>>
history == <<opened, counted, banEnd>>
vars == <<clock, enabled, requestsPerMin, entries, lastCleanup, req, opened, counted, banEnd>>

-----------------------------------------------------------------------------
(* The goroutine's place in Allow: "idle" outside it, "limit" between the  *)
(* reads of enabled and requestsPerMin, "time" before reading the clock,   *)
(* "lock" waiting for the mutex.                                           *)

At(step, k, t) == [pc |-> step, key |-> k, now |-> t]
Idle == At("idle", NoEntry, Zero)

Init ==
    /\ clock = 1
    /\ enabled \in BOOLEAN
    /\ requestsPerMin \in Limits
    /\ entries = [k \in Keys |-> NoEntry]
    /\ lastCleanup = clock
    /\ req = [p \in Procs |-> Idle]
    /\ opened = [k \in Keys |-> Zero]
    /\ counted = [k \in Keys |-> 0]
    /\ banEnd = [k \in Keys |-> Zero]

-----------------------------------------------------------------------------
(* Allow.  A request that reads enabled = FALSE is let through at once and *)
(* leaves no trace, so only the other outcome is a step.                   *)

Enter(p, k) ==
    /\ req[p] = Idle
    /\ enabled
    /\ req' = [req EXCEPT ![p] = At("limit", k, Zero)]
    /\ UNCHANGED <<clock, settings, entries, lastCleanup, history>>

ReadLimit(p) ==
    /\ req[p].pc = "limit"
    /\ req' = [req EXCEPT ![p] = IF requestsPerMin <= 0
                                 THEN Idle
                                 ELSE At("time", req[p].key, Zero)]
    /\ UNCHANGED <<clock, settings, entries, lastCleanup, history>>

ReadClock(p) ==
    /\ req[p].pc = "time"
    /\ req' = [req EXCEPT ![p] = At("lock", req[p].key, clock)]
    /\ UNCHANGED <<clock, settings, entries, lastCleanup, history>>

\* Mutants of Idled: a cleanup that ignores the ban, and one that ignores how
\* recently the key was seen.
Idled_IgnoringBan(e, now) == now - e.lastSeen > 2 * Window
Idled_IgnoringLastSeen(e, now) == e.bannedUntil < now

\* cleanupLocked drops a record once its ban has ended and it has been idle
\* for two windows.
Idled(e, now) == e.bannedUntil < now /\ now - e.lastSeen > 2 * Window

CleanupDue(now) == now - lastCleanup >= CleanupInterval

CleanupLocked(now) ==
    [k \in Keys |->
        IF CleanupDue(now) /\ entries[k] # NoEntry /\ Idled(entries[k], now)
        THEN NoEntry
        ELSE entries[k]]

\* Mutant of Touched: a key whose window is over gets a new record, ban and all.
Touched_RenewingOldRecords(k, now) ==
    LET kept == CleanupLocked(now)[k]
    IN  IF kept = NoEntry \/ now - kept.windowStart >= Window
        THEN [windowStart |-> now, count |-> 0, bannedUntil |-> Zero, lastSeen |-> now]
        ELSE [kept EXCEPT !.lastSeen = now]

\* The record of key k after the lookup: found or created, and marked as seen.
Touched(k, now) ==
    LET kept == CleanupLocked(now)[k]
    IN  IF kept = NoEntry
        THEN [windowStart |-> now, count |-> 0, bannedUntil |-> Zero, lastSeen |-> now]
        ELSE [kept EXCEPT !.lastSeen = now]

Banned(e, now) == e.bannedUntil > now

\* Mutants of CountedIn: a budget counted down without a floor, and a new window
\* that does not count the request that opens it.
CountedIn_Downwards(e, now) ==
    IF now - e.windowStart >= Window
    THEN [e EXCEPT !.windowStart = now, !.count = 1]
    ELSE [e EXCEPT !.count = e.count - 1]

CountedIn_FreeOpening(e, now) ==
    IF now - e.windowStart >= Window
    THEN [e EXCEPT !.windowStart = now, !.count = 0]
    ELSE [e EXCEPT !.count = e.count + 1]

\* The record once the request is counted, in a new window if the old is over.
CountedIn(e, now) ==
    IF now - e.windowStart >= Window
    THEN [e EXCEPT !.windowStart = now, !.count = 1]
    ELSE [e EXCEPT !.count = e.count + 1]

\* Mutant of Finish: the time of the last cleanup moves though none was due.
Finish_PostponingCleanup(p, e) ==
    LET r == req[p]
    IN  /\ entries' = [CleanupLocked(r.now) EXCEPT ![r.key] = e]
        /\ lastCleanup' = r.now
        /\ req' = [req EXCEPT ![p] = Idle]
        /\ UNCHANGED <<clock, settings>>

\* What every section under the mutex does: clean up, store the record, return.
Finish(p, e) ==
    LET r == req[p]
    IN  /\ entries' = [CleanupLocked(r.now) EXCEPT ![r.key] = e]
        /\ lastCleanup' = IF CleanupDue(r.now) THEN r.now ELSE lastCleanup
        /\ req' = [req EXCEPT ![p] = Idle]
        /\ UNCHANGED <<clock, settings>>

RejectBanned(p) ==
    LET r == req[p]
        e == Touched(r.key, r.now)
    IN  /\ r.pc = "lock"
        /\ Banned(e, r.now)
        /\ Finish(p, e)
        /\ UNCHANGED history

\* The limit is read again, under the mutex this time; enabled is not.
Admit(p) ==
    LET r == req[p]
        e == CountedIn(Touched(r.key, r.now), r.now)
    IN  /\ r.pc = "lock"
        /\ ~Banned(e, r.now)
        /\ e.count <= requestsPerMin
        /\ Finish(p, e)
        /\ opened' = [opened EXCEPT ![r.key] = e.windowStart]
        /\ counted' = [counted EXCEPT ![r.key] = e.count]
        /\ UNCHANGED banEnd

RejectOverLimit(p) ==
    LET r == req[p]
        e == CountedIn(Touched(r.key, r.now), r.now)
    IN  /\ r.pc = "lock"
        /\ ~Banned(e, r.now)
        /\ e.count > requestsPerMin
        /\ Finish(p, [e EXCEPT !.bannedUntil = r.now + BanDuration])
        /\ opened' = [opened EXCEPT ![r.key] = e.windowStart]
        /\ counted' = [counted EXCEPT ![r.key] = e.count]
        /\ banEnd' = [banEnd EXCEPT ![r.key] = r.now + BanDuration]

-----------------------------------------------------------------------------
(* The admin's setters, each one section under the mutex.                  *)

SetRequestsPerMin(rpm) ==
    /\ requestsPerMin' = rpm
    /\ UNCHANGED <<clock, enabled, entries, lastCleanup, req, history>>

Enable ==
    /\ enabled' = TRUE
    /\ UNCHANGED <<clock, requestsPerMin, entries, lastCleanup, req, history>>

Disable ==
    /\ enabled' = FALSE
    /\ UNCHANGED <<clock, requestsPerMin, entries, lastCleanup, req, history>>

-----------------------------------------------------------------------------
(* Time passes, but no goroutine waits for the mutex longer than MaxStall. *)

Tick ==
    /\ clock < MaxTime
    /\ \A p \in Procs : req[p].pc = "lock" => clock - req[p].now < MaxStall
    /\ clock' = clock + 1
    /\ UNCHANGED <<settings, entries, lastCleanup, req, history>>

Step(p) ==
    \/ \E k \in Keys : Enter(p, k)
    \/ ReadLimit(p)
    \/ ReadClock(p)
    \/ RejectBanned(p)
    \/ Admit(p)
    \/ RejectOverLimit(p)

Next ==
    \/ \E p \in Procs : Step(p)
    \/ \E rpm \in Limits : SetRequestsPerMin(rpm)
    \/ Enable
    \/ Disable
    \/ Tick

Spec == Init /\ [][Next]_vars

-----------------------------------------------------------------------------
(* What is checked and proved.                                             *)

(***************************************************************************)
(* The type of every variable.                                             *)
(***************************************************************************)
Req == [pc : {"idle", "limit", "time", "lock"}, key : Keys \cup {NoEntry}, now : Int]

TypeOK ==
    /\ clock \in Nat \ {0}
    /\ enabled \in BOOLEAN
    /\ requestsPerMin \in Limits
    /\ entries \in [Keys -> Entry \cup {NoEntry}]
    /\ lastCleanup \in Int
    /\ req \in [Procs -> Req]
    /\ \A p \in Procs : req[p].pc # "idle" => req[p].key \in Keys
    /\ opened \in [Keys -> Int]
    /\ counted \in [Keys -> Nat]
    /\ banEnd \in [Keys -> Int]

(***************************************************************************)
(* A ban that still runs is on record: neither cleanupLocked (line 239),   *)
(* called by any goroutine with any earlier reading of the clock, nor a    *)
(* request that read the clock before the ban began, loses or shortens it. *)
(***************************************************************************)
BanRemembered ==
    \A k \in Keys :
        clock < banEnd[k] => /\ entries[k] # NoEntry
                             /\ entries[k].bannedUntil = banEnd[k]

(***************************************************************************)
(* No request of a banned key is counted, let alone admitted, before the   *)
(* ban has ended (Allow, lines 108-110), however long goroutines stall     *)
(* between reading the clock and taking the mutex.                         *)
(***************************************************************************)
BanEnforced ==
    [][\A k \in Keys : clock < banEnd[k]
            => UNCHANGED <<opened[k], counted[k], banEnd[k]>>]_vars

(***************************************************************************)
(* The map does not grow with the keys ever seen: every record has been    *)
(* seen, or has been banned, within two windows of the last cleanup        *)
(* (cleanupLocked, lines 244-248).                                         *)
(***************************************************************************)
IdleEntriesReclaimed ==
    \A k \in Keys :
        entries[k] # NoEntry =>
            \/ entries[k].bannedUntil >= lastCleanup
            \/ lastCleanup - entries[k].lastSeen <= 2 * Window

(***************************************************************************)
(* The mechanism implements the limiter with unbounded memory: dropping    *)
(* records, reading the clock before taking the mutex and reading the      *)
(* settings without it break no promise of WindowLimiter, as long as no    *)
(* goroutine stalls for more than half a window.                           *)
(***************************************************************************)
Promised == INSTANCE WindowLimiter WITH limit <- requestsPerMin, Slack <- MaxStall

ImplementsWindowLimiter == Promised!Spec
=============================================================================
