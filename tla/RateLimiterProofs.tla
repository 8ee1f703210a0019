------------------------- MODULE RateLimiterProofs -------------------------
(***************************************************************************)
(* Proofs about the rate limiter, for every value of its constants: its    *)
(* types, that a running ban is remembered and enforced, that idle records *)
(* are reclaimed, that the mechanism implements WindowLimiter, and what a  *)
(* client gets in any stretch of time.                                     *)
(***************************************************************************)
EXTENDS RateLimiterRolling, FiniteSetTheorems, TLAPS

\* What a goroutine waiting for the mutex knows: a recent reading of the clock.
Sampled ==
    \A p \in Procs :
        req[p].pc = "lock" => /\ req[p].now >= 1
                              /\ req[p].now <= clock
                              /\ clock - req[p].now <= MaxStall

\* How the ban a record holds relates to the latest ban of its key.  A record
\* created after a cleanup holds none, and then the latest ban is over.
BanRecorded ==
    \A k \in Keys :
        IF entries[k] = NoEntry
        THEN banEnd[k] <= clock
        ELSE \/ entries[k].bannedUntil = banEnd[k]
             \/ entries[k].bannedUntil = Zero /\ banEnd[k] <= clock

BanInv == TypeOK /\ Sampled /\ BanRecorded

-----------------------------------------------------------------------------
(* What the section under the mutex stores.                                *)

LEMMA CleanupType ==
    ASSUME TypeOK, NEW now \in Int
    PROVE  CleanupLocked(now) \in [Keys -> Entry \cup {NoEntry}]
BY DEF TypeOK, CleanupLocked

LEMMA TouchedType ==
    ASSUME TypeOK, NEW k \in Keys, NEW now \in Int
    PROVE  /\ Touched(k, now) \in Entry
           /\ Touched(k, now).lastSeen = now
<1>1. CleanupLocked(now)[k] \in Entry \cup {NoEntry}
  BY CleanupType
<1>2. QED
  BY <1>1, NoEntryAssumption DEF Touched, Entry, Zero

LEMMA CountedInType ==
    ASSUME NEW e \in Entry, NEW now \in Int
    PROVE  /\ CountedIn(e, now) \in Entry
           /\ CountedIn(e, now).bannedUntil = e.bannedUntil
           /\ CountedIn(e, now).lastSeen = e.lastSeen
<1>1. CASE now - e.windowStart >= Window
  <2>1. CountedIn(e, now) = [windowStart |-> now, count |-> 1,
                             bannedUntil |-> e.bannedUntil, lastSeen |-> e.lastSeen]
    BY <1>1 DEF CountedIn, Entry
  <2>2. QED
    BY <2>1 DEF Entry
<1>2. CASE ~(now - e.windowStart >= Window)
  <2>1. CountedIn(e, now) = [e EXCEPT !.count = e.count + 1]
    BY <1>2 DEF CountedIn
  <2>2. QED
    BY <2>1 DEF Entry
<1>3. QED
  BY <1>1, <1>2

\* Cleaning up and storing the record of one key, seen from the other keys.
LEMMA FinishEntries ==
    ASSUME TypeOK, NEW p \in Procs, req[p].key \in Keys, NEW e \in Entry, Finish(p, e),
           NEW k \in Keys
    PROVE  entries'[k] = IF k = req[p].key THEN e ELSE CleanupLocked(req[p].now)[k]
<1>1. req[p].now \in Int
  BY DEF TypeOK, Req
<1>2. CleanupLocked(req[p].now) \in [Keys -> Entry \cup {NoEntry}]
  BY <1>1, CleanupType
<1>3. QED
  BY <1>2 DEF Finish

-----------------------------------------------------------------------------
(* Type correctness.                                                       *)

LEMMA InitTypeOK == Init => TypeOK
BY LimitsAssumption DEF Init, TypeOK, Req, Idle, At, Zero

LEMMA FinishTypeOK ==
    ASSUME TypeOK, NEW p \in Procs, req[p].key \in Keys, NEW e \in Entry, Finish(p, e)
    PROVE  /\ clock' \in Nat \ {0}
           /\ enabled' \in BOOLEAN
           /\ requestsPerMin' \in Limits
           /\ entries' \in [Keys -> Entry \cup {NoEntry}]
           /\ lastCleanup' \in Int
           /\ req' \in [Procs -> Req]
           /\ \A q \in Procs : req'[q].pc # "idle" => req'[q].key \in Keys
<1>1. req[p].now \in Int
  BY DEF TypeOK, Req
<1>2. entries' \in [Keys -> Entry \cup {NoEntry}]
  <2>1. CleanupLocked(req[p].now) \in [Keys -> Entry \cup {NoEntry}]
    BY <1>1, CleanupType
  <2>2. QED
    BY <2>1 DEF Finish
<1>3. Idle \in Req /\ Idle.pc = "idle"
  BY DEF Idle, At, Req, Zero
<1>4. /\ req' \in [Procs -> Req]
      /\ \A q \in Procs : req'[q].pc # "idle" => req'[q].key \in Keys
  BY <1>3 DEF Finish, TypeOK
<1>5. QED
  BY <1>1, <1>2, <1>4 DEF Finish, TypeOK, settings

LEMMA StepTypeOK == TypeOK /\ [Next]_vars => TypeOK'
<1> SUFFICES ASSUME TypeOK, [Next]_vars
             PROVE  TypeOK'
  OBVIOUS
<1>1. ASSUME NEW p \in Procs, NEW k \in Keys, Enter(p, k)
      PROVE  TypeOK'
  BY <1>1 DEF Enter, TypeOK, Req, At, Zero, settings, history
<1>2. ASSUME NEW p \in Procs, ReadLimit(p)
      PROVE  TypeOK'
  BY <1>2 DEF ReadLimit, TypeOK, Req, At, Idle, Zero, settings, history
<1>3. ASSUME NEW p \in Procs, ReadClock(p)
      PROVE  TypeOK'
  BY <1>3 DEF ReadClock, TypeOK, Req, At, settings, history
<1>4. ASSUME NEW p \in Procs, RejectBanned(p)
      PROVE  TypeOK'
  <2>1. req[p].key \in Keys /\ req[p].now \in Int
    BY <1>4 DEF RejectBanned, TypeOK, Req
  <2>2. Touched(req[p].key, req[p].now) \in Entry
    BY <2>1, TouchedType
  <2>3. QED
    BY <1>4, <2>1, <2>2, FinishTypeOK DEF RejectBanned, TypeOK, history
<1>5. ASSUME NEW p \in Procs, Admit(p)
      PROVE  TypeOK'
  <2> DEFINE e == CountedIn(Touched(req[p].key, req[p].now), req[p].now)
  <2>1. req[p].key \in Keys /\ req[p].now \in Int
    BY <1>5 DEF Admit, TypeOK, Req
  <2>2. e \in Entry
    BY <2>1, TouchedType, CountedInType
  <2>3. /\ Finish(p, e)
        /\ opened' = [opened EXCEPT ![req[p].key] = e.windowStart]
        /\ counted' = [counted EXCEPT ![req[p].key] = e.count]
        /\ UNCHANGED banEnd
    BY <1>5 DEF Admit
  <2>4. e.windowStart \in Int /\ e.count \in Nat
    BY <2>2 DEF Entry
  <2> HIDE DEF e
  <2>5. QED
    BY <2>1, <2>2, <2>3, <2>4, FinishTypeOK DEF TypeOK
<1>6. ASSUME NEW p \in Procs, RejectOverLimit(p)
      PROVE  TypeOK'
  <2> DEFINE e == CountedIn(Touched(req[p].key, req[p].now), req[p].now)
             b == [e EXCEPT !.bannedUntil = req[p].now + BanDuration]
  <2>1. req[p].key \in Keys /\ req[p].now \in Int
    BY <1>6 DEF RejectOverLimit, TypeOK, Req
  <2>2. e \in Entry
    BY <2>1, TouchedType, CountedInType
  <2>3. /\ Finish(p, b)
        /\ opened' = [opened EXCEPT ![req[p].key] = e.windowStart]
        /\ counted' = [counted EXCEPT ![req[p].key] = e.count]
        /\ banEnd' = [banEnd EXCEPT ![req[p].key] = req[p].now + BanDuration]
    BY <1>6 DEF RejectOverLimit
  <2>4. req[p].now + BanDuration \in Int
    BY <2>1, TimeAssumption
  <2>5. e.windowStart \in Int /\ e.count \in Nat /\ b \in Entry
    <3> HIDE DEF e
    <3> QED BY <2>2, <2>4 DEF Entry
  <2> HIDE DEF e, b
  <2>6. QED
    BY <2>1, <2>3, <2>4, <2>5, FinishTypeOK DEF TypeOK
<1>7. ASSUME NEW rpm \in Limits, SetRequestsPerMin(rpm)
      PROVE  TypeOK'
  BY <1>7 DEF SetRequestsPerMin, TypeOK, history
<1>8. CASE Enable
  BY <1>8 DEF Enable, TypeOK, history
<1>9. CASE Disable
  BY <1>9 DEF Disable, TypeOK, history
<1>10. CASE Tick
  BY <1>10 DEF Tick, TypeOK, settings, history
<1>11. CASE UNCHANGED vars
  BY <1>11 DEF vars, TypeOK
<1>12. QED
  BY <1>1, <1>2, <1>3, <1>4, <1>5, <1>6, <1>7, <1>8, <1>9, <1>10, <1>11 DEF Next, Step

(***************************************************************************)
(* Every variable keeps its type through every call of Allow and of the    *)
(* setters; in particular a goroutine in Allow always has a key to count.  *)
(***************************************************************************)
THEOREM TypeCorrect == Spec => []TypeOK
<1>1. QED
  BY InitTypeOK, StepTypeOK, PTL DEF Spec

-----------------------------------------------------------------------------
(* Bans.                                                                   *)

LEMMA StepSampled == TypeOK /\ Sampled /\ [Next]_vars => Sampled'
<1> SUFFICES ASSUME TypeOK, Sampled, [Next]_vars
             PROVE  Sampled'
  OBVIOUS
<1>1. ASSUME NEW p \in Procs, Step(p)
      PROVE  Sampled'
  <2>1. clock' = clock /\ clock \in Nat \ {0}
    BY <1>1 DEF Step, Enter, ReadLimit, ReadClock, RejectBanned, Admit, RejectOverLimit,
                Finish, TypeOK
  <2>2. \/ \E k \in Keys : req' = [req EXCEPT ![p] = At("limit", k, Zero)]
        \/ req' = [req EXCEPT ![p] = At("time", req[p].key, Zero)]
        \/ req' = [req EXCEPT ![p] = At("lock", req[p].key, clock)]
        \/ req' = [req EXCEPT ![p] = Idle]
    BY <1>1 DEF Step, Enter, ReadLimit, ReadClock, RejectBanned, Admit, RejectOverLimit,
                Finish
  <2>3. \A q \in Procs : q # p => req'[q] = req[q]
    BY <2>2 DEF TypeOK
  <2>4. req'[p].pc = "lock" => req'[p].now = clock
    BY <2>2 DEF TypeOK, At, Idle
  <2>5. QED
    BY <2>1, <2>3, <2>4, TimeAssumption DEF Sampled
<1>2. ASSUME NEW rpm \in Limits, SetRequestsPerMin(rpm)
      PROVE  Sampled'
  BY <1>2 DEF SetRequestsPerMin, Sampled
<1>3. CASE Enable
  BY <1>3 DEF Enable, Sampled
<1>4. CASE Disable
  BY <1>4 DEF Disable, Sampled
<1>5. CASE Tick
  BY <1>5, TimeAssumption DEF Tick, Sampled, TypeOK, Req
<1>6. CASE UNCHANGED vars
  BY <1>6 DEF vars, Sampled
<1>7. QED
  BY <1>1, <1>2, <1>3, <1>4, <1>5, <1>6 DEF Next

\* A cleanup forgets no ban that still runs.
LEMMA CleanupKeepsBans ==
    ASSUME TypeOK, BanRecorded, NEW now \in Int, now <= clock, NEW k \in Keys
    PROVE  LET kept == CleanupLocked(now)[k]
           IN  IF kept = NoEntry
               THEN banEnd[k] <= clock
               ELSE /\ kept = entries[k]
                    /\ \/ kept.bannedUntil = banEnd[k]
                       \/ kept.bannedUntil = Zero /\ banEnd[k] <= clock
<1>1. /\ clock \in Int /\ banEnd[k] \in Int /\ clock > 0
      /\ entries[k] # NoEntry => entries[k].bannedUntil \in Int
  BY DEF TypeOK, Entry
<1>2. CASE CleanupDue(now) /\ entries[k] # NoEntry /\ Idled(entries[k], now)
  <2>1. CleanupLocked(now)[k] = NoEntry
    BY <1>2 DEF CleanupLocked
  <2>2. banEnd[k] <= clock
    BY <1>1, <1>2 DEF BanRecorded, Idled, Zero
  <2>3. QED
    BY <2>1, <2>2
<1>3. CASE ~(CleanupDue(now) /\ entries[k] # NoEntry /\ Idled(entries[k], now))
  <2>1. CleanupLocked(now)[k] = entries[k]
    BY <1>3 DEF CleanupLocked
  <2>2. QED
    BY <2>1 DEF BanRecorded
<1>4. QED
  BY <1>2, <1>3

\* Looking up the key's record, or creating it, does not touch its ban.
LEMMA TouchedKeepsBan ==
    ASSUME TypeOK, BanRecorded, NEW now \in Int, now <= clock, NEW k \in Keys
    PROVE  \/ Touched(k, now).bannedUntil = banEnd[k]
           \/ Touched(k, now).bannedUntil = Zero /\ banEnd[k] <= clock
<1>1. CASE CleanupLocked(now)[k] = NoEntry
  <2>1. banEnd[k] <= clock
    BY <1>1, CleanupKeepsBans
  <2>2. Touched(k, now).bannedUntil = Zero
    BY <1>1 DEF Touched
  <2>3. QED
    BY <2>1, <2>2
<1>2. CASE CleanupLocked(now)[k] # NoEntry
  <2>1. CleanupLocked(now)[k] \in Entry
    BY <1>2, CleanupType
  <2>2. Touched(k, now).bannedUntil = CleanupLocked(now)[k].bannedUntil
    BY <1>2, <2>1 DEF Touched, Entry
  <2>3. QED
    BY <1>2, <2>2, CleanupKeepsBans
<1>3. QED
  BY <1>1, <1>2

LEMMA StepBanRecorded == TypeOK /\ Sampled /\ BanRecorded /\ [Next]_vars => BanRecorded'
<1> SUFFICES ASSUME TypeOK, Sampled, BanRecorded, [Next]_vars
             PROVE  BanRecorded'
  OBVIOUS
<1>1. ASSUME clock' = clock, entries' = entries, banEnd' = banEnd
      PROVE  BanRecorded'
  BY <1>1 DEF BanRecorded
<1>2. ASSUME NEW p \in Procs, \/ \E k \in Keys : Enter(p, k)
                              \/ ReadLimit(p)
                              \/ ReadClock(p)
      PROVE  BanRecorded'
  BY <1>1, <1>2 DEF Enter, ReadLimit, ReadClock, history
<1>3. ASSUME NEW p \in Procs, NEW e \in Entry, req[p].pc = "lock", Finish(p, e),
             \/ e.bannedUntil = banEnd'[req[p].key]
             \/ e.bannedUntil = Zero /\ banEnd'[req[p].key] <= clock,
             \A k \in Keys : k # req[p].key => banEnd'[k] = banEnd[k]
      PROVE  BanRecorded'
  <2>1. req[p].key \in Keys /\ req[p].now \in Int /\ req[p].now <= clock
    BY <1>3 DEF TypeOK, Req, Sampled
  <2>2. clock' = clock
    BY <1>3 DEF Finish
  <2>3. ASSUME NEW k \in Keys
        PROVE  IF entries'[k] = NoEntry
               THEN banEnd'[k] <= clock'
               ELSE \/ entries'[k].bannedUntil = banEnd'[k]
                    \/ entries'[k].bannedUntil = Zero /\ banEnd'[k] <= clock'
    <3>1. entries'[k] = IF k = req[p].key THEN e ELSE CleanupLocked(req[p].now)[k]
      BY <1>3, <2>1, FinishEntries
    <3>2. CASE k = req[p].key
      BY <1>3, <2>2, <3>1, <3>2, NoEntryAssumption
    <3>3. CASE k # req[p].key
      BY <1>3, <2>1, <2>2, <3>1, <3>3, CleanupKeepsBans
    <3>4. QED
      BY <3>2, <3>3
  <2>4. QED
    BY <2>3 DEF BanRecorded
<1>4. ASSUME NEW p \in Procs, RejectBanned(p)
      PROVE  BanRecorded'
  <2> DEFINE e == Touched(req[p].key, req[p].now)
  <2>1. req[p].key \in Keys /\ req[p].now \in Int /\ req[p].now <= clock
    BY <1>4 DEF RejectBanned, TypeOK, Req, Sampled
  <2>2. e \in Entry
    BY <2>1, TouchedType
  <2>3. \/ e.bannedUntil = banEnd[req[p].key]
        \/ e.bannedUntil = Zero /\ banEnd[req[p].key] <= clock
    BY <2>1, TouchedKeepsBan
  <2>4. req[p].pc = "lock" /\ Finish(p, e) /\ banEnd' = banEnd
    BY <1>4 DEF RejectBanned, history
  <2> HIDE DEF e
  <2>5. QED
    BY <1>3, <2>2, <2>3, <2>4
<1>5. ASSUME NEW p \in Procs, Admit(p)
      PROVE  BanRecorded'
  <2> DEFINE t == Touched(req[p].key, req[p].now)
             e == CountedIn(t, req[p].now)
  <2>1. req[p].key \in Keys /\ req[p].now \in Int /\ req[p].now <= clock
    BY <1>5 DEF Admit, TypeOK, Req, Sampled
  <2>2. t \in Entry
    BY <2>1, TouchedType
  <2>3. \/ t.bannedUntil = banEnd[req[p].key]
        \/ t.bannedUntil = Zero /\ banEnd[req[p].key] <= clock
    BY <2>1, TouchedKeepsBan
  <2>4. req[p].pc = "lock" /\ Finish(p, e) /\ banEnd' = banEnd
    BY <1>5 DEF Admit
  <2> HIDE DEF t
  <2>5. e \in Entry /\ e.bannedUntil = t.bannedUntil
    BY <2>1, <2>2, CountedInType
  <2> HIDE DEF e
  <2>6. QED
    BY <1>3, <2>3, <2>4, <2>5
<1>6. ASSUME NEW p \in Procs, RejectOverLimit(p)
      PROVE  BanRecorded'
  <2> DEFINE e == CountedIn(Touched(req[p].key, req[p].now), req[p].now)
             b == [e EXCEPT !.bannedUntil = req[p].now + BanDuration]
  <2>1. req[p].key \in Keys /\ req[p].now \in Int
    BY <1>6 DEF RejectOverLimit, TypeOK, Req
  <2>2. e \in Entry
    BY <2>1, TouchedType, CountedInType
  <2>3. /\ req[p].pc = "lock" /\ Finish(p, b)
        /\ banEnd' = [banEnd EXCEPT ![req[p].key] = req[p].now + BanDuration]
    BY <1>6 DEF RejectOverLimit
  <2>4. req[p].now + BanDuration \in Int
    BY <2>1, TimeAssumption
  <2> HIDE DEF e
  <2>5. b \in Entry /\ b.bannedUntil = req[p].now + BanDuration
    BY <2>2, <2>4 DEF Entry
  <2>6. /\ banEnd'[req[p].key] = req[p].now + BanDuration
        /\ \A k \in Keys : k # req[p].key => banEnd'[k] = banEnd[k]
    BY <2>1, <2>3 DEF TypeOK
  <2> HIDE DEF b
  <2>7. QED
    BY <1>3, <2>3, <2>5, <2>6
<1>7. CASE Tick
  <2>1. /\ clock' = clock + 1 /\ entries' = entries /\ banEnd' = banEnd
        /\ clock \in Int /\ banEnd \in [Keys -> Int]
    BY <1>7 DEF Tick, history, TypeOK
  <2>2. QED
    BY <2>1 DEF BanRecorded
<1>8. ASSUME \/ \E rpm \in Limits : SetRequestsPerMin(rpm)
             \/ Enable
             \/ Disable
             \/ UNCHANGED vars
      PROVE  BanRecorded'
  BY <1>1, <1>8 DEF SetRequestsPerMin, Enable, Disable, vars, history
<1>9. QED
  BY <1>2, <1>4, <1>5, <1>6, <1>7, <1>8 DEF Next, Step

LEMMA BanInvariant == Spec => []BanInv
<1>1. Init => BanInv
  <2>1. Init => Sampled
    BY DEF Init, Sampled, Idle, At
  <2>2. ASSUME Init, NEW k \in Keys
        PROVE  entries[k] = NoEntry /\ banEnd[k] <= clock
    BY <2>2 DEF Init, Zero
  <2>3. Init => BanRecorded
    BY <2>2 DEF BanRecorded
  <2>4. QED
    BY <2>1, <2>3, InitTypeOK DEF BanInv
<1>2. BanInv /\ [Next]_vars => BanInv'
  BY StepTypeOK, StepSampled, StepBanRecorded DEF BanInv
<1>3. QED
  BY <1>1, <1>2, PTL DEF Spec

(***************************************************************************)
(* No cleanup and no stalled goroutine makes the limiter forget a ban that *)
(* still runs (cleanupLocked and lines 100-106 of Allow).                  *)
(***************************************************************************)
THEOREM BansAreRemembered == Spec => []BanRemembered
<1>1. BanInv => BanRemembered
  <2> SUFFICES ASSUME BanInv, NEW k \in Keys, clock < banEnd[k]
               PROVE  entries[k] # NoEntry /\ entries[k].bannedUntil = banEnd[k]
    BY DEF BanRemembered
  <2>1. clock \in Int /\ banEnd[k] \in Int
    BY DEF BanInv, TypeOK
  <2>2. QED
    BY <2>1 DEF BanInv, BanRecorded
<1>2. QED
  BY <1>1, BanInvariant, PTL

\* A request that gets past the ban check found the latest ban of its key over.
LEMMA CountedOnlyAfterBan ==
    ASSUME BanInv, NEW p \in Procs, req[p].pc = "lock",
           ~Banned(CountedIn(Touched(req[p].key, req[p].now), req[p].now), req[p].now)
    PROVE  banEnd[req[p].key] <= clock
<1>1. /\ req[p].key \in Keys /\ req[p].now \in Int /\ req[p].now <= clock
      /\ banEnd[req[p].key] \in Int /\ clock \in Int
  BY DEF BanInv, TypeOK, Req, Sampled
<1>2. Touched(req[p].key, req[p].now) \in Entry
  BY <1>1, TouchedType DEF BanInv
<1>3. CountedIn(Touched(req[p].key, req[p].now), req[p].now).bannedUntil
        = Touched(req[p].key, req[p].now).bannedUntil
  BY <1>1, <1>2, CountedInType
<1>4. ~(Touched(req[p].key, req[p].now).bannedUntil > req[p].now)
  BY <1>3 DEF Banned
<1>5. \/ Touched(req[p].key, req[p].now).bannedUntil = banEnd[req[p].key]
      \/ banEnd[req[p].key] <= clock
  BY <1>1, TouchedKeepsBan DEF BanInv
<1>6. QED
  BY <1>1, <1>4, <1>5

(***************************************************************************)
(* No step counts, admits or bans anew a request of a key whose ban still  *)
(* runs, for any bound on how long a goroutine stalls (Allow, line 108).   *)
(***************************************************************************)
THEOREM BansAreEnforced == Spec => BanEnforced
<1>1. ASSUME BanInv, [Next]_vars, NEW k \in Keys, clock < banEnd[k]
      PROVE  UNCHANGED <<opened[k], counted[k], banEnd[k]>>
  <2>1. CASE UNCHANGED history
    BY <2>1 DEF history
  <2>2. ASSUME NEW p \in Procs, Admit(p) \/ RejectOverLimit(p)
        PROVE  UNCHANGED <<opened[k], counted[k], banEnd[k]>>
    <3>1. banEnd[req[p].key] <= clock
      BY <1>1, <2>2, CountedOnlyAfterBan DEF Admit, RejectOverLimit
    <3>2. k # req[p].key
      BY <1>1, <3>1 DEF BanInv, TypeOK
    <3>3. /\ \E x : opened' = [opened EXCEPT ![req[p].key] = x]
          /\ \E x : counted' = [counted EXCEPT ![req[p].key] = x]
          /\ \/ banEnd' = banEnd
             \/ \E x : banEnd' = [banEnd EXCEPT ![req[p].key] = x]
      BY <2>2 DEF Admit, RejectOverLimit
    <3>4. QED
      BY <1>1, <3>2, <3>3 DEF BanInv, TypeOK
  <2>3. QED
    BY <1>1, <2>1, <2>2 DEF Next, Step, Enter, ReadLimit, ReadClock, RejectBanned,
       SetRequestsPerMin, Enable, Disable, Tick, vars, history
<1>2. BanInv /\ [Next]_vars
        => [\A k \in Keys : clock < banEnd[k]
               => UNCHANGED <<opened[k], counted[k], banEnd[k]>>]_vars
  BY <1>1
<1>3. QED
  BY <1>2, BanInvariant, PTL DEF Spec, BanEnforced

-----------------------------------------------------------------------------
(* Memory: the map keeps no record that idles.                             *)

\* A goroutine stalls for at most two windows, the age a cleanup looks for.
ModestStalls == MaxStall <= 2 * Window

ReclaimInv == TypeOK /\ Sampled /\ lastCleanup <= clock /\ IdleEntriesReclaimed

\* A section under the mutex leaves no idle record behind: it marks its own
\* record as seen and, when it cleans up, drops the others.
LEMMA FinishReclaims ==
    ASSUME ModestStalls, ReclaimInv, NEW p \in Procs, req[p].pc = "lock",
           NEW e \in Entry, e.lastSeen = req[p].now, Finish(p, e)
    PROVE  lastCleanup' <= clock' /\ IdleEntriesReclaimed'
<1> DEFINE now == req[p].now
<1>1. /\ req[p].key \in Keys /\ now \in Int /\ now <= clock /\ clock - now <= MaxStall
      /\ clock \in Int /\ lastCleanup \in Int /\ lastCleanup <= clock
      /\ Window \in Nat /\ MaxStall \in Nat
  BY TimeAssumption DEF ReclaimInv, TypeOK, Req, Sampled
<1>2. clock' = clock /\ lastCleanup' = IF CleanupDue(now) THEN now ELSE lastCleanup
  BY DEF Finish
<1>3. ASSUME NEW k \in Keys, entries'[k] # NoEntry
      PROVE  \/ entries'[k].bannedUntil >= lastCleanup'
             \/ lastCleanup' - entries'[k].lastSeen <= 2 * Window
  <2>1. entries'[k] = IF k = req[p].key THEN e ELSE CleanupLocked(now)[k]
    BY <1>1, FinishEntries DEF ReclaimInv
  <2>2. CASE k = req[p].key
    <3>1. entries'[k].lastSeen = now
      BY <2>1, <2>2
    <3>2. QED
      BY <1>1, <1>2, <3>1 DEF ModestStalls
  <2>3. CASE k # req[p].key
    <3>1. /\ entries'[k] = entries[k] /\ entries[k] # NoEntry
          /\ ~(CleanupDue(now) /\ Idled(entries[k], now))
      BY <1>3, <2>1, <2>3 DEF CleanupLocked
    <3>2. entries[k] \in Entry
      BY <3>1 DEF ReclaimInv, TypeOK
    <3>3. CASE CleanupDue(now)
      BY <1>1, <1>2, <3>1, <3>2, <3>3 DEF Idled, Entry
    <3>4. CASE ~CleanupDue(now)
      BY <1>2, <3>1, <3>4 DEF ReclaimInv, IdleEntriesReclaimed
    <3>5. QED
      BY <3>3, <3>4
  <2>4. QED
    BY <2>2, <2>3
<1>4. QED
  BY <1>1, <1>2, <1>3 DEF IdleEntriesReclaimed

LEMMA StepReclaims ==
    ModestStalls /\ ReclaimInv /\ [Next]_vars
        => lastCleanup' <= clock' /\ IdleEntriesReclaimed'
<1> SUFFICES ASSUME ModestStalls, ReclaimInv, [Next]_vars
             PROVE  lastCleanup' <= clock' /\ IdleEntriesReclaimed'
  OBVIOUS
<1>1. ASSUME UNCHANGED <<entries, lastCleanup>>, clock' = clock \/ clock' = clock + 1
      PROVE  lastCleanup' <= clock' /\ IdleEntriesReclaimed'
  <2>1. lastCleanup \in Int /\ clock \in Int /\ lastCleanup <= clock
    BY DEF ReclaimInv, TypeOK
  <2>2. QED
    BY <1>1, <2>1 DEF ReclaimInv, IdleEntriesReclaimed
<1>2. ASSUME NEW p \in Procs, RejectBanned(p)
      PROVE  lastCleanup' <= clock' /\ IdleEntriesReclaimed'
  <2>1. req[p].key \in Keys /\ req[p].now \in Int
    BY <1>2 DEF RejectBanned, ReclaimInv, TypeOK, Req
  <2>2. QED
    BY <1>2, <2>1, TouchedType, FinishReclaims DEF RejectBanned, ReclaimInv
<1>3. ASSUME NEW p \in Procs, Admit(p)
      PROVE  lastCleanup' <= clock' /\ IdleEntriesReclaimed'
  <2> DEFINE e == CountedIn(Touched(req[p].key, req[p].now), req[p].now)
  <2>1. req[p].key \in Keys /\ req[p].now \in Int
    BY <1>3 DEF Admit, ReclaimInv, TypeOK, Req
  <2>2. e \in Entry /\ e.lastSeen = req[p].now
    BY <2>1, TouchedType, CountedInType DEF ReclaimInv
  <2>3. req[p].pc = "lock" /\ Finish(p, e)
    BY <1>3 DEF Admit
  <2> HIDE DEF e
  <2>4. QED
    BY <2>2, <2>3, FinishReclaims
<1>4. ASSUME NEW p \in Procs, RejectOverLimit(p)
      PROVE  lastCleanup' <= clock' /\ IdleEntriesReclaimed'
  <2> DEFINE e == CountedIn(Touched(req[p].key, req[p].now), req[p].now)
             b == [e EXCEPT !.bannedUntil = req[p].now + BanDuration]
  <2>1. req[p].key \in Keys /\ req[p].now \in Int /\ req[p].now + BanDuration \in Int
    BY <1>4, TimeAssumption DEF RejectOverLimit, ReclaimInv, TypeOK, Req
  <2>2. e \in Entry /\ e.lastSeen = req[p].now
    BY <2>1, TouchedType, CountedInType DEF ReclaimInv
  <2>3. req[p].pc = "lock" /\ Finish(p, b)
    BY <1>4 DEF RejectOverLimit
  <2> HIDE DEF e
  <2>4. b \in Entry /\ b.lastSeen = req[p].now
    BY <2>1, <2>2 DEF Entry
  <2> HIDE DEF b
  <2>5. QED
    BY <2>3, <2>4, FinishReclaims
<1>5. QED
  BY <1>1, <1>2, <1>3, <1>4 DEF Next, Step, Enter, ReadLimit, ReadClock, SetRequestsPerMin,
     Enable, Disable, Tick, vars

(***************************************************************************)
(* However many keys clients present, a record outlives the last cleanup   *)
(* only if its key is banned or was seen in the two windows before it      *)
(* (cleanupLocked, lines 244-248), even when the goroutine that cleaned up *)
(* or the one that stored the record had read the clock up to two windows  *)
(* before it got the mutex.                                                *)
(***************************************************************************)
THEOREM IdleRecordsAreReclaimed ==
    ASSUME ModestStalls
    PROVE  Spec => []IdleEntriesReclaimed
<1>1. Init => ReclaimInv
  <2>1. Init => Sampled
    BY DEF Init, Sampled, Idle, At
  <2>2. Init => lastCleanup <= clock /\ IdleEntriesReclaimed
    BY DEF Init, IdleEntriesReclaimed
  <2>3. QED
    BY <2>1, <2>2, InitTypeOK DEF ReclaimInv
<1>2. ReclaimInv /\ [Next]_vars => ReclaimInv'
  BY StepTypeOK, StepSampled, StepReclaims DEF ReclaimInv
<1>3. ReclaimInv => IdleEntriesReclaimed
  BY DEF ReclaimInv
<1>4. QED
  BY <1>1, <1>2, <1>3, PTL DEF Spec

-----------------------------------------------------------------------------
(* Windows: the mechanism implements WindowLimiter.                        *)

\* How a record relates to the latest window of its key.  A record is dropped
\* only once that window is over for every goroutine that may still hold an
\* earlier reading of the clock.
WindowRecorded ==
    \A k \in Keys :
        IF entries[k] = NoEntry
        THEN opened[k] = Zero \/ opened[k] + Window <= clock - MaxStall
        ELSE /\ opened[k] = entries[k].windowStart
             /\ counted[k] = entries[k].count
             /\ opened[k] # Zero
             /\ opened[k] <= clock
             /\ opened[k] - MaxStall <= entries[k].lastSeen

\* A goroutine stalls for at most half a window.
ShortStalls == 2 * MaxStall <= Window

WindowInv == BanInv /\ WindowRecorded

LEMMA CleanupKeepsWindows ==
    ASSUME ShortStalls, WindowInv, NEW now \in Int, now <= clock, NEW k \in Keys
    PROVE  LET kept == CleanupLocked(now)[k]
           IN  IF kept = NoEntry
               THEN opened[k] = Zero \/ opened[k] + Window <= clock - MaxStall
               ELSE kept = entries[k]
<1>1. /\ clock \in Int /\ opened[k] \in Int /\ Window \in Int /\ MaxStall \in Int
      /\ entries[k] # NoEntry => entries[k].lastSeen \in Int
  BY TimeAssumption DEF WindowInv, BanInv, TypeOK, Entry
<1>2. CASE CleanupDue(now) /\ entries[k] # NoEntry /\ Idled(entries[k], now)
  <2>1. CleanupLocked(now)[k] = NoEntry
    BY <1>2 DEF CleanupLocked
  <2>2. opened[k] - MaxStall <= entries[k].lastSeen
    BY <1>2 DEF WindowInv, WindowRecorded
  <2>3. now - entries[k].lastSeen > 2 * Window
    BY <1>2 DEF Idled
  <2>4. opened[k] + Window <= clock - MaxStall
    BY <1>1, <1>2, <2>2, <2>3 DEF ShortStalls
  <2>5. QED
    BY <2>1, <2>4
<1>3. CASE ~(CleanupDue(now) /\ entries[k] # NoEntry /\ Idled(entries[k], now))
  <2>1. CleanupLocked(now)[k] = entries[k]
    BY <1>3 DEF CleanupLocked
  <2>2. QED
    BY <2>1 DEF WindowInv, WindowRecorded
<1>4. QED
  BY <1>2, <1>3

\* The two ways a request is counted, as WindowLimiter sees them.
LEMMA CountedInAWindow ==
    ASSUME ShortStalls, WindowInv, NEW p \in Procs, req[p].pc = "lock"
    PROVE  LET k == req[p].key
               now == req[p].now
               e == CountedIn(Touched(k, now), now)
           IN  /\ e \in Entry
               /\ e.lastSeen = now
               /\ e.windowStart # Zero
               /\ e.windowStart <= clock
               /\ e.windowStart - MaxStall <= now
               /\ \/ /\ opened[k] # Zero
                     /\ e.windowStart = opened[k]
                     /\ e.count = counted[k] + 1
                  \/ /\ e.windowStart = now
                     /\ e.count = 1
                     /\ opened[k] = Zero \/ now >= opened[k] + Window
<1> DEFINE k == req[p].key
           now == req[p].now
           kept == CleanupLocked(now)[k]
           t == Touched(k, now)
           e == CountedIn(t, now)
<1>1. /\ k \in Keys /\ now \in Int /\ now >= 1 /\ now <= clock /\ clock - now <= MaxStall
      /\ clock \in Int /\ opened[k] \in Int /\ counted[k] \in Nat
      /\ Window \in Nat /\ Window > 0 /\ MaxStall \in Nat
  BY TimeAssumption DEF WindowInv, BanInv, TypeOK, Req, Sampled
<1>2. t \in Entry /\ t.lastSeen = now
  BY <1>1, TouchedType DEF WindowInv, BanInv
<1>3. e \in Entry /\ e.lastSeen = now
  BY <1>1, <1>2, CountedInType
<1>4. IF now - t.windowStart >= Window
      THEN e.windowStart = now /\ e.count = 1
      ELSE e.windowStart = t.windowStart /\ e.count = t.count + 1
  BY <1>1, <1>2 DEF CountedIn, Entry
<1>5. CASE kept = NoEntry
  <2>1. t.windowStart = now /\ t.count = 0
    BY <1>5 DEF Touched
  <2>2. opened[k] = Zero \/ opened[k] + Window <= clock - MaxStall
    BY <1>1, <1>5, CleanupKeepsWindows
  <2>3. opened[k] = Zero \/ now >= opened[k] + Window
    BY <1>1, <2>2
  <2>4. e.windowStart = now /\ e.count = 1
    BY <1>1, <1>4, <2>1
  <2> HIDE DEF k, now, t, e
  <2>5. QED
    BY <1>1, <1>3, <2>3, <2>4 DEF k, now, t, e, Zero
<1>6. CASE kept # NoEntry
  <2>1. kept = entries[k] /\ kept \in Entry
    BY <1>1, <1>6, CleanupKeepsWindows, CleanupType DEF WindowInv, BanInv
  <2>2. t.windowStart = kept.windowStart /\ t.count = kept.count
    BY <1>6, <2>1 DEF Touched, Entry
  <2>3. /\ opened[k] = t.windowStart /\ counted[k] = t.count
        /\ opened[k] # Zero /\ opened[k] <= clock
    BY <1>1, <1>6, <2>1, <2>2 DEF WindowInv, WindowRecorded
  <2> HIDE DEF k, now, t, e
  <2>4. CASE now - t.windowStart >= Window
    BY <1>1, <1>3, <1>4, <2>3, <2>4 DEF k, now, t, e, Zero
  <2>5. CASE ~(now - t.windowStart >= Window)
    BY <1>1, <1>3, <1>4, <2>3, <2>5 DEF k, now, t, e, Zero
  <2>6. QED
    BY <2>4, <2>5
<1>7. QED
  BY <1>5, <1>6

\* What storing a record under the mutex must satisfy to keep WindowRecorded.
LEMMA FinishWindowRecorded ==
    ASSUME ShortStalls, WindowInv, NEW p \in Procs, req[p].pc = "lock",
           NEW e \in Entry, Finish(p, e),
           e.windowStart # Zero, e.windowStart <= clock,
           e.windowStart - MaxStall <= e.lastSeen,
           opened'[req[p].key] = e.windowStart, counted'[req[p].key] = e.count,
           \A k \in Keys : k # req[p].key => /\ opened'[k] = opened[k]
                                            /\ counted'[k] = counted[k]
    PROVE  WindowRecorded'
<1>1. req[p].key \in Keys /\ req[p].now \in Int /\ req[p].now <= clock
  BY DEF WindowInv, BanInv, TypeOK, Req, Sampled
<1>2. clock' = clock
  BY DEF Finish
<1>3. ASSUME NEW k \in Keys
      PROVE  IF entries'[k] = NoEntry
             THEN opened'[k] = Zero \/ opened'[k] + Window <= clock' - MaxStall
             ELSE /\ opened'[k] = entries'[k].windowStart
                  /\ counted'[k] = entries'[k].count
                  /\ opened'[k] # Zero
                  /\ opened'[k] <= clock'
                  /\ opened'[k] - MaxStall <= entries'[k].lastSeen
  <2>1. entries'[k] = IF k = req[p].key THEN e ELSE CleanupLocked(req[p].now)[k]
    BY <1>1, FinishEntries DEF WindowInv, BanInv
  <2>2. CASE k = req[p].key
    BY <1>2, <2>1, <2>2, NoEntryAssumption
  <2>3. CASE k # req[p].key /\ CleanupLocked(req[p].now)[k] = NoEntry
    BY <1>1, <1>2, <2>1, <2>3, CleanupKeepsWindows
  <2>4. CASE k # req[p].key /\ CleanupLocked(req[p].now)[k] # NoEntry
    <3>1. CleanupLocked(req[p].now)[k] = entries[k]
      BY <1>1, <2>4, CleanupKeepsWindows
    <3>2. QED
      BY <1>2, <2>1, <2>4, <3>1 DEF WindowInv, WindowRecorded
  <2>5. QED
    BY <2>2, <2>3, <2>4
<1>4. QED
  BY <1>3 DEF WindowRecorded

LEMMA StepWindowRecorded == ShortStalls /\ WindowInv /\ [Next]_vars => WindowRecorded'
<1> SUFFICES ASSUME ShortStalls, WindowInv, [Next]_vars
             PROVE  WindowRecorded'
  OBVIOUS
<1>1. ASSUME clock' = clock, entries' = entries, UNCHANGED history
      PROVE  WindowRecorded'
  BY <1>1 DEF WindowInv, WindowRecorded, history
<1>2. ASSUME NEW p \in Procs, RejectBanned(p)
      PROVE  WindowRecorded'
  <2> DEFINE k == req[p].key
             now == req[p].now
             kept == CleanupLocked(now)[k]
             e == Touched(k, now)
  <2>1. /\ k \in Keys /\ now \in Int /\ now >= 1 /\ now <= clock /\ clock - now <= MaxStall
        /\ req[p].pc = "lock" /\ Finish(p, e) /\ UNCHANGED history
        /\ clock \in Int /\ opened[k] \in Int /\ MaxStall \in Nat
    BY <1>2, TimeAssumption DEF RejectBanned, WindowInv, BanInv, TypeOK, Req, Sampled
  <2>2. e \in Entry /\ e.lastSeen = now
    BY <2>1, TouchedType DEF WindowInv, BanInv
  <2>3. kept # NoEntry
    <3> SUFFICES ASSUME kept = NoEntry PROVE FALSE
      OBVIOUS
    <3>1. e.bannedUntil = Zero
      BY DEF Touched
    <3>2. e.bannedUntil > now
      BY <1>2 DEF RejectBanned, Banned
    <3>3. QED
      BY <2>1, <3>1, <3>2 DEF Zero
  <2>4. kept = entries[k] /\ kept \in Entry
    BY <2>1, <2>3, CleanupKeepsWindows, CleanupType DEF WindowInv, BanInv
  <2>5. e.windowStart = kept.windowStart /\ e.count = kept.count
    BY <2>3, <2>4 DEF Touched, Entry
  <2>6. /\ opened[k] = e.windowStart /\ counted[k] = e.count
        /\ opened[k] # Zero /\ opened[k] <= clock
    BY <2>1, <2>3, <2>4, <2>5 DEF WindowInv, WindowRecorded
  <2>7. opened' = opened /\ counted' = counted
    BY <2>1 DEF history
  <2> HIDE DEF e
  <2>8. e.windowStart - MaxStall <= e.lastSeen
    BY <2>1, <2>2, <2>6
  <2>9. QED
    BY <2>1, <2>2, <2>6, <2>7, <2>8, FinishWindowRecorded
<1>3. ASSUME NEW p \in Procs, Admit(p)
      PROVE  WindowRecorded'
  <2> DEFINE e == CountedIn(Touched(req[p].key, req[p].now), req[p].now)
  <2>1. /\ req[p].pc = "lock" /\ Finish(p, e)
        /\ opened' = [opened EXCEPT ![req[p].key] = e.windowStart]
        /\ counted' = [counted EXCEPT ![req[p].key] = e.count]
    BY <1>3 DEF Admit
  <2>2. /\ e \in Entry
        /\ e.windowStart # Zero /\ e.windowStart <= clock
        /\ e.windowStart - MaxStall <= e.lastSeen
    BY <2>1, CountedInAWindow
  <2>3. req[p].key \in Keys
    BY <2>1 DEF WindowInv, BanInv, TypeOK
  <2> HIDE DEF e
  <2>4. /\ opened'[req[p].key] = e.windowStart /\ counted'[req[p].key] = e.count
        /\ \A k \in Keys : k # req[p].key => /\ opened'[k] = opened[k]
                                            /\ counted'[k] = counted[k]
    BY <2>1, <2>3 DEF WindowInv, BanInv, TypeOK
  <2>5. QED
    BY <2>1, <2>2, <2>4, FinishWindowRecorded
<1>4. ASSUME NEW p \in Procs, RejectOverLimit(p)
      PROVE  WindowRecorded'
  <2> DEFINE e == CountedIn(Touched(req[p].key, req[p].now), req[p].now)
             b == [e EXCEPT !.bannedUntil = req[p].now + BanDuration]
  <2>1. /\ req[p].pc = "lock" /\ Finish(p, b)
        /\ opened' = [opened EXCEPT ![req[p].key] = e.windowStart]
        /\ counted' = [counted EXCEPT ![req[p].key] = e.count]
    BY <1>4 DEF RejectOverLimit
  <2>2. /\ e \in Entry
        /\ e.windowStart # Zero /\ e.windowStart <= clock
        /\ e.windowStart - MaxStall <= e.lastSeen
    BY <2>1, CountedInAWindow
  <2>3. req[p].key \in Keys /\ req[p].now + BanDuration \in Int
    BY <2>1, TimeAssumption DEF WindowInv, BanInv, TypeOK, Req
  <2> HIDE DEF e
  <2>4. /\ b \in Entry /\ b.windowStart = e.windowStart
        /\ b.count = e.count /\ b.lastSeen = e.lastSeen
    BY <2>2, <2>3 DEF Entry
  <2>5. /\ opened'[req[p].key] = e.windowStart /\ counted'[req[p].key] = e.count
        /\ \A k \in Keys : k # req[p].key => /\ opened'[k] = opened[k]
                                            /\ counted'[k] = counted[k]
    BY <2>1, <2>3 DEF WindowInv, BanInv, TypeOK
  <2> HIDE DEF b
  <2>6. QED
    BY <2>1, <2>2, <2>4, <2>5, FinishWindowRecorded
<1>5. CASE Tick
  <2>1. /\ clock' = clock + 1 /\ entries' = entries
        /\ opened' = opened /\ counted' = counted
        /\ clock \in Int /\ opened \in [Keys -> Int]
        /\ Window \in Int /\ MaxStall \in Int
    BY <1>5, TimeAssumption DEF Tick, history, WindowInv, BanInv, TypeOK
  <2>2. QED
    BY <2>1 DEF WindowInv, WindowRecorded
<1>6. QED
  BY <1>1, <1>2, <1>3, <1>4, <1>5 DEF Next, Step, Enter, ReadLimit, ReadClock,
     SetRequestsPerMin, Enable, Disable, vars, history

LEMMA WindowInvariant ==
    ASSUME ShortStalls
    PROVE  Spec => []WindowInv
<1>1. Init => WindowRecorded
  <2>1. ASSUME Init, NEW k \in Keys
        PROVE  entries[k] = NoEntry /\ opened[k] = Zero
    BY <2>1 DEF Init
  <2>2. QED
    BY <2>1 DEF WindowRecorded
<1>2. WindowInv /\ BanInv' /\ [Next]_vars => WindowInv'
  BY StepWindowRecorded DEF WindowInv
<1>3. BanInv /\ WindowRecorded => WindowInv
  BY DEF WindowInv
<1>4. QED
  BY <1>1, <1>2, <1>3, BanInvariant, PTL DEF Spec

\* A request counted by the mechanism is counted by the promised limiter.
LEMMA CountRefines ==
    ASSUME ShortStalls, WindowInv, NEW p \in Procs, req[p].pc = "lock",
           UNCHANGED <<clock, requestsPerMin>>,
           LET e == CountedIn(Touched(req[p].key, req[p].now), req[p].now)
           IN  /\ ~Banned(e, req[p].now)
               /\ opened' = [opened EXCEPT ![req[p].key] = e.windowStart]
               /\ counted' = [counted EXCEPT ![req[p].key] = e.count]
    PROVE  Promised!Count(req[p].key)
<1> DEFINE k == req[p].key
           now == req[p].now
           e == CountedIn(Touched(k, now), now)
<1>1. /\ k \in Keys /\ now \in Int /\ now <= clock /\ clock - now <= MaxStall
      /\ clock \in Int /\ MaxStall \in Nat /\ banEnd[k] \in Int
      /\ opened \in [Keys -> Int] /\ counted \in [Keys -> Nat]
  BY TimeAssumption DEF WindowInv, BanInv, TypeOK, Req, Sampled
<1>2. clock >= banEnd[k]
  <2>1. banEnd[k] <= clock
    BY CountedOnlyAfterBan DEF WindowInv
  <2>2. QED
    BY <1>1, <2>1
<1>3. /\ opened' = [opened EXCEPT ![k] = e.windowStart]
      /\ counted' = [counted EXCEPT ![k] = e.count]
  OBVIOUS
<1>4. \/ /\ opened[k] # Zero
         /\ e.windowStart = opened[k]
         /\ e.count = counted[k] + 1
      \/ /\ e.windowStart = now
         /\ e.count = 1
         /\ opened[k] = Zero \/ now >= opened[k] + Window
  BY CountedInAWindow
<1>5. now \in Promised!Recent
  BY <1>1 DEF Promised!Recent
<1> HIDE DEF k, now, e
<1>6. Promised!InCurrentWindow(k) \/ Promised!InNewWindow(k)
  <2>1. CASE /\ opened[k] # Zero
             /\ e.windowStart = opened[k]
             /\ e.count = counted[k] + 1
    <3>1. opened' = opened
      BY <1>1, <1>3, <2>1
    <3>2. counted' = [counted EXCEPT ![k] = counted[k] + 1]
      BY <1>3, <2>1
    <3>3. QED
      BY <2>1, <3>1, <3>2 DEF Promised!InCurrentWindow, Zero
  <2>2. CASE /\ e.windowStart = now
             /\ e.count = 1
             /\ opened[k] = Zero \/ now >= opened[k] + Window
    BY <1>3, <1>5, <2>2 DEF Promised!InNewWindow, Zero
  <2>3. QED
    BY <1>4, <2>1, <2>2
<1>7. QED
  BY <1>2, <1>6 DEF Promised!Count, k

LEMMA StepRefines ==
    ShortStalls /\ WindowInv /\ TypeOK' /\ [Next]_vars => [Promised!Next]_(Promised!vars)
<1> SUFFICES ASSUME ShortStalls, WindowInv, TypeOK', [Next]_vars
             PROVE  [Promised!Next]_(Promised!vars)
  OBVIOUS
<1>1. ASSUME NEW p \in Procs, Admit(p)
      PROVE  Promised!Next
  <2> DEFINE e == CountedIn(Touched(req[p].key, req[p].now), req[p].now)
  <2>1. Promised!Count(req[p].key)
    BY <1>1, CountRefines DEF Admit, Finish, settings
  <2>2. req[p].key \in Keys
    BY <1>1 DEF Admit, WindowInv, BanInv, TypeOK
  <2>3. /\ e.count <= requestsPerMin
        /\ counted' = [counted EXCEPT ![req[p].key] = e.count]
        /\ UNCHANGED banEnd
    BY <1>1 DEF Admit
  <2> HIDE DEF e
  <2>4. counted'[req[p].key] <= requestsPerMin
    BY <2>2, <2>3 DEF WindowInv, BanInv, TypeOK
  <2>5. QED
    BY <2>1, <2>2, <2>3, <2>4 DEF Promised!Next, Promised!Admit
<1>2. ASSUME NEW p \in Procs, RejectOverLimit(p)
      PROVE  Promised!Next
  <2> DEFINE e == CountedIn(Touched(req[p].key, req[p].now), req[p].now)
  <2>1. Promised!Count(req[p].key)
    BY <1>2, CountRefines DEF RejectOverLimit, Finish, settings
  <2>2. req[p].key \in Keys /\ req[p].now \in Promised!Recent
    BY <1>2, TimeAssumption
    DEF RejectOverLimit, WindowInv, BanInv, TypeOK, Req, Sampled, Promised!Recent
  <2>3. /\ e.count > requestsPerMin
        /\ counted' = [counted EXCEPT ![req[p].key] = e.count]
        /\ banEnd' = [banEnd EXCEPT ![req[p].key] = req[p].now + BanDuration]
    BY <1>2 DEF RejectOverLimit
  <2> HIDE DEF e
  <2>4. counted'[req[p].key] > requestsPerMin
    BY <2>2, <2>3 DEF WindowInv, BanInv, TypeOK
  <2>5. QED
    BY <2>1, <2>2, <2>3, <2>4 DEF Promised!Next, Promised!Ban
<1>3. ASSUME NEW rpm \in Limits, SetRequestsPerMin(rpm)
      PROVE  Promised!Next
  BY <1>3 DEF SetRequestsPerMin, history, Promised!Next, Promised!SetLimit
<1>4. CASE Tick
  BY <1>4 DEF Tick, settings, history, Promised!Next, Promised!Advance
<1>5. ASSUME UNCHANGED <<clock, requestsPerMin, opened, counted, banEnd>>
      PROVE  UNCHANGED Promised!vars
  BY <1>5 DEF Promised!vars
<1>6. QED
  BY <1>1, <1>2, <1>3, <1>4, <1>5 DEF Next, Step, Enter, ReadLimit, ReadClock,
     RejectBanned, Finish, Enable, Disable, vars, settings, history

(***************************************************************************)
(* The limiter of the code, which drops records, reads the clock before it *)
(* takes the mutex and reads its settings without it, implements the       *)
(* limiter that never forgets, when goroutines stall for at most half a    *)
(* window between lines 93 and 95 of Allow.                                *)
(***************************************************************************)
THEOREM Implements ==
    ASSUME ShortStalls
    PROVE  Spec => ImplementsWindowLimiter
<1>1. Init => Promised!Init
  BY DEF Init, Promised!Init, Zero
<1>2. WindowInv /\ TypeOK' /\ [Next]_vars => [Promised!Next]_(Promised!vars)
  BY StepRefines
<1>3. QED
  BY <1>1, <1>2, WindowInvariant, TypeCorrect, PTL
  DEF Spec, ImplementsWindowLimiter, Promised!Spec

-----------------------------------------------------------------------------
(* What a client gets in any stretch of time.                              *)

AdmittedIn(A, k, w) == {a \in A : a.key = k /\ a.window = w}

AdmissionsTyped ==
    /\ served \in Nat
    /\ admissions \subseteq [nth : Nat, key : Keys, at : Int, window : Int]
    /\ IsFiniteSet(admissions)
    /\ \A a \in admissions : a.nth < served

\* The windows of one key lie at least a window apart, the latest of them is
\* the one the limiter counts in, and a request that stalled was admitted
\* soon after the end of its window at the latest.
AdmissionsPlaced ==
    /\ \A a \in admissions :
         /\ opened[a.key] # Zero
         /\ a.window = opened[a.key] \/ a.window + Window <= opened[a.key]
         /\ a.at < a.window + Window + MaxStall
    /\ \A a, b \in admissions : a.key = b.key => \/ a.window = b.window
                                                 \/ a.window + Window <= b.window
                                                 \/ b.window + Window <= a.window

\* No window admits more requests than the highest limit, nor, if it is the
\* current one, more than it has counted.
WindowsKeepLimit ==
    \A k \in Keys :
        /\ Cardinality(AdmittedIn(admissions, k, opened[k])) <= counted[k]
        /\ \A n \in Limits, w \in Int :
             Highest(n) => Cardinality(AdmittedIn(admissions, k, w)) <= n

RollingInv == AdmissionsTyped /\ AdmissionsPlaced /\ WindowsKeepLimit

\* What a step may do to the window of a key: count on in it, or open the next.
Advances(k) ==
    \/ opened'[k] = opened[k] /\ counted'[k] >= counted[k]
    \/ /\ opened'[k] # Zero
       /\ opened[k] = Zero \/ opened[k] + Window <= opened'[k]

LEMMA ObservedStep == [ObservedNext]_<<vars, observer>> => [Next]_vars
BY DEF ObservedNext, Next, Step, observer

LEMMA WindowsAdvance ==
    ASSUME ShortStalls, WindowInv, [Next]_vars, NEW k \in Keys
    PROVE  Advances(k)
<1>1. /\ opened[k] \in Int /\ counted[k] \in Nat
      /\ opened \in [Keys -> Int] /\ counted \in [Keys -> Nat]
  BY DEF WindowInv, BanInv, TypeOK
<1>2. CASE UNCHANGED history
  BY <1>1, <1>2 DEF history, Advances
<1>3. ASSUME NEW p \in Procs, Admit(p) \/ RejectOverLimit(p)
      PROVE  Advances(k)
  <2> DEFINE e == CountedIn(Touched(req[p].key, req[p].now), req[p].now)
  <2>1. /\ req[p].pc = "lock"
        /\ opened' = [opened EXCEPT ![req[p].key] = e.windowStart]
        /\ counted' = [counted EXCEPT ![req[p].key] = e.count]
    BY <1>3 DEF Admit, RejectOverLimit
  <2>2. /\ e.windowStart # Zero
        /\ \/ e.windowStart = opened[req[p].key] /\ e.count = counted[req[p].key] + 1
           \/ /\ e.windowStart = req[p].now
              /\ opened[req[p].key] = Zero \/ req[p].now >= opened[req[p].key] + Window
    BY <2>1, CountedInAWindow
  <2>3. req[p].now \in Int /\ Window \in Nat
    BY TimeAssumption DEF WindowInv, BanInv, TypeOK, Req
  <2> HIDE DEF e
  <2>4. CASE k = req[p].key
    <3>1. opened'[k] = e.windowStart /\ counted'[k] = e.count
      BY <1>1, <2>1, <2>4
    <3>2. QED
      BY <1>1, <2>2, <2>3, <2>4, <3>1 DEF Advances
  <2>5. CASE k # req[p].key
    BY <1>1, <2>1, <2>5 DEF Advances
  <2>6. QED
    BY <2>4, <2>5
<1>4. QED
  BY <1>2, <1>3 DEF Next, Step, Enter, ReadLimit, ReadClock, RejectBanned,
     SetRequestsPerMin, Enable, Disable, Tick, vars, history

\* The sets of admissions the invariant counts are finite.
LEMMA AdmittedInFinite ==
    ASSUME AdmissionsTyped, NEW k, NEW w
    PROVE  /\ IsFiniteSet(AdmittedIn(admissions, k, w))
           /\ Cardinality(AdmittedIn(admissions, k, w)) \in Nat
<1>1. AdmittedIn(admissions, k, w) \in SUBSET admissions
  BY DEF AdmittedIn
<1>2. IsFiniteSet(AdmittedIn(admissions, k, w))
  BY <1>1, FS_Subset DEF AdmissionsTyped
<1>3. QED
  BY <1>2, FS_CardinalityType

\* The next window of a key has admitted nobody yet.
LEMMA NextWindowEmpty ==
    ASSUME RollingInv, NEW k \in Keys, opened[k] \in Int, NEW w \in Int,
           opened[k] = Zero \/ opened[k] + Window <= w
    PROVE  AdmittedIn(admissions, k, w) = {}
<1> SUFFICES ASSUME NEW a \in admissions, a.key = k, a.window = w
             PROVE  FALSE
  BY DEF AdmittedIn
<1>1. /\ opened[k] # Zero /\ a.window \in Int
      /\ a.window = opened[k] \/ a.window + Window <= opened[k]
  BY DEF RollingInv, AdmissionsTyped, AdmissionsPlaced
<1>2. QED
  BY <1>1, TimeAssumption

\* Forgetting admissions while the windows advance.
LEMMA ForgettingKeeps ==
    ASSUME RollingInv, served' = served, admissions' \subseteq admissions,
           \A k \in Keys : Advances(k),
           opened \in [Keys -> Int], counted \in [Keys -> Nat],
           opened' \in [Keys -> Int], counted' \in [Keys -> Nat]
    PROVE  RollingInv'
<1>1. AdmissionsTyped'
  BY FS_Subset DEF RollingInv, AdmissionsTyped
<1>2. AdmissionsPlaced'
  <2>1. ASSUME NEW a \in admissions'
        PROVE  /\ opened'[a.key] # Zero
               /\ a.window = opened'[a.key] \/ a.window + Window <= opened'[a.key]
               /\ a.at < a.window + Window + MaxStall
    <3>1. a \in admissions /\ a.key \in Keys /\ a.window \in Int
      BY <2>1 DEF RollingInv, AdmissionsTyped
    <3>2. /\ opened[a.key] # Zero
          /\ a.window = opened[a.key] \/ a.window + Window <= opened[a.key]
          /\ a.at < a.window + Window + MaxStall
      BY <3>1 DEF RollingInv, AdmissionsPlaced
    <3>3. Advances(a.key) /\ opened[a.key] \in Int /\ opened'[a.key] \in Int
      BY <3>1
    <3>4. QED
      BY <3>1, <3>2, <3>3, TimeAssumption DEF Advances
  <2>2. QED
    BY <2>1 DEF RollingInv, AdmissionsPlaced
<1>3. ASSUME NEW k \in Keys
      PROVE  /\ Cardinality(AdmittedIn(admissions', k, opened'[k])) <= counted'[k]
             /\ \A n \in Limits, w \in Int :
                  Highest(n) => Cardinality(AdmittedIn(admissions', k, w)) <= n
  <2>1. ASSUME NEW w
        PROVE  /\ Cardinality(AdmittedIn(admissions', k, w)) \in Nat
               /\ Cardinality(AdmittedIn(admissions', k, w))
                    <= Cardinality(AdmittedIn(admissions, k, w))
               /\ Cardinality(AdmittedIn(admissions, k, w)) \in Nat
    <3>1. AdmittedIn(admissions', k, w) \in SUBSET AdmittedIn(admissions, k, w)
      BY DEF AdmittedIn
    <3>2. /\ IsFiniteSet(AdmittedIn(admissions, k, w))
          /\ Cardinality(AdmittedIn(admissions, k, w)) \in Nat
      BY AdmittedInFinite DEF RollingInv
    <3>3. IsFiniteSet(AdmittedIn(admissions', k, w))
      BY <3>1, <3>2, FS_Subset
    <3>4. QED
      BY <3>1, <3>2, <3>3, FS_Subset, FS_CardinalityType
  <2>2. \A n \in Limits, w \in Int : Highest(n) => Cardinality(AdmittedIn(admissions', k, w)) <= n
    <3> SUFFICES ASSUME NEW n \in Limits, NEW w \in Int, Highest(n)
                 PROVE  Cardinality(AdmittedIn(admissions', k, w)) <= n
      OBVIOUS
    <3>1. Cardinality(AdmittedIn(admissions, k, w)) <= n
      BY DEF RollingInv, WindowsKeepLimit
    <3>2. n \in Int
      BY DEF Highest
    <3>3. QED
      BY <2>1, <3>1, <3>2
  <2>3. Cardinality(AdmittedIn(admissions', k, opened'[k])) <= counted'[k]
    <3>1. /\ opened[k] \in Int /\ opened'[k] \in Int /\ counted[k] \in Nat /\ counted'[k] \in Nat
          /\ Advances(k)
      OBVIOUS
    <3>2. /\ Cardinality(AdmittedIn(admissions', k, opened'[k])) \in Nat
          /\ Cardinality(AdmittedIn(admissions', k, opened'[k]))
               <= Cardinality(AdmittedIn(admissions, k, opened'[k]))
          /\ Cardinality(AdmittedIn(admissions, k, opened'[k])) \in Nat
      BY <2>1
    <3>3. CASE opened'[k] = opened[k] /\ counted'[k] >= counted[k]
      <4>1. Cardinality(AdmittedIn(admissions, k, opened'[k])) <= counted[k]
        BY <3>3 DEF RollingInv, WindowsKeepLimit
      <4>2. QED
        BY <3>1, <3>2, <3>3, <4>1
    <3>4. CASE opened[k] = Zero \/ opened[k] + Window <= opened'[k]
      <4>1. AdmittedIn(admissions, k, opened'[k]) = {}
        BY <3>1, <3>4, NextWindowEmpty
      <4>2. QED
        BY <3>1, <3>2, <4>1, FS_EmptySet
    <3>5. QED
      BY <3>1, <3>3, <3>4 DEF Advances
  <2>4. QED
    BY <2>2, <2>3
<1>4. WindowsKeepLimit'
  BY <1>3 DEF WindowsKeepLimit, Highest
<1>5. QED
  BY <1>1, <1>2, <1>4 DEF RollingInv

\* An admission is counted in the current window of its key or opens the next,
\* and happens at most a stall after that window has ended.
LEMMA AdmissionCounted ==
    ASSUME ShortStalls, WindowInv, NEW p \in Procs, Admit(p), TypeOK'
    PROVE  LET k == req[p].key
           IN  /\ k \in Keys
               /\ opened'[k] # Zero
               /\ counted'[k] <= requestsPerMin
               /\ clock < opened'[k] + Window + MaxStall
               /\ \/ opened'[k] = opened[k] /\ counted'[k] = counted[k] + 1
                  \/ /\ opened[k] = Zero \/ opened[k] + Window <= opened'[k]
                     /\ counted'[k] = 1
<1> DEFINE k == req[p].key
           now == req[p].now
           t == Touched(k, now)
           e == CountedIn(t, now)
<1>1. /\ k \in Keys /\ now \in Int /\ clock \in Int /\ clock - now <= MaxStall
      /\ Window \in Nat /\ Window > 0 /\ MaxStall \in Nat
      /\ opened \in [Keys -> Int] /\ counted \in [Keys -> Nat]
  BY TimeAssumption DEF Admit, WindowInv, BanInv, TypeOK, Req, Sampled
<1>2. /\ req[p].pc = "lock"
      /\ e.count <= requestsPerMin
      /\ opened' = [opened EXCEPT ![k] = e.windowStart]
      /\ counted' = [counted EXCEPT ![k] = e.count]
  BY DEF Admit
<1>3. /\ e \in Entry
      /\ e.windowStart # Zero
      /\ \/ e.windowStart = opened[k] /\ e.count = counted[k] + 1
         \/ /\ e.windowStart = now
            /\ e.count = 1
            /\ opened[k] = Zero \/ now >= opened[k] + Window
  BY <1>2, CountedInAWindow
<1>4. t \in Entry
  BY <1>1, TouchedType DEF WindowInv, BanInv
<1>5. now < e.windowStart + Window
  <2> HIDE DEF t, now
  <2>1. CASE now - t.windowStart >= Window
    <3>1. e.windowStart = now
      BY <1>4, <2>1 DEF CountedIn, Entry
    <3>2. QED
      BY <1>1, <3>1
  <2>2. CASE ~(now - t.windowStart >= Window)
    <3>1. e.windowStart = t.windowStart /\ t.windowStart \in Int
      BY <1>4, <2>2 DEF CountedIn, Entry
    <3>2. QED
      BY <1>1, <2>2, <3>1
  <2>3. QED
    BY <2>1, <2>2
<1>6. e.windowStart \in Int
  BY <1>3 DEF Entry
<1> HIDE DEF k, now, e
<1>7. opened'[k] = e.windowStart /\ counted'[k] = e.count
  BY <1>1, <1>2
<1>8. clock < opened'[k] + Window + MaxStall
  BY <1>1, <1>5, <1>6, <1>7
<1>9. \/ opened'[k] = opened[k] /\ counted'[k] = counted[k] + 1
      \/ /\ opened[k] = Zero \/ opened[k] + Window <= opened'[k]
         /\ counted'[k] = 1
  BY <1>1, <1>3, <1>7
<1>10. QED
  BY <1>1, <1>2, <1>3, <1>7, <1>8, <1>9 DEF k

LEMMA AdmissionKeeps ==
    ASSUME ShortStalls, WindowInv, RollingInv, NEW p \in Procs, Admit(p), Record(p), TypeOK'
    PROVE  RollingInv'
<1> DEFINE k == req[p].key
           x == [nth |-> served, key |-> k, at |-> clock, window |-> opened'[k]]
<1>1. /\ k \in Keys
      /\ opened'[k] # Zero
      /\ counted'[k] <= requestsPerMin
      /\ clock < opened'[k] + Window + MaxStall
      /\ \/ opened'[k] = opened[k] /\ counted'[k] = counted[k] + 1
         \/ /\ opened[k] = Zero \/ opened[k] + Window <= opened'[k]
            /\ counted'[k] = 1
  BY AdmissionCounted
<1>2. /\ clock \in Int /\ requestsPerMin \in Limits
      /\ opened \in [Keys -> Int] /\ opened' \in [Keys -> Int]
      /\ counted \in [Keys -> Nat] /\ counted' \in [Keys -> Nat]
  BY DEF WindowInv, BanInv, TypeOK
<1>3. \A j \in Keys \ {k} : opened'[j] = opened[j] /\ counted'[j] = counted[j]
  BY <1>1, <1>2 DEF Admit
<1>4. served' = served + 1 /\ admissions' = admissions \cup {x}
  BY DEF Record
<1>5. /\ x \notin admissions /\ x.nth = served /\ x.key = k /\ x.at = clock
      /\ x.window = opened'[k]
      /\ x \in [nth : Nat, key : Keys, at : Int, window : Int]
  BY <1>1, <1>2 DEF RollingInv, AdmissionsTyped
<1>6. \A j \in Keys : Advances(j)
  <2>1. Advances(k)
    BY <1>1, <1>2 DEF Advances
  <2>2. ASSUME NEW j \in Keys \ {k}
        PROVE  Advances(j)
    BY <1>2, <1>3, <2>2 DEF Advances
  <2>3. QED
    BY <2>1, <2>2
<1> HIDE DEF k, x
<1>7. AdmissionsTyped'
  <2>1. IsFiniteSet(admissions')
    BY <1>4, FS_AddElement DEF RollingInv, AdmissionsTyped
  <2>2. QED
    BY <1>4, <1>5, <2>1 DEF RollingInv, AdmissionsTyped
<1>8. AdmissionsPlaced'
  <2>1. ASSUME NEW a \in admissions
        PROVE  /\ opened'[a.key] # Zero
               /\ a.window = opened'[a.key] \/ a.window + Window <= opened'[a.key]
               /\ a.at < a.window + Window + MaxStall
    <3>1. a.key \in Keys /\ a.window \in Int
      BY <2>1 DEF RollingInv, AdmissionsTyped
    <3>2. /\ opened[a.key] # Zero
          /\ a.window = opened[a.key] \/ a.window + Window <= opened[a.key]
          /\ a.at < a.window + Window + MaxStall
      BY <3>1 DEF RollingInv, AdmissionsPlaced
    <3>3. Advances(a.key) /\ opened[a.key] \in Int /\ opened'[a.key] \in Int
      BY <1>2, <1>6, <3>1
    <3>4. QED
      BY <3>1, <3>2, <3>3, TimeAssumption DEF Advances
  <2>2. ASSUME NEW a \in admissions', NEW b \in admissions', a.key = b.key
        PROVE  \/ a.window = b.window
               \/ a.window + Window <= b.window
               \/ b.window + Window <= a.window
    <3>1. CASE a \in admissions /\ b \in admissions
      BY <2>2, <3>1 DEF RollingInv, AdmissionsPlaced
    <3>2. CASE a = x
      BY <1>4, <1>5, <2>1, <2>2, <3>2
    <3>3. CASE b = x
      BY <1>4, <1>5, <2>1, <2>2, <3>3
    <3>4. QED
      BY <1>4, <3>1, <3>2, <3>3
  <2>3. QED
    BY <1>1, <1>4, <1>5, <2>1, <2>2 DEF AdmissionsPlaced
<1>9. \* the other windows keep their admissions
      ASSUME NEW j, NEW w, j # k \/ w # opened'[k]
      PROVE  AdmittedIn(admissions', j, w) = AdmittedIn(admissions, j, w)
  BY <1>4, <1>5, <1>9 DEF AdmittedIn
<1>10. \* and the one it is counted in gets the new one
       LET now == AdmittedIn(admissions', k, opened'[k])
       IN  Cardinality(now) \in Nat /\ Cardinality(now) <= counted'[k]
  <2>1. AdmittedIn(admissions', k, opened'[k])
          = AdmittedIn(admissions, k, opened'[k]) \cup {x}
    BY <1>4, <1>5 DEF AdmittedIn
  <2>2. x \notin AdmittedIn(admissions, k, opened'[k])
    BY <1>5 DEF AdmittedIn
  <2>3. /\ IsFiniteSet(AdmittedIn(admissions, k, opened'[k]))
        /\ Cardinality(AdmittedIn(admissions, k, opened'[k])) \in Nat
    BY AdmittedInFinite DEF RollingInv
  <2>4. Cardinality(AdmittedIn(admissions', k, opened'[k]))
          = Cardinality(AdmittedIn(admissions, k, opened'[k])) + 1
    BY <2>1, <2>2, <2>3, FS_AddElement
  <2>5. Cardinality(AdmittedIn(admissions, k, opened'[k])) + 1 <= counted'[k]
    <3>1. CASE opened'[k] = opened[k] /\ counted'[k] = counted[k] + 1
      <4>1. Cardinality(AdmittedIn(admissions, k, opened'[k])) <= counted[k]
        BY <1>1, <3>1 DEF RollingInv, WindowsKeepLimit
      <4>2. counted[k] \in Nat
        BY <1>1, <1>2
      <4>3. QED
        BY <2>3, <3>1, <4>1, <4>2
    <3>2. CASE /\ opened[k] = Zero \/ opened[k] + Window <= opened'[k]
               /\ counted'[k] = 1
      <4>1. AdmittedIn(admissions, k, opened'[k]) = {}
        BY <1>1, <1>2, <3>2, NextWindowEmpty
      <4>2. QED
        BY <3>2, <4>1, FS_EmptySet
    <3>3. QED
      BY <1>1, <3>1, <3>2
  <2>6. QED
    BY <2>3, <2>4, <2>5
<1>11. ASSUME NEW j \in Keys
       PROVE  Cardinality(AdmittedIn(admissions', j, opened'[j])) <= counted'[j]
  <2>1. CASE j = k
    BY <1>10, <2>1
  <2>2. CASE j # k
    BY <1>3, <1>9, <2>2 DEF RollingInv, WindowsKeepLimit
  <2>3. QED
    BY <2>1, <2>2
<1>12. ASSUME NEW j \in Keys, NEW n \in Limits, NEW w \in Int, Highest(n)
       PROVE  Cardinality(AdmittedIn(admissions', j, w)) <= n
  <2>1. CASE j = k /\ w = opened'[k]
    <3>1. requestsPerMin <= n /\ n \in Int /\ requestsPerMin \in Int /\ counted'[k] \in Int
      BY <1>1, <1>2, <1>12, LimitsAssumption DEF Highest
    <3>2. QED
      BY <1>1, <1>10, <2>1, <3>1
  <2>2. CASE j # k \/ w # opened'[k]
    BY <1>9, <1>12, <2>2 DEF RollingInv, WindowsKeepLimit
  <2>3. QED
    BY <2>1, <2>2
<1>13. WindowsKeepLimit'
  BY <1>11, <1>12 DEF WindowsKeepLimit, Highest
<1>14. QED
  BY <1>7, <1>8, <1>13 DEF RollingInv

LEMMA StepRollingInv ==
    ShortStalls /\ WindowInv /\ TypeOK' /\ RollingInv /\ [ObservedNext]_<<vars, observer>>
        => RollingInv'
<1> SUFFICES ASSUME ShortStalls, WindowInv, TypeOK', RollingInv,
                    [ObservedNext]_<<vars, observer>>
             PROVE  RollingInv'
  OBVIOUS
<1>1. ASSUME served' = served, admissions' \subseteq admissions
      PROVE  RollingInv'
  <2>1. [Next]_vars
    BY ObservedStep
  <2>2. \A k \in Keys : Advances(k)
    BY <2>1, WindowsAdvance
  <2>3. /\ opened \in [Keys -> Int] /\ counted \in [Keys -> Nat]
        /\ opened' \in [Keys -> Int] /\ counted' \in [Keys -> Nat]
    BY DEF WindowInv, BanInv, TypeOK
  <2>4. QED
    BY <1>1, <2>2, <2>3, ForgettingKeeps
<1>2. CASE \E p \in Procs : Admit(p) /\ Record(p)
  BY <1>2, AdmissionKeeps
<1>3. CASE Forget
  BY <1>1, <1>3 DEF Forget
<1>4. CASE UNCHANGED observer
  BY <1>1, <1>4 DEF observer
<1>5. QED
  BY <1>2, <1>3, <1>4 DEF ObservedNext

\* Of three windows of one key, the first was over, stalls included, more than
\* the observed span ago: what was admitted in the span lies in two windows.
LEMMA TwoWindows ==
    ASSUME WindowInv, RollingInv, NEW k \in Keys
    PROVE  \E v, w \in Int : Admitted(k, Window - MaxStall)
                                \subseteq AdmittedIn(admissions, k, v)
                                            \cup AdmittedIn(admissions, k, w)
<1> DEFINE recent == Admitted(k, Window - MaxStall)
<1>1. /\ opened[k] \in Int /\ clock \in Int /\ clock > 0 /\ Window \in Nat /\ MaxStall \in Nat
  BY TimeAssumption DEF WindowInv, BanInv, TypeOK
<1>2. opened[k] <= clock
  <2>1. opened[k] = Zero \/ opened[k] <= clock \/ opened[k] + Window <= clock - MaxStall
    BY DEF WindowInv, WindowRecorded
  <2>2. QED
    BY <1>1, <2>1 DEF Zero
<1>3. ASSUME NEW a \in recent
      PROVE  /\ a \in admissions /\ a.key = k /\ a.window \in Int /\ a.at \in Int
             /\ a.at >= clock - (Window - MaxStall)
             /\ a.window = opened[k] \/ a.window + Window <= opened[k]
             /\ a.at < a.window + Window + MaxStall
  BY <1>3 DEF Admitted, RollingInv, AdmissionsTyped, AdmissionsPlaced
<1>4. CASE \A a \in recent : a.window = opened[k]
  <2>1. recent \subseteq AdmittedIn(admissions, k, opened[k])
                           \cup AdmittedIn(admissions, k, opened[k])
    BY <1>3, <1>4 DEF AdmittedIn
  <2>2. QED
    BY <1>1, <2>1
<1>5. ASSUME NEW a \in recent, a.window # opened[k]
      PROVE  recent \subseteq AdmittedIn(admissions, k, a.window)
                                \cup AdmittedIn(admissions, k, opened[k])
  <2> SUFFICES ASSUME NEW b \in recent, b.window # opened[k], b.window # a.window
               PROVE  FALSE
    BY <1>3 DEF AdmittedIn
  <2>1. /\ a.window \in Int /\ a.at \in Int
        /\ a.at >= clock - (Window - MaxStall)
        /\ a.window + Window <= opened[k]
        /\ a.at < a.window + Window + MaxStall
    BY <1>3, <1>5
  <2>2. /\ b.window \in Int /\ b.at \in Int
        /\ b.at >= clock - (Window - MaxStall)
        /\ b.window + Window <= opened[k]
        /\ b.at < b.window + Window + MaxStall
    BY <1>3
  <2>3. a.window + Window <= b.window \/ b.window + Window <= a.window
    BY <1>3 DEF RollingInv, AdmissionsPlaced
  <2>4. QED
    BY <1>1, <1>2, <2>1, <2>2, <2>3
<1>6. QED
  BY <1>1, <1>3, <1>4, <1>5

LEMMA RollingInvBounds == WindowInv /\ RollingInv => RollingBound
<1> SUFFICES ASSUME WindowInv, RollingInv, NEW k \in Keys, NEW n \in Limits, Highest(n)
             PROVE  Cardinality(Admitted(k, Window - MaxStall)) <= 2 * n
  BY DEF RollingBound
<1>1. PICK v \in Int, w \in Int : Admitted(k, Window - MaxStall)
                                    \subseteq AdmittedIn(admissions, k, v)
                                                \cup AdmittedIn(admissions, k, w)
  BY TwoWindows
<1> DEFINE A == AdmittedIn(admissions, k, v)
           B == AdmittedIn(admissions, k, w)
<1>2. /\ IsFiniteSet(A) /\ Cardinality(A) \in Nat /\ Cardinality(A) <= n
      /\ IsFiniteSet(B) /\ Cardinality(B) \in Nat /\ Cardinality(B) <= n
      /\ n \in Nat
  BY AdmittedInFinite DEF RollingInv, WindowsKeepLimit, Highest
<1> HIDE DEF A, B
<1>3. IsFiniteSet(A \cap B) /\ Cardinality(A \cap B) \in Nat
  <2>1. A \cap B \in SUBSET A
    OBVIOUS
  <2>2. QED
    BY <1>2, <2>1, FS_Subset, FS_CardinalityType
<1>4. /\ IsFiniteSet(A \cup B)
      /\ Cardinality(A \cup B) = Cardinality(A) + Cardinality(B) - Cardinality(A \cap B)
  BY <1>2, FS_Union
<1>5. Admitted(k, Window - MaxStall) \in SUBSET (A \cup B)
  BY <1>1 DEF A, B
<1>6. /\ Cardinality(Admitted(k, Window - MaxStall)) \in Nat
      /\ Cardinality(Admitted(k, Window - MaxStall)) <= Cardinality(A \cup B)
  BY <1>4, <1>5, FS_Subset, FS_CardinalityType
<1>7. QED
  BY <1>2, <1>3, <1>4, <1>6

(***************************************************************************)
(* Whatever a client does, and whatever limits the admin sets meanwhile, a *)
(* stretch of time shorter than a window by the longest stall sees at most *)
(* twice the highest limit of its requests admitted: the fixed windows of  *)
(* Allow (lines 112-118) overlap such a stretch two at a time, although    *)
(* records are dropped and requests carry old readings of the clock.       *)
(***************************************************************************)
THEOREM RollingBoundHolds ==
    ASSUME ShortStalls
    PROVE  ObservedSpec => []RollingBound
<1>1. ObservedInit => RollingInv
  <2>1. ASSUME ObservedInit
        PROVE  AdmissionsTyped /\ AdmissionsPlaced
    BY <2>1, FS_EmptySet DEF ObservedInit, AdmissionsTyped, AdmissionsPlaced
  <2>2. ASSUME ObservedInit
        PROVE  WindowsKeepLimit
    <3>1. ASSUME NEW k, NEW w
          PROVE  Cardinality(AdmittedIn(admissions, k, w)) = 0
      <4>1. AdmittedIn(admissions, k, w) = {}
        BY <2>2 DEF ObservedInit, AdmittedIn
      <4>2. QED
        BY <4>1, FS_EmptySet
    <3>2. \A k \in Keys : counted[k] = 0
      BY <2>2 DEF ObservedInit, Init
    <3>3. \A n \in Limits : Highest(n) => 0 <= n
      BY DEF Highest
    <3>4. ASSUME NEW k \in Keys
          PROVE  Cardinality(AdmittedIn(admissions, k, opened[k])) <= counted[k]
      BY <3>1, <3>2
    <3>5. ASSUME NEW k \in Keys, NEW n \in Limits, NEW w \in Int, Highest(n)
          PROVE  Cardinality(AdmittedIn(admissions, k, w)) <= n
      BY <3>1, <3>3, <3>5
    <3>6. QED
      BY <3>4, <3>5 DEF WindowsKeepLimit
  <2>3. QED
    BY <2>1, <2>2 DEF RollingInv
<1>2. ObservedSpec => Spec
  BY ObservedStep, PTL DEF ObservedSpec, ObservedInit, Spec
<1>3. WindowInv /\ TypeOK' /\ RollingInv /\ [ObservedNext]_<<vars, observer>> => RollingInv'
  BY StepRollingInv
<1>4. QED
  BY <1>1, <1>2, <1>3, RollingInvBounds, WindowInvariant, TypeCorrect, PTL DEF ObservedSpec
=============================================================================
