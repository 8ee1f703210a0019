------------------------- MODULE RateLimiterRolling -------------------------
(***************************************************************************)
(* The rate limiter of RateLimiter.tla with an observer that remembers the *)
(* requests admitted in the last Window instants, to state what a client   *)
(* can get out of the limiter in any stretch of time, wherever the windows *)
(* happen to start and whatever limits the admin sets meanwhile.           *)
(***************************************************************************)
EXTENDS RateLimiter, FiniteSets

VARIABLES
    served,         \* history: how many requests were admitted so far
    admissions      \* history: the latest of them, numbered, with the key,
                    \* the instant and the window they were counted in

observer == <<served, admissions>>

ObservedInit ==
    /\ Init
    /\ served = 0
    /\ admissions = {}

Record(p) ==
    /\ served' = served + 1
    /\ admissions' = admissions \cup {[nth |-> served, key |-> req[p].key, at |-> clock,
                                       window |-> opened'[req[p].key]]}

Forget ==
    /\ served' = served
    /\ admissions' = {a \in admissions : a.at >= clock' - Window}

ObservedNext ==
    \/ \E p \in Procs : Admit(p) /\ Record(p)
    \/ Tick /\ Forget
    \/ /\ \/ \E p \in Procs :
               \/ \E k \in Keys : Enter(p, k)
               \/ ReadLimit(p)
               \/ ReadClock(p)
               \/ RejectBanned(p)
               \/ RejectOverLimit(p)
          \/ \E rpm \in Limits : SetRequestsPerMin(rpm)
          \/ Enable
          \/ Disable
       /\ UNCHANGED observer

ObservedSpec == ObservedInit /\ [][ObservedNext]_<<vars, observer>>

\* Requests of key k admitted within the last `span' of time.
Admitted(k, span) == {a \in admissions : a.key = k /\ a.at >= clock - span}

\* The highest limit an admin may set.
Highest(n) == n \in Limits \cap Nat /\ \A rpm \in Limits : rpm <= n

(***************************************************************************)
(* Two windows' worth of requests is all a client gets in any span of time *)
(* shorter than a window by the longest stall: the fixed window of Allow   *)
(* (lines 112-118) lets a client spend one limit at the end of a window    *)
(* and another at the start of the next, and no more.                      *)
(***************************************************************************)
RollingBound ==
    \A k \in Keys, n \in Limits :
        Highest(n) => Cardinality(Admitted(k, Window - MaxStall)) <= 2 * n
=============================================================================
