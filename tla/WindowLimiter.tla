--------------------------- MODULE WindowLimiter ---------------------------
(***************************************************************************)
(* What a rate limiter promises about each request key, with unbounded     *)
(* memory and no race: requests are counted in windows that start at least *)
(* Window apart, at most `limit' of the requests counted in a window are   *)
(* admitted, the first one above the limit bans the key, and nothing is    *)
(* counted or admitted while the ban runs.  A request turned away by a     *)
(* running ban changes nothing and is a stuttering step.                   *)
(*                                                                         *)
(* RateLimiter.tla, the mechanism of internal/ratelimit/limiter.go, is     *)
(* shown to implement this module.                                         *)
(***************************************************************************)
EXTENDS Integers

CONSTANTS
    Keys,           \* request identities: client addresses, key hashes, subjects
    Window,         \* length of the counting window
    BanDuration,    \* length of a ban
    Slack,          \* how old the instant a decision is based on may be
    Limits          \* the values requestsPerMin may take

VARIABLES
    clock,          \* real time
    limit,          \* the limit in force
    opened,         \* opened[k]: start of k's latest window, 0 when none
    counted,        \* counted[k]: requests counted in that window
    banEnd          \* banEnd[k]: the end of k's latest ban, 0 when none

vars == <<clock, limit, opened, counted, banEnd>>

Init ==
    /\ clock = 1
    /\ limit \in Limits
    /\ opened = [k \in Keys |-> 0]
    /\ counted = [k \in Keys |-> 0]
    /\ banEnd = [k \in Keys |-> 0]

\* The instants a decision taken now may be based on.
Recent == (clock - Slack)..clock

\* A request of key k is the next one of its current window, ...
InCurrentWindow(k) ==
    /\ opened[k] # 0
    /\ opened' = opened
    /\ counted' = [counted EXCEPT ![k] = counted[k] + 1]

\* ... or the first one of a new window, which may not overlap the old one.
InNewWindow(k) ==
    \E start \in Recent :
        /\ opened[k] = 0 \/ start >= opened[k] + Window
        /\ opened' = [opened EXCEPT ![k] = start]
        /\ counted' = [counted EXCEPT ![k] = 1]

\* Nothing is counted while a ban runs.
Count(k) ==
    /\ clock >= banEnd[k]
    /\ InCurrentWindow(k) \/ InNewWindow(k)
    /\ UNCHANGED <<clock, limit>>

Admit(k) ==
    /\ Count(k)
    /\ counted'[k] <= limit
    /\ UNCHANGED banEnd

Ban(k) ==
    /\ Count(k)
    /\ counted'[k] > limit
    /\ \E from \in Recent : banEnd' = [banEnd EXCEPT ![k] = from + BanDuration]

SetLimit ==
    /\ limit' \in Limits
    /\ UNCHANGED <<clock, opened, counted, banEnd>>

Advance ==
    /\ clock' = clock + 1
    /\ UNCHANGED <<limit, opened, counted, banEnd>>

Next ==
    \/ \E k \in Keys : Admit(k) \/ Ban(k)
    \/ SetLimit
    \/ Advance

Spec == Init /\ [][Next]_vars
=============================================================================
