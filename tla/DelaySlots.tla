----------------------------- MODULE DelaySlots -----------------------------
(***************************************************************************)
(* The throttle delay of a rate limiter: the semaphore channel of          *)
(* internal/ratelimit/limiter.go, the rejected requests that hold one of   *)
(* its slots while they sleep (handleRateLimited of                        *)
(* internal/proxy/middleware.go), and the admin's setters, which replace   *)
(* the channel under the feet of the requests.                             *)
(*                                                                         *)
(* TryAcquireDelaySlot reads the channel under the mutex and sends to it   *)
(* after unlocking: two steps.  A channel is a number, in the order of     *)
(* creation; the state of one outlives its being replaced.                 *)
(***************************************************************************)
EXTENDS Integers, FiniteSets

CONSTANTS
    Procs,          \* goroutines answering rejected requests
    Delays,         \* values of throttleDelay, in some unit of time
    SlotSettings,   \* values given for MaxDelaySlots, by the config or an admin
    DefaultSlots,   \* what a setting of 0 or less means: 100 in the code
    MaxChans        \* bound: channels created

ASSUME ProcsAssumption == IsFiniteSet(Procs)
ASSUME SettingsAssumption ==
    /\ Delays \subseteq Nat
    /\ SlotSettings \subseteq Int
    /\ DefaultSlots \in Nat \ {0}
    /\ MaxChans \in Nat \ {0}

VARIABLES
    throttleDelay,  \* l.throttleDelay
    maxDelaySlots,  \* l.maxDelaySlots
    delaySem,       \* l.delaySem: the channel in force, or Nil
    made,           \* how many channels have been created
    capacity,       \* capacity[c]: the buffer size of channel c
    tokens,         \* tokens[c]: the values in its buffer
    pc,             \* pc[p]: where goroutine p is in handleRateLimited
    sem             \* sem[p]: the channel goroutine p got, or Nil

limiter == <<throttleDelay, maxDelaySlots, delaySem, made, capacity>>
vars == <<throttleDelay, maxDelaySlots, delaySem, made, capacity, tokens, pc, sem>>

Nil == 0
Chans == 1..MaxChans

\* The normalisation of the constructor and of SetMaxDelaySlots.
Slots(n) == IF n <= 0 THEN DefaultSlots ELSE n

Init ==
    /\ throttleDelay \in Delays
    /\ \E n \in SlotSettings : maxDelaySlots = Slots(n)
    /\ delaySem = IF throttleDelay > 0 THEN 1 ELSE Nil
    /\ made = delaySem
    /\ capacity = [c \in Chans |-> IF c = delaySem THEN maxDelaySlots ELSE 0]
    /\ tokens = [c \in Chans |-> 0]
    /\ pc = [p \in Procs |-> "idle"]
    /\ sem = [p \in Procs |-> Nil]

-----------------------------------------------------------------------------
(* A rejected request: handleRateLimited.                                  *)

\* Mutant of ReadSem: the check for a nil channel is missing.
ReadSem_Unchecked(p) ==
    /\ pc[p] = "idle"
    /\ sem' = [sem EXCEPT ![p] = delaySem]
    /\ pc' = [pc EXCEPT ![p] = "send"]
    /\ UNCHANGED <<limiter, tokens>>

\* The first half of TryAcquireDelaySlot.  With no channel in force the answer
\* is immediate.
ReadSem(p) ==
    /\ pc[p] = "idle"
    /\ sem' = [sem EXCEPT ![p] = delaySem]
    /\ pc' = [pc EXCEPT ![p] = IF delaySem = Nil THEN "answer" ELSE "send"]
    /\ UNCHANGED <<limiter, tokens>>

\* The second half: the channel read may have been replaced meanwhile.
Acquire(p) ==
    /\ pc[p] = "send"
    /\ tokens[sem[p]] < capacity[sem[p]]
    /\ tokens' = [tokens EXCEPT ![sem[p]] = @ + 1]
    /\ pc' = [pc EXCEPT ![p] = "acquired"]
    /\ UNCHANGED <<limiter, sem>>

Refused(p) ==
    /\ pc[p] = "send"
    /\ tokens[sem[p]] >= capacity[sem[p]]
    /\ sem' = [sem EXCEPT ![p] = Nil]
    /\ pc' = [pc EXCEPT ![p] = "answer"]
    /\ UNCHANGED <<limiter, tokens>>

\* time.Sleep(limiter.ThrottleDelay()): the delay is read after the slot was
\* taken, and may be 0 by then.
StartSleep(p) ==
    /\ pc[p] = "acquired"
    /\ pc' = [pc EXCEPT ![p] = IF throttleDelay > 0 THEN "sleep" ELSE "answer"]
    /\ UNCHANGED <<limiter, tokens, sem>>

Wake(p) ==
    /\ pc[p] = "sleep"
    /\ pc' = [pc EXCEPT ![p] = "answer"]
    /\ UNCHANGED <<limiter, tokens, sem>>

\* The 429 is written, and then the deferred release runs if a slot is held.
Answer(p) ==
    /\ pc[p] = "answer"
    /\ pc' = [pc EXCEPT ![p] = IF sem[p] = Nil THEN "idle" ELSE "release"]
    /\ UNCHANGED <<limiter, tokens, sem>>

\* Mutant of ReleaseDelaySlot: the slot is given back to the channel in force.
ReleaseDelaySlot_InForce(p) ==
    /\ pc[p] = "release"
    /\ delaySem # Nil => tokens[delaySem] > 0
    /\ tokens' = IF delaySem = Nil THEN tokens ELSE [tokens EXCEPT ![delaySem] = @ - 1]
    /\ sem' = [sem EXCEPT ![p] = Nil]
    /\ pc' = [pc EXCEPT ![p] = "idle"]
    /\ UNCHANGED limiter

\* A receive: it would block on an empty channel.
ReleaseDelaySlot(p) ==
    /\ pc[p] = "release"
    /\ tokens[sem[p]] > 0
    /\ tokens' = [tokens EXCEPT ![sem[p]] = @ - 1]
    /\ sem' = [sem EXCEPT ![p] = Nil]
    /\ pc' = [pc EXCEPT ![p] = "idle"]
    /\ UNCHANGED limiter

-----------------------------------------------------------------------------
(* The admin's setters, each one section under the mutex.                  *)

\* make(chan struct{}, n), and the new channel is the one in force.
NewSem(n) ==
    /\ made < MaxChans
    /\ made' = made + 1
    /\ delaySem' = made + 1
    /\ capacity' = [capacity EXCEPT ![made + 1] = n]

KeepSem == UNCHANGED <<delaySem, made, capacity>>

SetThrottleDelay(d) ==
    /\ throttleDelay' = d
    /\ \/ d > 0 /\ delaySem = Nil /\ NewSem(Slots(maxDelaySlots))
       \/ d > 0 /\ delaySem # Nil /\ KeepSem
       \/ d = 0 /\ delaySem' = Nil /\ UNCHANGED <<made, capacity>>
    /\ UNCHANGED <<maxDelaySlots, tokens, pc, sem>>

\* Mutant of SetMaxDelaySlots: only the number is stored.
SetMaxDelaySlots_KeepingSem(n) ==
    /\ maxDelaySlots' = Slots(n)
    /\ KeepSem
    /\ UNCHANGED <<throttleDelay, tokens, pc, sem>>

SetMaxDelaySlots(n) ==
    /\ maxDelaySlots' = Slots(n)
    /\ IF delaySem # Nil THEN NewSem(Slots(n)) ELSE KeepSem
    /\ UNCHANGED <<throttleDelay, tokens, pc, sem>>

-----------------------------------------------------------------------------
Step(p) ==
    \/ ReadSem(p)
    \/ Acquire(p)
    \/ Refused(p)
    \/ StartSleep(p)
    \/ Wake(p)
    \/ Answer(p)
    \/ ReleaseDelaySlot(p)

\* What a goroutine does once it has started on a request.
Proceed(p) == pc[p] # "idle" /\ Step(p)

Next ==
    \/ \E p \in Procs : Step(p)
    \/ \E d \in Delays : SetThrottleDelay(d)
    \/ \E n \in SlotSettings : SetMaxDelaySlots(n)

\* The Go scheduler runs every goroutine that can run, and sleeps end.
Fairness == \A p \in Procs : WF_vars(Proceed(p))

Spec == Init /\ [][Next]_vars
FairSpec == Spec /\ Fairness

-----------------------------------------------------------------------------
(* What is checked and proved.                                             *)

(***************************************************************************)
(* The type of every variable; a goroutine past the read of the channel    *)
(* holds a channel that was made.                                          *)
(***************************************************************************)
TypeOK ==
    /\ throttleDelay \in Nat
    /\ maxDelaySlots \in Nat \ {0}
    /\ made \in 0..MaxChans
    /\ delaySem \in 0..made
    /\ capacity \in [Chans -> Nat]
    /\ tokens \in [Chans -> Nat]
    /\ pc \in [Procs -> {"idle", "send", "acquired", "sleep", "answer", "release"}]
    /\ sem \in [Procs -> 0..made]
    /\ \A p \in Procs : pc[p] \in {"send", "acquired", "sleep", "release"} => sem[p] # Nil

\* The goroutines that hold a slot of channel c.
Holders(c) ==
    {p \in Procs : pc[p] \in {"acquired", "sleep", "answer", "release"} /\ sem[p] = c}

(***************************************************************************)
(* Every slot taken from a channel, in force or replaced, belongs to one   *)
(* goroutine that will give it back to that channel, and no channel hands  *)
(* out more slots than it has (limiter.go lines 142-165 with the defer of  *)
(* middleware.go line 202).                                                *)
(***************************************************************************)
SlotsAccounted ==
    \A c \in Chans : /\ tokens[c] = Cardinality(Holders(c))
                     /\ tokens[c] <= capacity[c]

(***************************************************************************)
(* The receive of ReleaseDelaySlot (line 164) never blocks, whatever the   *)
(* admin did to the semaphore since the slot was taken.                    *)
(***************************************************************************)
ReleaseNeverBlocks ==
    \A p \in Procs : pc[p] = "release" => tokens[sem[p]] > 0

(***************************************************************************)
(* After any sequence of setter calls (lines 177-205) there is a semaphore *)
(* exactly when a delay is set, and it has the configured number of slots. *)
(***************************************************************************)
SemaphoreMatchesSettings ==
    /\ throttleDelay > 0 <=> delaySem # Nil
    /\ delaySem # Nil => capacity[delaySem] = maxDelaySlots

(***************************************************************************)
(* Every rejected request is answered and its goroutine let go, however    *)
(* the semaphore is replaced while it waits (handleRateLimited).           *)
(***************************************************************************)
EveryRequestAnswered == \A p \in Procs : pc[p] # "idle" ~> pc[p] = "idle"
=============================================================================
