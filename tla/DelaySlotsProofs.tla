-------------------------- MODULE DelaySlotsProofs --------------------------
(***************************************************************************)
(* Proofs about the delay slots, for any number of goroutines, settings    *)
(* and channels: types, the accounting of slots, and that giving a slot    *)
(* back never blocks.                                                      *)
(***************************************************************************)
EXTENDS DelaySlots, FiniteSetTheorems, TLAPS

LEMMA SlotsType == \A n \in Int : Slots(n) \in Nat \ {0}
BY SettingsAssumption DEF Slots

LEMMA HoldersFinite ==
    \A c : IsFiniteSet(Holders(c)) /\ Cardinality(Holders(c)) \in Nat
<1> TAKE c
<1>1. Holders(c) \subseteq Procs
  BY DEF Holders
<1>2. QED
  BY <1>1, ProcsAssumption, FS_Subset, FS_CardinalityType

-----------------------------------------------------------------------------
(* Type correctness.                                                       *)

LEMMA InitTypeOK == Init => TypeOK
<1> SUFFICES ASSUME Init PROVE TypeOK
  OBVIOUS
<1>1. throttleDelay \in Nat /\ maxDelaySlots \in Nat \ {0}
  BY SlotsType, SettingsAssumption DEF Init
<1>2. made \in 0..MaxChans /\ delaySem \in 0..made
  BY SettingsAssumption DEF Init, Nil
<1>3. QED
  BY <1>1, <1>2 DEF Init, TypeOK, Nil, Chans

LEMMA StepTypeOK == TypeOK /\ [Next]_vars => TypeOK'
<1> SUFFICES ASSUME TypeOK, [Next]_vars
             PROVE  TypeOK'
  OBVIOUS
<1> USE SettingsAssumption
<1>1. ASSUME NEW p \in Procs, ReadSem(p)
      PROVE  TypeOK'
  BY <1>1 DEF ReadSem, TypeOK, limiter, Nil
<1>2. ASSUME NEW p \in Procs, Acquire(p)
      PROVE  TypeOK'
  BY <1>2 DEF Acquire, TypeOK, limiter, Nil, Chans
<1>3. ASSUME NEW p \in Procs, Refused(p)
      PROVE  TypeOK'
  BY <1>3 DEF Refused, TypeOK, limiter, Nil
<1>4. ASSUME NEW p \in Procs, StartSleep(p)
      PROVE  TypeOK'
  BY <1>4 DEF StartSleep, TypeOK, limiter, Nil
<1>5. ASSUME NEW p \in Procs, Wake(p)
      PROVE  TypeOK'
  BY <1>5 DEF Wake, TypeOK, limiter, Nil
<1>6. ASSUME NEW p \in Procs, Answer(p)
      PROVE  TypeOK'
  BY <1>6 DEF Answer, TypeOK, limiter, Nil
<1>7. ASSUME NEW p \in Procs, ReleaseDelaySlot(p)
      PROVE  TypeOK'
  BY <1>7 DEF ReleaseDelaySlot, TypeOK, limiter, Nil, Chans
<1>8. ASSUME NEW n \in Nat \ {0}, NewSem(n), UNCHANGED <<tokens, pc, sem>>,
             throttleDelay' \in Nat, maxDelaySlots' \in Nat \ {0}
      PROVE  TypeOK'
  BY <1>8 DEF NewSem, TypeOK, Chans, Nil
<1>9. ASSUME NEW d \in Delays, SetThrottleDelay(d)
      PROVE  TypeOK'
  <2>1. Slots(maxDelaySlots) \in Nat \ {0}
    BY SlotsType DEF TypeOK
  <2>2. /\ throttleDelay' \in Nat /\ maxDelaySlots' = maxDelaySlots
        /\ UNCHANGED <<tokens, pc, sem>>
    BY <1>9 DEF SetThrottleDelay
  <2>3. CASE NewSem(Slots(maxDelaySlots))
    BY <1>8, <2>1, <2>2, <2>3 DEF TypeOK
  <2>4. CASE KeepSem
    BY <2>2, <2>4 DEF KeepSem, TypeOK
  <2>5. CASE delaySem' = Nil /\ UNCHANGED <<made, capacity>>
    BY <2>2, <2>5 DEF TypeOK, Nil
  <2>6. QED
    BY <1>9, <2>3, <2>4, <2>5 DEF SetThrottleDelay
<1>10. ASSUME NEW n \in SlotSettings, SetMaxDelaySlots(n)
       PROVE  TypeOK'
  <2>1. Slots(n) \in Nat \ {0}
    BY SlotsType
  <2>2. /\ maxDelaySlots' \in Nat \ {0}
        /\ UNCHANGED <<throttleDelay, tokens, pc, sem>>
    BY <1>10, <2>1 DEF SetMaxDelaySlots
  <2>3. CASE NewSem(Slots(n))
    BY <1>8, <2>1, <2>2, <2>3 DEF TypeOK
  <2>4. CASE KeepSem
    BY <2>2, <2>4 DEF KeepSem, TypeOK
  <2>5. QED
    BY <1>10, <2>3, <2>4 DEF SetMaxDelaySlots
<1>11. CASE UNCHANGED vars
  BY <1>11 DEF vars, TypeOK
<1>12. QED
  BY <1>1, <1>2, <1>3, <1>4, <1>5, <1>6, <1>7, <1>9, <1>10, <1>11 DEF Next, Step

(***************************************************************************)
(* Every variable keeps its type, and a goroutine that has read the        *)
(* semaphore works on a channel that exists (TryAcquireDelaySlot).         *)
(***************************************************************************)
THEOREM TypeCorrect == Spec => []TypeOK
<1>1. QED
  BY InitTypeOK, StepTypeOK, PTL DEF Spec

-----------------------------------------------------------------------------
(* The accounting of slots.                                                *)

\* Channels not made yet hold nothing.
Inv == TypeOK /\ SlotsAccounted

LEMMA InitAccounted == Init => SlotsAccounted
<1> SUFFICES ASSUME Init, NEW c \in Chans
             PROVE  tokens[c] = Cardinality(Holders(c)) /\ tokens[c] <= capacity[c]
  BY DEF SlotsAccounted
<1>1. Holders(c) = {}
  BY DEF Init, Holders
<1>2. Cardinality(Holders(c)) = 0
  BY <1>1, FS_EmptySet
<1>3. tokens[c] = 0 /\ capacity[c] \in Nat
  BY InitTypeOK DEF Init, TypeOK
<1>4. QED
  BY <1>2, <1>3

\* Goroutine p takes a slot of channel x.
LEMMA AcquireAccounted ==
    ASSUME Inv, NEW p \in Procs, Acquire(p)
    PROVE  SlotsAccounted'
<1>1. /\ sem[p] \in Chans /\ tokens \in [Chans -> Nat] /\ capacity \in [Chans -> Nat]
      /\ pc[p] = "send" /\ tokens[sem[p]] < capacity[sem[p]]
      /\ tokens' = [tokens EXCEPT ![sem[p]] = tokens[sem[p]] + 1]
      /\ capacity' = capacity
  BY SettingsAssumption DEF Acquire, Inv, TypeOK, limiter, Chans, Nil
<1>2. ASSUME NEW c \in Chans
      PROVE  tokens'[c] = Cardinality(Holders(c)') /\ tokens'[c] <= capacity'[c]
  <2>1. tokens[c] = Cardinality(Holders(c)) /\ tokens[c] <= capacity[c]
    BY DEF Inv, SlotsAccounted
  <2>2. CASE c = sem[p]
    <3>1. Holders(c)' = Holders(c) \cup {p} /\ p \notin Holders(c)
      BY <1>1, <2>2 DEF Acquire, Holders, Inv, TypeOK
    <3>2. Cardinality(Holders(c)') = Cardinality(Holders(c)) + 1
      BY <3>1, HoldersFinite, FS_AddElement
    <3>3. QED
      BY <1>1, <2>1, <2>2, <3>2
  <2>3. CASE c # sem[p]
    <3>1. Holders(c)' = Holders(c)
      BY <2>3 DEF Acquire, Holders, Inv, TypeOK
    <3>2. QED
      BY <1>1, <2>1, <2>3, <3>1
  <2>4. QED
    BY <2>2, <2>3
<1>3. QED
  BY <1>2 DEF SlotsAccounted

\* Goroutine p gives its slot back to the channel it took it from.
LEMMA ReleaseAccounted ==
    ASSUME Inv, NEW p \in Procs, ReleaseDelaySlot(p)
    PROVE  SlotsAccounted'
<1>1. /\ sem[p] \in Chans /\ tokens \in [Chans -> Nat] /\ capacity \in [Chans -> Nat]
      /\ pc[p] = "release" /\ tokens[sem[p]] > 0
      /\ tokens' = [tokens EXCEPT ![sem[p]] = tokens[sem[p]] - 1]
      /\ capacity' = capacity
  BY SettingsAssumption DEF ReleaseDelaySlot, Inv, TypeOK, limiter, Chans, Nil
<1>2. ASSUME NEW c \in Chans
      PROVE  tokens'[c] = Cardinality(Holders(c)') /\ tokens'[c] <= capacity'[c]
  <2>1. tokens[c] = Cardinality(Holders(c)) /\ tokens[c] <= capacity[c]
    BY DEF Inv, SlotsAccounted
  <2>2. CASE c = sem[p]
    <3>1. Holders(c)' = Holders(c) \ {p} /\ p \in Holders(c)
      BY <1>1, <2>2 DEF ReleaseDelaySlot, Holders, Inv, TypeOK, Chans, Nil
    <3>2. Cardinality(Holders(c)') = Cardinality(Holders(c)) - 1
      BY <3>1, HoldersFinite, FS_RemoveElement
    <3>3. QED
      BY <1>1, <2>1, <2>2, <3>2
  <2>3. CASE c # sem[p]
    <3>1. Holders(c)' = Holders(c)
      BY <2>3 DEF ReleaseDelaySlot, Holders, Inv, TypeOK, Chans, Nil
    <3>2. QED
      BY <1>1, <2>1, <2>3, <3>1
  <2>4. QED
    BY <2>2, <2>3
<1>3. QED
  BY <1>2 DEF SlotsAccounted

\* A new channel is empty, and no other channel changes.
LEMMA NewSemAccounted ==
    ASSUME Inv, NEW n \in Nat, NewSem(n), UNCHANGED <<tokens, pc, sem>>
    PROVE  SlotsAccounted'
<1>1. ASSUME NEW c \in Chans
      PROVE  tokens'[c] = Cardinality(Holders(c)') /\ tokens'[c] <= capacity'[c]
  <2>1. tokens[c] = Cardinality(Holders(c)) /\ tokens[c] <= capacity[c] /\ tokens' = tokens
    BY DEF Inv, SlotsAccounted
  <2>2. Holders(c)' = Holders(c)
    BY DEF Holders
  <2>3. CASE c # made + 1
    <3>1. capacity'[c] = capacity[c]
      BY <2>3 DEF NewSem, Inv, TypeOK
    <3>2. QED
      BY <2>1, <2>2, <3>1
  <2>4. CASE c = made + 1
    <3>1. Holders(c) = {}
      BY <2>4 DEF Holders, Inv, TypeOK
    <3>2. Cardinality(Holders(c)) = 0
      BY <3>1, FS_EmptySet
    <3>3. capacity'[c] = n
      BY <2>4 DEF NewSem, Inv, TypeOK
    <3>4. QED
      BY <2>1, <2>2, <3>2, <3>3
  <2>5. QED
    BY <2>3, <2>4
<1>2. QED
  BY <1>1 DEF SlotsAccounted

LEMMA StepAccounted == Inv /\ [Next]_vars => SlotsAccounted'
<1> SUFFICES ASSUME Inv, [Next]_vars
             PROVE  SlotsAccounted'
  OBVIOUS
<1>1. ASSUME UNCHANGED <<tokens, capacity>>,
             \A c \in Chans : Holders(c)' = Holders(c)
      PROVE  SlotsAccounted'
  BY <1>1 DEF Inv, SlotsAccounted
<1>2. ASSUME NEW p \in Procs, ReadSem(p)
      PROVE  SlotsAccounted'
  <2>1. \A c \in Chans : Holders(c)' = Holders(c)
    BY <1>2 DEF ReadSem, Holders, Inv, TypeOK, Chans, Nil
  <2>2. QED
    BY <1>1, <1>2, <2>1 DEF ReadSem, limiter
<1>3. ASSUME NEW p \in Procs, Refused(p)
      PROVE  SlotsAccounted'
  <2>1. \A c \in Chans : Holders(c)' = Holders(c)
    BY <1>3 DEF Refused, Holders, Inv, TypeOK, Chans, Nil
  <2>2. QED
    BY <1>1, <1>3, <2>1 DEF Refused, limiter
<1>4. ASSUME NEW p \in Procs, StartSleep(p) \/ Wake(p)
      PROVE  SlotsAccounted'
  <2>1. \A c \in Chans : Holders(c)' = Holders(c)
    BY <1>4 DEF StartSleep, Wake, Holders, Inv, TypeOK
  <2>2. QED
    BY <1>1, <1>4, <2>1 DEF StartSleep, Wake, limiter
<1>5. ASSUME NEW p \in Procs, Answer(p)
      PROVE  SlotsAccounted'
  <2>1. \A c \in Chans : Holders(c)' = Holders(c)
    BY <1>5 DEF Answer, Holders, Inv, TypeOK, Chans, Nil
  <2>2. QED
    BY <1>1, <1>5, <2>1 DEF Answer, limiter
<1>6. ASSUME NEW d \in Delays, SetThrottleDelay(d)
      PROVE  SlotsAccounted'
  <2>1. Slots(maxDelaySlots) \in Nat /\ UNCHANGED <<tokens, pc, sem>>
    BY <1>6, SlotsType DEF SetThrottleDelay, Inv, TypeOK
  <2>2. CASE NewSem(Slots(maxDelaySlots))
    BY <2>1, <2>2, NewSemAccounted
  <2>3. CASE capacity' = capacity
    BY <1>1, <2>1, <2>3 DEF Holders
  <2>4. QED
    BY <1>6, <2>2, <2>3 DEF SetThrottleDelay, KeepSem
<1>7. ASSUME NEW n \in SlotSettings, SetMaxDelaySlots(n)
      PROVE  SlotsAccounted'
  <2>1. Slots(n) \in Nat /\ UNCHANGED <<tokens, pc, sem>>
    BY <1>7, SlotsType, SettingsAssumption DEF SetMaxDelaySlots
  <2>2. CASE NewSem(Slots(n))
    BY <2>1, <2>2, NewSemAccounted
  <2>3. CASE KeepSem
    BY <1>1, <2>1, <2>3 DEF KeepSem, Holders
  <2>4. QED
    BY <1>7, <2>2, <2>3 DEF SetMaxDelaySlots
<1>8. CASE UNCHANGED vars
  BY <1>1, <1>8 DEF vars, Holders
<1>9. QED
  BY <1>2, <1>3, <1>4, <1>5, <1>6, <1>7, <1>8, AcquireAccounted, ReleaseAccounted
  DEF Next, Step

LEMMA Invariant == Spec => []Inv
<1>1. Init => Inv
  BY InitTypeOK, InitAccounted DEF Inv
<1>2. Inv /\ [Next]_vars => Inv'
  BY StepTypeOK, StepAccounted DEF Inv
<1>3. QED
  BY <1>1, <1>2, PTL DEF Spec

(***************************************************************************)
(* Every slot taken is held by exactly one goroutine, on the channel it    *)
(* came from, and no channel is overdrawn, whatever the setters do.        *)
(***************************************************************************)
THEOREM SlotsAreAccounted == Spec => []SlotsAccounted
<1>1. Inv => SlotsAccounted
  BY DEF Inv
<1>2. QED
  BY <1>1, Invariant, PTL

(***************************************************************************)
(* The deferred receive of handleRateLimited always finds its value, so a  *)
(* rejected request cannot hang on giving its slot back.                   *)
(***************************************************************************)
THEOREM ReleasesNeverBlock == Spec => []ReleaseNeverBlocks
<1>1. Inv => ReleaseNeverBlocks
  <2> SUFFICES ASSUME Inv, NEW p \in Procs, pc[p] = "release"
               PROVE  tokens[sem[p]] > 0
    BY DEF ReleaseNeverBlocks
  <2>1. sem[p] \in Chans
    BY SettingsAssumption DEF Inv, TypeOK, Chans, Nil
  <2>2. p \in Holders(sem[p])
    BY DEF Holders
  <2>3. Cardinality(Holders(sem[p])) # 0
    BY <2>2, HoldersFinite, FS_EmptySet
  <2>4. tokens[sem[p]] = Cardinality(Holders(sem[p])) /\ tokens[sem[p]] \in Nat
    BY <2>1 DEF Inv, SlotsAccounted, TypeOK
  <2>5. QED
    BY <2>3, <2>4
<1>2. QED
  BY <1>1, Invariant, PTL

-----------------------------------------------------------------------------
(***************************************************************************)
(* The setters replace, create and drop the semaphore so that it always    *)
(* fits the settings (limiter.go lines 177-205).                           *)
(***************************************************************************)
LEMMA StepMatches ==
    TypeOK /\ SemaphoreMatchesSettings /\ [Next]_vars => SemaphoreMatchesSettings'
<1> SUFFICES ASSUME TypeOK, SemaphoreMatchesSettings, [Next]_vars
             PROVE  SemaphoreMatchesSettings'
  OBVIOUS
<1>1. CASE UNCHANGED limiter
  BY <1>1 DEF limiter, SemaphoreMatchesSettings
<1>2. ASSUME NEW n \in Nat \ {0}, NewSem(n) PROVE delaySem' # Nil /\ capacity'[delaySem'] = n
  <2>1. made + 1 \in Chans /\ made + 1 # 0
    BY <1>2, SettingsAssumption DEF NewSem, TypeOK, Chans
  <2>2. QED
    BY <1>2, <2>1 DEF NewSem, TypeOK, Nil
<1>3. ASSUME NEW d \in Delays, SetThrottleDelay(d) PROVE SemaphoreMatchesSettings'
  <2>1. d \in Nat /\ throttleDelay' = d /\ maxDelaySlots' = maxDelaySlots
    BY <1>3, SettingsAssumption DEF SetThrottleDelay
  <2>2. Slots(maxDelaySlots) = maxDelaySlots /\ maxDelaySlots \in Nat \ {0}
    BY DEF Slots, TypeOK
  <2>3. CASE d > 0 /\ NewSem(Slots(maxDelaySlots))
    <3>1. delaySem' # Nil /\ capacity'[delaySem'] = maxDelaySlots
      BY <1>2, <2>2, <2>3
    <3>2. QED
      BY <2>1, <2>3, <3>1 DEF SemaphoreMatchesSettings
  <2>4. CASE d > 0 /\ delaySem # Nil /\ KeepSem
    BY <2>1, <2>4 DEF KeepSem, SemaphoreMatchesSettings
  <2>5. CASE d = 0 /\ delaySem' = Nil
    BY <2>1, <2>5 DEF SemaphoreMatchesSettings
  <2>6. QED
    BY <1>3, <2>3, <2>4, <2>5 DEF SetThrottleDelay
<1>4. ASSUME NEW n \in SlotSettings, SetMaxDelaySlots(n) PROVE SemaphoreMatchesSettings'
  <2>1. Slots(n) \in Nat \ {0} /\ maxDelaySlots' = Slots(n) /\ throttleDelay' = throttleDelay
    BY <1>4, SlotsType, SettingsAssumption DEF SetMaxDelaySlots
  <2>2. CASE delaySem # Nil /\ NewSem(Slots(n))
    <3>1. delaySem' # Nil /\ capacity'[delaySem'] = Slots(n)
      BY <1>2, <2>1, <2>2
    <3>2. QED
      BY <2>1, <2>2, <3>1 DEF SemaphoreMatchesSettings
  <2>3. CASE delaySem = Nil /\ KeepSem
    BY <2>1, <2>3 DEF KeepSem, SemaphoreMatchesSettings
  <2>4. QED
    BY <1>4, <2>2, <2>3 DEF SetMaxDelaySlots
<1>5. UNCHANGED limiter \/ (\E d \in Delays : SetThrottleDelay(d)) \/ (\E n \in SlotSettings : SetMaxDelaySlots(n))
  BY DEF Next, Step, ReadSem, Acquire, Refused, StartSleep, Wake, Answer, ReleaseDelaySlot, vars, limiter
<1>6. QED
  BY <1>1, <1>3, <1>4, <1>5

(***************************************************************************)
(* After any calls of the setters there is a semaphore exactly when there  *)
(* is a delay, with the slots that are configured.                         *)
(***************************************************************************)
THEOREM SemaphoreFits == Spec => []SemaphoreMatchesSettings
<1>1. Init => SemaphoreMatchesSettings
  BY SettingsAssumption DEF Init, SemaphoreMatchesSettings, Chans, Nil
<1>2. QED
  BY <1>1, StepMatches, TypeCorrect, PTL DEF Spec
=============================================================================
