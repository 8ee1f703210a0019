\* Three goroutines against one or two slots, and enough channels for a slot to
\* be held on a channel replaced twice.
CONSTANTS
    p1 = p1
    p2 = p2
    p3 = p3
    Procs = {p1, p2, p3}
    Delays = {0, 1}
    SlotSettings = {0, 1}
    DefaultSlots = 2
    MaxChans = 3
SPECIFICATION FairSpec
INVARIANTS TypeOK SlotsAccounted ReleaseNeverBlocks SemaphoreMatchesSettings
PROPERTIES EveryRequestAnswered
