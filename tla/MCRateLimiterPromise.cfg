\* Two keys, so that a request of one cleans up the record of the other; long
\* enough for a record to be dropped and its key to come back.
CONSTANTS
    k1 = k1
    k2 = k2
    p1 = p1
    p2 = p2
    NoEntry = NoEntry
    Keys = {k1, k2}
    Procs = {p1, p2}
    Limits = {0, 1}
    Window = 2
    CleanupInterval = 2
    BanDuration = 5
    MaxStall = 1
    MaxTime = 7
SPECIFICATION Spec
SYMMETRY Symmetry
INVARIANTS TypeOK IdleEntriesReclaimed BanRemembered
PROPERTIES ImplementsWindowLimiter BanEnforced
