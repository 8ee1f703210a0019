\* Limits of one and two, so that a window can be spent in parts and the limit be
\* changed within it, and three windows.
CONSTANTS
    k1 = k1
    p1 = p1
    p2 = p2
    NoEntry = NoEntry
    Keys = {k1}
    Procs = {p1, p2}
    Limits = {1, 2}
    Window = 3
    CleanupInterval = 3
    BanDuration = 3
    MaxStall = 1
    MaxTime = 10
SPECIFICATION ObservedSpec
SYMMETRY Symmetry
INVARIANTS RollingBound
