\* Two admins whose calls overlap, a listener, a start with persisted rules and a
\* restart.
CONSTANTS
    a1 = a1
    a2 = a2
    i1 = i1
    i2 = i2
    l1 = l1
    l2 = l2
    NoLimiter = NoLimiter
    NoRule = NoRule
    Admins = {a1, a2}
    Ids = {i1, i2}
    Limiters = {l1, l2}
    Commands <- MCCommands
    Persisted <- MCPersisted
    Synced = TRUE
    Shared <- MCShared
    Configured <- MCConfigured
    Second = 2
    MaxLoad = 1
    MaxTime = 4
    MaxStarts = 2
SPECIFICATION Spec
SYMMETRY Symmetry
INVARIANTS TypeOK EnabledAsAsked AloneAsDocumented LiveRuleEnforced ReloadKeepsExpiry
PROPERTIES LoadedBeforeServing
\* The last process of the run has ended and the clock is at its bound.
CHECK_DEADLOCK FALSE
