\* Two callers, two rules, the loops, and Stop in the middle of a scan, a cleanup
\* or a reset. No symmetry: LoopsEnd is a liveness property.
CONSTANTS
    i1 = i1
    i2 = i2
    r1 = r1
    p1 = p1
    p2 = p2
    a1 = a1
    NoRule = NoRule
    Ids = {i1, i2}
    Requests = {r1}
    Callers = {p1, p2}
    Admins = {a1}
    Actions = {"block", "allow", "throttle"}
    TargetSets = {{r1}}
    Caps = {1}
    Durations = {1}
    MaxTime = 2
    MaxCount = 2
SPECIFICATION FairSpec
INVARIANTS TypeOK ThrottleCap NoLiveRuleLost
PROPERTIES ImplementsRuleTable LoopsEnd
