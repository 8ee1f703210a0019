\* One caller and two rules that both match its request.
CONSTANTS
    i1 = i1
    i2 = i2
    r1 = r1
    p1 = p1
    p2 = p2
    a1 = a1
    NoRule = NoRule
    Ids = {i1, i2}
    Requests = {r1}
    Callers = {p1}
    Admins = {a1}
    Actions = {"block", "allow"}
    TargetSets = {{r1}}
    Caps = {1}
    Durations = {1}
    MaxTime = 2
    MaxCount = 4
SPECIFICATION FairSpec
PROPERTIES BlockDropsAll
