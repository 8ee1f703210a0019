\* Two instances and no failure at all.
CONSTANTS
    x1 = x1
    x2 = x2
    i1 = i1
    NoRule = NoRule
    Undecodable = Undecodable
    Instances = {x1, x2}
    Ids = {i1}
    MaxOps = 2
    MaxFailures = 0
SPECIFICATION Spec
INVARIANTS InstancesConverge
