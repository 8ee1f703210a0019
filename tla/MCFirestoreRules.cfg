\* Two instances, one rule id, three commands and any one failure; no symmetry,
\* for the sake of the liveness property.
CONSTANTS
    x1 = x1
    x2 = x2
    i1 = i1
    NoRule = NoRule
    Undecodable = Undecodable
    Instances = {x1, x2}
    Ids = {i1}
    MaxOps = 3
    MaxFailures = 1
SPECIFICATION FairSpec
INVARIANTS TypeOK StoredRulesReachCaches FollowersMirror
PROPERTIES FollowersConverge
