\* Every kind of path, body, credential and limiter; flex, lite, and lite after flex.
CONSTANTS
    Configs <- MCConfigs
    Requests <- MCRequests
    NoRequest = NoRequest
    Undecided = Undecided
    HeaderNames = {"X-Api-Key", "X-Auth-Key", "X-Auth-User", "X-Auth-Service"}
    Prefixed = {"X-Auth-Key", "X-Auth-User", "X-Auth-Service"}
    Claims = {"sub", "email"}
SPECIFICATION BSpec
INVARIANTS TypeOK TargetReachedByRight IdentityProved NoGapBetweenLimiters BuildsAgree
