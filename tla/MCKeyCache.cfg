\* Two goroutines that miss at once, a key that is replaced under its key id,
\* one that does not decode, and a token that expires while its key is fetched.
CONSTANTS
    kid1 = kid1
    p1 = p1
    p2 = p2
    None = None
    Procs = {p1, p2}
    Kids = {kid1}
    Jwks <- MCJwks
    Tokens <- MCTokens
    CacheTTLMins = 1
    DefaultTTL = 3
    Tolerance = 0
    Timeout = 1
    MaxStall = 0
    MaxTime = 4
SPECIFICATION FairSpec
INVARIANTS TypeOK RetiredKeysLapse
PROPERTIES AcceptedInTime ValidationEnds
