\* Every kind of host, two requests, a signal at any time.
CONSTANTS
    r1 = r1
    r2 = r2
    Requests = {r1, r2}
    Malformed = Malformed
    Unset = Unset
    Unreadable = Unreadable
    NoConfig = NoConfig
    Hosts <- MCHosts
SPECIFICATION FairSpec
INVARIANTS TypeOK  RequestsDrained CleanExit
PROPERTIES SignalEnds
\* Every process ends.
CHECK_DEADLOCK FALSE
