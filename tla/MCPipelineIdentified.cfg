\* A request with a sub, the IP limiter enabled and the JWT limiter not.
CONSTANTS
    Configs <- MCConfigs
    Requests <- MCRequests
    NoRequest = NoRequest
    HeaderNames = {"X-Api-Key", "X-Auth-Key", "X-Auth-User", "X-Auth-Service"}
    Prefixed = {"X-Auth-Key", "X-Auth-User", "X-Auth-Service"}
    Claims = {"sub", "email"}
SPECIFICATION Spec
INVARIANTS IdentifiedGoverned
