------------------------------ MODULE Pipeline ------------------------------
(***************************************************************************)
(* A request on its way through the proxy: the routes and the middleware   *)
(* chain NewHandlerWithDeps assembles (internal/proxy/proxy.go,            *)
(* middleware.go, dynamic_rule.go and the plugins), the handler that       *)
(* authenticates it, and the reverse proxy.                                *)
(*                                                                         *)
(* Each middleware is a step, for the limiters and the rule store are      *)
(* shared: an admin may enable a limiter while a request is on its way.    *)
(* Their verdicts are free here (RateLimiter.tla, RuleStore.tla), and so   *)
(* are those of a token's validation (KeyCache.tla), which the request     *)
(* carries, and of the admin API (AdminControl.tla).  Paths, hosts, claims *)
(* and headers are names; a header that is absent holds "".                *)
(***************************************************************************)
EXTENDS Integers, Sequences

CONSTANTS
    Configs,        \* configurations, after config.Load
    Requests,       \* requests
    NoRequest,      \* no request is being served
    HeaderNames,    \* names of headers
    Prefixed,       \* those that begin with auth.header_prefix, in any case
    Claims          \* names of claims, each standing for its value as well

RateLimiters == {"apikey", "jwt", "ip"}
Limiters == RateLimiters \cup {"rules"}
Sent == {"", "client", "secret"}
Values == Sent \cup {"payload"} \cup Claims

ASSUME NamesAssumption ==
    /\ Prefixed \subseteq HeaderNames
    /\ Claims \cap (Sent \cup {"payload"}) = {}

ASSUME ConfigAssumption ==
    \A c \in Configs :
        /\ c.build \in {"flex", "lite"}
        /\ c.admin \in BOOLEAN /\ c.skipIfJwt \in BOOLEAN
        /\ c.jwt \in BOOLEAN /\ c.apikey \in BOOLEAN
        /\ c.enabled \subseteq RateLimiters
        /\ c.mappings \subseteq [claim : Claims, header : Prefixed]
        /\ c.payload \subseteq Prefixed
        /\ c.apiName \in HeaderNames

ASSUME RequestAssumption ==
    \A r \in Requests :
        /\ r.header \in [HeaderNames -> Sent]
        /\ r.claims \subseteq Claims
        /\ r.validity \in {200, 401, 502}

VARIABLES
    cfg,            \* the configuration of the process
    enabled,        \* the rate limiters that are enabled
    since,          \* those that were when the request arrived
    req,            \* the request
    stage,          \* the handler the request is in
    header,         \* r.Header
    needsAuth,      \* authRequired, in the request's context
    identified,     \* jwtIdentified, in the request's context
    asked,          \* the limiters that counted the request
    refusing,       \* the limiters that refused it
    status,         \* status of the response; 0 while there is none
    upstream        \* where the request was sent, and with which headers

vars == <<cfg, enabled, since, req, stage, header, needsAuth, identified, asked, refusing, status, upstream>>
process == <<cfg, enabled>>
context == <<needsAuth, identified>>
counted == <<asked, refusing>>

Blank == [h \in HeaderNames |-> ""]
NotSent == [to |-> "none", header |-> Blank]

Stages == {"idle", "route", "body", "sanitize", "paths", "rules", "apikey", "jwt", "ip",
           "auth", "forward", "done"}

-----------------------------------------------------------------------------
(* The chain, laid out twice.                                              *)

coreMiddlewares == <<"body", "sanitize", "paths">>

\* The plugins of the flex build that bring middleware, and their Priority().
Providers == {"admin", "ratelimit"}

Priority(p) == IF p = "admin" THEN 50 ELSE 60

\* The registry is a map; OfType puts what it holds in order of priority.
OfType == CHOOSE s \in [{1, 2} -> Providers] : Priority(s[1]) < Priority(s[2])

BuildMiddleware(c, p) ==
    CASE p = "ratelimit" -> <<"apikey", "jwt", "ip">>
      [] p = "admin" /\ c.admin -> <<"rules">>
      [] OTHER -> <<>>

\* Mutant of legacyMiddlewares: the IP limiter before that of the tokens.
legacyMiddlewares_IpFirst == <<"rules", "apikey", "ip", "jwt">>

\* Without plugins NewHandlerWithDeps writes the list down itself.
legacyMiddlewares == <<"rules", "apikey", "jwt", "ip">>

pluginMiddlewares(c) ==
    IF c.build = "flex"
    THEN BuildMiddleware(c, OfType[1]) \o BuildMiddleware(c, OfType[2])
    ELSE legacyMiddlewares

Chain(c) == coreMiddlewares \o pluginMiddlewares(c) \o <<"auth">>

\* applyMiddleware: each handler calls the one it was wrapped around.
After(c, s) == LET at == CHOOSE i \in 1..Len(Chain(c)) : Chain(c)[i] = s IN Chain(c)[at + 1]

-----------------------------------------------------------------------------
Init ==
    /\ cfg \in Configs
    /\ enabled = cfg.enabled
    /\ since = {}
    /\ req = NoRequest
    /\ stage = "idle"
    /\ header = Blank
    /\ needsAuth = TRUE
    /\ identified = FALSE
    /\ asked = {}
    /\ refusing = {}
    /\ status = 0
    /\ upstream = NotSent

-----------------------------------------------------------------------------
(* Paths, match rules and credentials.                                     *)

\* A pattern between slashes is a regular expression, one that ends in /*
\* covers what lies below it as well; an empty one and one that does not
\* compile match nothing.
pathMatches(path, pattern) ==
    CASE pattern.kind \in {"regex", "glob"} -> path \in pattern.matched
      [] pattern.kind = "tree" -> path \in pattern.below \cup pattern.matched
      [] OTHER -> FALSE

matchAnyPattern(path, patterns) == \E pattern \in patterns : pathMatches(path, pattern)

ShouldAuthenticate(c, path) ==
    /\ ~matchAnyPattern(path, c.exclude)
    /\ c.include = {} \/ matchAnyPattern(path, c.include)

\* RequestMatcher: any rule, all the conditions of it.  A rule's hosts and
\* paths are those its Host and Path accept; header "" asks for none.
Matches(c, r, hdr) ==
    \E rule \in c.match :
        /\ r.host \in rule.hosts
        /\ r.path \in rule.paths
        /\ rule.header = "" \/ hdr[rule.header] # ""

\* extractBearerSub wants the scheme spelled "Bearer", extractBearerToken does not.
extractBearerSub(r) == r.scheme = "Bearer" /\ r.sub
hasBearer(r) == r.scheme \in {"Bearer", "bearer"}

EvaluateFilters(c, r) == c.filters \subseteq r.passes
isEmailAllowed(c, r) == c.emails = {} \/ r.email \in c.emails

\* MapClaims: where several claims are mapped to one header, the map's order
\* decides which of them it gets.
MapClaims(c, r) ==
    LET given == {m \in c.mappings : m.claim \in r.claims}
        names == {m.header : m \in given}
    IN  {f \in [names -> Claims] : \A h \in names : [claim |-> f[h], header |-> h] \in given}

\* The outcomes of ValidateAPIKey.
ValidateAPIKey(c, hdr) ==
    CASE ~c.apikey -> "disabled"
      [] c.apikey /\ hdr[c.apiName] = "" -> "missing"
      [] c.apikey /\ hdr[c.apiName] = "secret" -> "valid"
      [] OTHER -> "invalid"

-----------------------------------------------------------------------------
Pass(s) == stage' = After(cfg, s)
Respond(code) == stage' = "done" /\ status' = code

Arrive(r) ==
    /\ stage = "idle"
    /\ req' = r
    /\ stage' = "route"
    /\ header' = r.header
    /\ since' = enabled
    /\ UNCHANGED <<process, context, counted, status, upstream>>

AdminRoutes == {<<"POST", "/admin/control">>, <<"GET", "/admin/status">>}
AdminRouted(c, r) == c.admin /\ <<r.method, r.path>> \in AdminRoutes

\* The mux: the admin API and the health path have handlers of their own,
\* outside the chain.
Route ==
    /\ stage = "route"
    /\ ~AdminRouted(cfg, req) /\ req.path # cfg.healthPath
    /\ stage' = "body"
    /\ UNCHANGED <<process, since, req, header, context, counted, status, upstream>>

\* handleHealth: its own answer, or that of the health target, which is sent
\* the request as it came.
HealthRoute ==
    /\ stage = "route"
    /\ ~AdminRouted(cfg, req) /\ req.path = cfg.healthPath
    /\ \/ /\ ~cfg.healthTarget
          /\ Respond(200)
          /\ UNCHANGED upstream
       \/ /\ cfg.healthTarget
          /\ Respond(IF req.reachable THEN 200 ELSE 502)
          /\ upstream' = [to |-> "health", header |-> header]
    /\ UNCHANGED <<process, since, req, header, context, counted>>

\* The admin API: a set-rule may enable a limiter.
AdminRoute ==
    /\ stage = "route"
    /\ AdminRouted(cfg, req)
    /\ \/ /\ \E code \in {200, 400, 401, 404} : Respond(code)
          /\ UNCHANGED enabled
       \/ /\ req.method = "POST"
          /\ Respond(200)
          /\ \E l \in RateLimiters : enabled' = enabled \cup {l}
    /\ UNCHANGED <<cfg, since, req, header, context, counted, upstream>>

\* Another admin, or the startup loader, enables a limiter at any time;
\* nothing disables one again.
Enable(l) ==
    /\ cfg.admin
    /\ enabled' = enabled \cup {l}
    /\ UNCHANGED <<cfg, since, req, stage, header, context, counted, status, upstream>>

\* A declared length is refused here, an undeclared one while it is read.
BodyLimiter ==
    /\ stage = "body"
    /\ \/ /\ cfg.maxBody /\ req.body = "declared"
          /\ Respond(413)
       \/ /\ ~(cfg.maxBody /\ req.body = "declared")
          /\ Pass("body")
          /\ UNCHANGED status
    /\ UNCHANGED <<process, since, req, header, context, counted, upstream>>

\* Mutant of HeaderSanitizer: headers go on as they came.
HeaderSanitizer_Keeping ==
    /\ stage = "sanitize"
    /\ Pass("sanitize")
    /\ UNCHANGED <<process, since, req, header, context, counted, status, upstream>>

HeaderSanitizer ==
    /\ stage = "sanitize"
    /\ header' = [h \in HeaderNames |-> IF h \in Prefixed THEN "" ELSE header[h]]
    /\ Pass("sanitize")
    /\ UNCHANGED <<process, since, req, context, counted, status, upstream>>

PathFilter ==
    /\ stage = "paths"
    /\ needsAuth' = ShouldAuthenticate(cfg, req.path)
    /\ Pass("paths")
    /\ UNCHANGED <<process, since, req, header, identified, counted, status, upstream>>

\* A limiter is asked and admits or refuses the request; handleRateLimited's
\* delay before the 429 is in DelaySlots.tla.
Ask(s) ==
    /\ asked' = asked \cup {s}
    /\ \/ Pass(s) /\ UNCHANGED <<refusing, status>>
       \/ Respond(429) /\ refusing' = refusing \cup {s}

Unasked(s) == Pass(s) /\ UNCHANGED <<counted, status>>

\* The checker is nil unless the admin API is enabled.
DynamicRuleCheck ==
    /\ stage = "rules"
    /\ IF cfg.admin THEN Ask("rules") ELSE Unasked("rules")
    /\ UNCHANGED <<process, since, req, header, context, upstream>>

\* Mutant of ApiKeyRateLimit: no return after the 429.
ApiKeyRateLimit_GoingOn ==
    /\ stage = "apikey"
    /\ IF Matches(cfg, req, header) /\ "apikey" \in enabled
       THEN /\ asked' = asked \cup {"apikey"}
            /\ Pass("apikey")
            /\ \/ UNCHANGED <<refusing, status>>
               \/ status' = 429 /\ refusing' = refusing \cup {"apikey"}
       ELSE Unasked("apikey")
    /\ UNCHANGED <<process, since, req, header, context, upstream>>

\* A disabled limiter allows every request and counts none.
ApiKeyRateLimit ==
    /\ stage = "apikey"
    /\ IF Matches(cfg, req, header) /\ "apikey" \in enabled
       THEN Ask("apikey")
       ELSE Unasked("apikey")
    /\ UNCHANGED <<process, since, req, header, context, upstream>>

\* Mutant of JwtRateLimit: any bearer token marks the request.
JwtRateLimit_AnyBearer ==
    /\ stage = "jwt"
    /\ identified' = (identified \/ hasBearer(req))
    /\ IF extractBearerSub(req) /\ "jwt" \in enabled THEN Ask("jwt") ELSE Unasked("jwt")
    /\ UNCHANGED <<process, since, req, header, needsAuth, upstream>>

\* The request is marked before the limiter is asked, enabled or not.
JwtRateLimit ==
    /\ stage = "jwt"
    /\ identified' = (identified \/ extractBearerSub(req))
    /\ IF extractBearerSub(req) /\ "jwt" \in enabled THEN Ask("jwt") ELSE Unasked("jwt")
    /\ UNCHANGED <<process, since, req, header, needsAuth, upstream>>

IpRateLimit ==
    /\ stage = "ip"
    /\ IF ~(cfg.skipIfJwt /\ identified) /\ "ip" \in enabled
       THEN Ask("ip")
       ELSE Unasked("ip")
    /\ UNCHANGED <<process, since, req, header, context, upstream>>

-----------------------------------------------------------------------------
(* handler.ServeHTTP.                                                      *)

Forward(hdr) ==
    /\ stage' = "forward"
    /\ header' = hdr
    /\ UNCHANGED status

Refuse(code) == Respond(code) /\ UNCHANGED header

\* The headers f set over the request's own.
applyHeaders(f) == [h \in HeaderNames |-> IF h \in DOMAIN f THEN f[h] ELSE header[h]]

\* A path that needs no authentication, or rate limiting only.
Bypass ==
    /\ stage = "auth"
    /\ ~needsAuth \/ (~cfg.jwt /\ ~cfg.apikey)
    /\ Forward(header)
    /\ UNCHANGED <<process, since, req, context, counted, upstream>>

\* A bearer token settles the matter where JWT authentication is enabled, also
\* when it is empty: an API key is not looked at.
JwtAuth ==
    /\ stage = "auth"
    /\ needsAuth /\ cfg.jwt /\ hasBearer(req)
    /\ CASE req.validity # 200 -> Refuse(req.validity)
         [] req.validity = 200 /\ ~(EvaluateFilters(cfg, req) /\ isEmailAllowed(cfg, req)) ->
               Refuse(401)
         [] OTHER -> \E f \in MapClaims(cfg, req) : Forward(applyHeaders(f))
    /\ UNCHANGED <<process, since, req, context, counted, upstream>>

\* No token settles it.
WithoutToken ==
    /\ stage = "auth"
    /\ needsAuth /\ (cfg.jwt \/ cfg.apikey) /\ ~(cfg.jwt /\ hasBearer(req))

WithPayload == Forward(applyHeaders([h \in cfg.payload |-> "payload"]))

\* Mutant of ProviderAuth: a key that does not match counts as valid.
ProviderAuth_AnyKey ==
    /\ WithoutToken
    /\ cfg.build = "flex"
    /\ IF ValidateAPIKey(cfg, header) \in {"valid", "invalid"} THEN WithPayload ELSE Refuse(401)
    /\ UNCHANGED <<process, since, req, context, counted, upstream>>

\* The plugin of the flex build, the only provider: a wrong key is refused at
\* once, a missing one and a disabled check leave nobody else to ask.
ProviderAuth ==
    /\ WithoutToken
    /\ cfg.build = "flex"
    /\ IF ValidateAPIKey(cfg, header) = "valid" THEN WithPayload ELSE Refuse(401)
    /\ UNCHANGED <<process, since, req, context, counted, upstream>>

\* Without providers the handler checks the key itself, if it is enabled.
InlineAuth ==
    /\ WithoutToken
    /\ cfg.build = "lite"
    /\ \/ ~cfg.apikey /\ Refuse(401)
       \/ cfg.apikey /\ ValidateAPIKey(cfg, header) \in {"missing", "invalid"} /\ Refuse(401)
       \/ cfg.apikey /\ ValidateAPIKey(cfg, header) = "valid" /\ WithPayload
    /\ UNCHANGED <<process, since, req, context, counted, upstream>>

\* The reverse proxy and its error handler: a body that turns out too long may
\* be met while it is sent.  200 stands for whatever the target answers.
ReverseProxy ==
    /\ stage = "forward"
    /\ upstream' = [to |-> "target", header |-> header]
    /\ \/ Respond(IF req.reachable THEN 200 ELSE 502)
       \/ cfg.maxBody /\ req.body = "undeclared" /\ Respond(413)
    /\ UNCHANGED <<process, since, req, header, context, counted>>

\* A request nothing has been done with yet.
Untouched ==
    /\ needsAuth' = TRUE
    /\ identified' = FALSE
    /\ asked' = {}
    /\ refusing' = {}
    /\ status' = 0
    /\ upstream' = NotSent

\* The response is written; another request may come.
Complete ==
    /\ stage = "done"
    /\ stage' = "idle"
    /\ since' = {}
    /\ req' = NoRequest
    /\ header' = Blank
    /\ Untouched
    /\ UNCHANGED process

Serve ==
    \/ Route \/ HealthRoute \/ AdminRoute
    \/ BodyLimiter \/ HeaderSanitizer \/ PathFilter
    \/ DynamicRuleCheck \/ ApiKeyRateLimit \/ JwtRateLimit \/ IpRateLimit
    \/ Bypass \/ JwtAuth \/ ProviderAuth \/ InlineAuth
    \/ ReverseProxy

Next ==
    \/ \E r \in Requests : Arrive(r)
    \/ \E l \in RateLimiters : Enable(l)
    \/ Serve
    \/ Complete

Spec == Init /\ [][Next]_vars

-----------------------------------------------------------------------------
(* What is checked.                                                        *)

(***************************************************************************)
(* The type of every variable; a response is there exactly when the        *)
(* request is through, nothing is sent on before that, and a limiter that  *)
(* is enabled stays so.                                                    *)
(***************************************************************************)
TypeOK ==
    /\ cfg \in Configs
    /\ enabled \subseteq RateLimiters /\ since \subseteq enabled
    /\ req \in Requests \cup {NoRequest}
    /\ stage \in Stages
    /\ stage # "idle" => req \in Requests
    /\ header \in [HeaderNames -> Values]
    /\ needsAuth \in BOOLEAN /\ identified \in BOOLEAN
    /\ asked \subseteq Limiters /\ refusing \subseteq asked
    /\ status \in {0, 200, 400, 401, 404, 413, 429, 502}
    /\ status # 0 <=> stage = "done"
    /\ upstream \in [to : {"none", "target", "health"}, header : [HeaderNames -> Values]]
    /\ upstream.to # "none" => stage = "done"

\* The request shows a token that satisfies all the configuration asks of one.
TokenAccepted(c, r) ==
    /\ c.jwt /\ hasBearer(r)
    /\ r.validity = 200
    /\ EvaluateFilters(c, r) /\ isEmailAllowed(c, r)

\* It shows the API key, in a header the sanitizer leaves alone, where no
\* token takes precedence.
KeyAccepted(c, r) ==
    /\ c.apikey /\ ~(c.jwt /\ hasBearer(r))
    /\ c.apiName \notin Prefixed
    /\ r.header[c.apiName] = "secret"

\* The path is open: exempt by the configuration, or nothing is to be shown.
Open(c, r) == ~ShouldAuthenticate(c, r.path) \/ (~c.jwt /\ ~c.apikey)

\* A header of hdr with the auth prefix states what a credential of r proved.
Proved(c, r, hdr) ==
    \A h \in Prefixed : hdr[h] # "" =>
        /\ ~Open(c, r)
        /\ \/ /\ TokenAccepted(c, r)
              /\ hdr[h] \in r.claims
              /\ [claim |-> hdr[h], header |-> h] \in c.mappings
           \/ /\ KeyAccepted(c, r)
              /\ hdr[h] = "payload" /\ h \in c.payload

(***************************************************************************)
(* A header with the auth prefix that reaches server.target_url states     *)
(* what a credential of this request proved: a claim of its accepted       *)
(* token, mapped to that header, or the payload of the API key.  None of   *)
(* the client's own get there, on open paths neither (HeaderSanitizer,     *)
(* ServeHTTP, MapClaims, ValidateAPIKey).  Of the health target it is      *)
(* false: HealthRoute sends on what the client sent.                       *)
(***************************************************************************)
IdentityProved == upstream.to = "target" => Proved(cfg, req, upstream.header)

(***************************************************************************)
(* What reaches the target was let in: its path is open or a credential    *)
(* of it was accepted, and no limiter that was asked refused it, whichever *)
(* build serves it and whatever an admin enables meanwhile (ServeHTTP,     *)
(* lines 371-471, behind the chain of lines 117-278).                      *)
(***************************************************************************)
TargetReachedByRight ==
    upstream.to = "target" =>
        /\ Open(cfg, req) \/ TokenAccepted(cfg, req) \/ KeyAccepted(cfg, req)
        /\ refusing = {}

(***************************************************************************)
(* No request slips between the JWT and the IP limiter: where both were    *)
(* enabled when it arrived, one of them counted what reaches the target.   *)
(* The one reads the token before it is validated and marks the request,   *)
(* the other goes by the mark (middleware.go lines 107-112 and 173-181).   *)
(***************************************************************************)
NoGapBetweenLimiters ==
    upstream.to = "target" /\ {"jwt", "ip"} \subseteq since => asked \cap {"jwt", "ip"} # {}

(***************************************************************************)
(* What docs/RATE-LIMITING.md line 166 says of requests that skip the IP   *)
(* limiter: they "are instead governed exclusively by the JWT rate         *)
(* limiter".  JwtRateLimit marks them whether its limiter is enabled or    *)
(* not (middleware.go line 180).                                           *)
(***************************************************************************)
IdentifiedGoverned ==
    stage \in {"auth", "forward"} /\ "ip" \in since => asked \cap {"ip", "jwt"} # {}
=============================================================================
