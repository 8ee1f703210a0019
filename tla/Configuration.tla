--------------------------- MODULE Configuration ---------------------------
(***************************************************************************)
(* How a process comes to its configuration: internal/config/config.go.    *)
(*                                                                         *)
(* A configuration is a function on the names of the settings.  A text is  *)
(* what it says and the placeholders {{ENV.v}} that are still in it; a     *)
(* number or a switch is what strconv makes of it, or Malformed.  The      *)
(* layers file and environment are functions on the settings they mention  *)
(* (an empty environment variable counts as none).                         *)
(***************************************************************************)
EXTENDS Integers

CONSTANTS
    Malformed,      \* a text that does not parse as a number or a switch
    Unset,          \* a switch that is a nil pointer
    Unreadable,     \* no configuration file, or one that is not TOML
    NoConfig        \* Load returned an error

PROJECT == "GOOGLE_CLOUD_PROJECT"

Empty == [say |-> "", holes |-> {}]

-----------------------------------------------------------------------------
(* The settings an environment variable overrides, and the type of each    *)
(* ("expanded" is a text whose override may hold placeholders too).        *)

ServerSettings ==
    [port |-> "int", targetUrl |-> "text", stripPrefix |-> "text", includePaths |-> "list",
     excludePaths |-> "list", shutdownTimeoutSecs |-> "int", healthPath |-> "text",
     healthTarget |-> "text"]

RateLimitSettings ==
    [ipEnabled |-> "bool", ipRequestsPerMin |-> "int", ipBanForMin |-> "int",
     ipThrottleDelayMs |-> "int", ipMaxDelaySlots |-> "int", skipIfJwtIdentified |-> "optional"]

IdentityRateLimitSettings ==
    [apikeyEnabled |-> "bool", apikeyRequestsPerMin |-> "int", apikeyBanForMin |-> "int",
     apikeyIncludeIP |-> "bool", apikeyKeyHeader |-> "text", apikeyThrottleDelayMs |-> "int",
     apikeyMaxDelaySlots |-> "int",
     jwtEnabled |-> "bool", jwtRequestsPerMin |-> "int", jwtBanForMin |-> "int",
     jwtIncludeIP |-> "bool", jwtThrottleDelayMs |-> "int", jwtMaxDelaySlots |-> "int",
     maxBodyBytes |-> "int"]

AuthSettings ==
    [headerPrefix |-> "text", authJwtEnabled |-> "bool", issuer |-> "expanded",
     audience |-> "expanded", toleranceSecs |-> "int", cacheTTLMins |-> "int",
     allowedEmails |-> "list", filters |-> "map", mappings |-> "map",
     apiKeyEnabled |-> "bool", apiKeyName |-> "text", apiKeyValue |-> "expanded",
     apiKeyPayload |-> "map"]

StorageAdminSettings ==
    [storageEnabled |-> "bool", projectId |-> "text", dbname |-> "text",
     collectionPrefix |-> "text", adminEnabled |-> "bool", adminIssuer |-> "text",
     adminAudience |-> "text", adminAllowedEmails |-> "list", adminFilters |-> "map",
     adminMappings |-> "map"]

\* Only the file sets these.
FileSettings == [adminToleranceSecs |-> "int", adminCacheTTLMins |-> "int"]

Sections == {ServerSettings, RateLimitSettings, IdentityRateLimitSettings, AuthSettings,
             StorageAdminSettings, FileSettings}
Settings == UNION {DOMAIN section : section \in Sections}
Kind == [s \in Settings |-> (CHOOSE section \in Sections : s \in DOMAIN section)[s]]

\* What a field of the Go structure holds before anything is assigned to it.
ZeroOf == [int |-> 0, bool |-> FALSE, optional |-> Unset, text |-> Empty, expanded |-> Empty,
           list |-> {}, map |-> [k \in {} |-> Empty]]
Zero(s) == ZeroOf[Kind[s]]

\* Texts, of which an empty one has no placeholder, and the values that the
\* file or a variable can give to a setting of each kind.
Texts == {t \in [say : STRING, holes : SUBSET STRING] : t.say = "" => t.holes = {}}

OfKind(value, kind) ==
    CASE kind = "int" -> value \in Int
      [] kind \in {"bool", "optional"} -> value \in BOOLEAN
      [] kind \in {"text", "expanded"} -> value \in Texts
      [] kind = "list" -> value \subseteq STRING
      [] kind = "map" -> \A k \in DOMAIN value : value[k] \in Texts

-----------------------------------------------------------------------------
(* The steps of Load.                                                      *)

\* One pass over the text: a placeholder whose variable is set gives way to
\* the value, which is not looked at again.
substituteEnvVars(text, vars) ==
    [text EXCEPT !.holes = (@ \ DOMAIN vars) \cup UNION {vars[v].holes : v \in @ \cap DOMAIN vars}]

Substituted(s, value, vars) ==
    CASE Kind[s] \in {"text", "expanded"} -> substituteEnvVars(value, vars)
      [] Kind[s] = "map" -> [k \in DOMAIN value |-> substituteEnvVars(value[k], vars)]
      [] OTHER -> value

\* toml.Unmarshal of the content after substitution.
Parsed(file, vars) ==
    [s \in Settings |-> IF s \in DOMAIN file THEN Substituted(s, file[s], vars) ELSE Zero(s)]

\* Keys of the map that the environment names are set, the others stay.
applyJWTMapOverrides(target, value, vars) ==
    [k \in DOMAIN target \cup DOMAIN value |->
        IF k \in DOMAIN value THEN substituteEnvVars(value[k], vars) ELSE target[k]]

\* Mutant of applyEnvOverrides: the environment only fills what the file leaves out.
applyEnvOverrides_FileFirst(config, env, vars) ==
    [s \in Settings |->
        IF s \in DOMAIN env /\ config[s] = Zero(s) THEN Substituted(s, env[s], vars) ELSE config[s]]

\* A variable that is set wins over the file, map by map key.
applyEnvOverrides(config, env, vars) ==
    [s \in Settings |->
        IF s \notin DOMAIN env
        THEN config[s]
        ELSE CASE Kind[s] = "map" -> applyJWTMapOverrides(config[s], env[s], vars)
               [] Kind[s] = "expanded" -> substituteEnvVars(env[s], vars)
               [] OTHER -> env[s]]

Says(text) == [say |-> text, holes |-> {}]

Defaults ==
    [port |-> 8888, shutdownTimeoutSecs |-> 10, healthPath |-> Says("/healthz"),
     includePaths |-> {"/*"},
     ipRequestsPerMin |-> 60, ipBanForMin |-> 5, ipMaxDelaySlots |-> 100,
     skipIfJwtIdentified |-> TRUE,
     apikeyRequestsPerMin |-> 60, apikeyBanForMin |-> 5, apikeyMaxDelaySlots |-> 100,
     apikeyKeyHeader |-> Says("x-goog-api-key"),
     jwtRequestsPerMin |-> 60, jwtBanForMin |-> 5, jwtMaxDelaySlots |-> 100,
     maxBodyBytes |-> 1048576, headerPrefix |-> Says("X-AUTH-"),
     toleranceSecs |-> 30, cacheTTLMins |-> 1440,
     collectionPrefix |-> Says("proxy"), apiKeyName |-> Says("X-API-KEY")]
AdminDefaults == [adminToleranceSecs |-> 30, adminCacheTTLMins |-> 1440]

\* The project id, from the environment or else from the metadata server, in
\* the issuer and the audience of the main JWT only.
resolveGCPProjectID(config, vars, metadata) ==
    LET id == IF PROJECT \in DOMAIN vars THEN vars[PROJECT] ELSE metadata
        known == [v \in {PROJECT} |-> id]
    IN  IF id = Empty
        THEN config
        ELSE [config EXCEPT !["issuer"] = substituteEnvVars(@, known),
                            !["audience"] = substituteEnvVars(@, known)]

\* A setting that still has the zero value gets its default, if it has one.
WithDefault(config, s) ==
    IF config[s] # Zero(s)
    THEN config[s]
    ELSE CASE s \in DOMAIN Defaults -> Defaults[s]
           [] s \in DOMAIN AdminDefaults /\ config["adminEnabled"] -> AdminDefaults[s]
           [] OTHER -> config[s]

setDefaults(config, vars, metadata) ==
    resolveGCPProjectID([s \in Settings |-> WithDefault(config, s)], vars, metadata)

validate(config) ==
    /\ config["authJwtEnabled"] =>
         \A s \in {"issuer", "audience"} : config[s] # Empty /\ PROJECT \notin config[s].holes
    /\ config["apiKeyEnabled"] => config["apiKeyValue"] # Empty /\ config["apiKeyValue"].holes = {}
    /\ config["adminEnabled"] =>
         /\ config["adminIssuer"] # Empty /\ config["adminAudience"] # Empty
         /\ config["adminAllowedEmails"] # {} \/ DOMAIN config["adminFilters"] # {}
    /\ 1 <= config["port"] /\ config["port"] <= 65535

\* The configuration of a process on host h, or NoConfig.
Load(h) ==
    LET parsed == Parsed(h.file, h.vars)
        config == setDefaults(applyEnvOverrides(parsed, h.env, h.vars), h.vars, h.metadata)
    IN  IF \/ h.file = Unreadable
           \/ \E s \in DOMAIN h.env : h.env[s] = Malformed
           \/ ~validate(config)
        THEN NoConfig
        ELSE config
=============================================================================
