---------------------------- MODULE ProcessProofs ----------------------------
(***************************************************************************)
(* Proofs about the life of a process, for every set of hosts and of       *)
(* requests.  The inductive invariant says, for each place main can be in, *)
(* what was made, what was stopped and which requests can be under way.    *)
(* The precedence of settings is proved of Load, pass by pass.             *)
(***************************************************************************)
EXTENDS Process, TLAPS

Early == {"flags", "load", "healthcheck", "urls", "build", "assemble", "rules"}
Built == {"rules", "spawned", "awaiting", "draining", "joining", "stopping", "closing"}
Configured == Built \cup {"healthcheck", "urls", "build", "assemble"}
Closing == {"draining", "joining", "stopping", "closing"}

\* The configuration is one that Load gives on this host.
ConfigFits ==
    /\ cfg # NoConfig => cfg = Load(host)
    /\ pc \in Configured => cfg # NoConfig

\* How often each store was stopped.
Stops(m, f, c) == stopped["memory"] = m /\ stopped["firestore"] = f /\ stopped["client"] = c

StoresFit ==
    /\ pc \in {"flags", "load", "healthcheck", "urls", "build"} => made = {} /\ Stops(0, 0, 0)
    /\ pc \in {"assemble", "rules", "spawned", "awaiting", "draining", "joining", "stopping"} =>
         \/ made \in {{}, {"memory"}} /\ Stops(0, 0, 0)
         \/ made = Stores /\ Stops(1, 0, 0)
    /\ pc = "closing" =>
         \/ made = {} /\ Stops(0, 0, 0)
         \/ made = {"memory"} /\ Stops(1, 0, 0)
         \/ made = Stores /\ Stops(1, 1, 0)
    /\ \A x \in Stores : stopped[x] > 0 => x \in made

\* Where requests can be under way, and what it takes to cut one off.
RequestsFit ==
    /\ pc \in Early => server = "none" /\ Active = {}
    /\ server = "none" => Active = {}
    /\ result # "empty" => server = "returned"
    /\ pc \in Closing => server # "listening"
    /\ pc \in {"stopping", "closing"} => server = "returned"
    /\ pc \in {"joining", "stopping", "closing"} => Active = {} \/ late
    /\ pc # "ended" => \A r \in Requests : request[r] # "cut"
    /\ pc = "ended" => Active = {}

Inv == TypeOK /\ ConfigFits /\ StoresFit /\ RequestsFit /\ CutOnlyLate /\ CleanExit

-----------------------------------------------------------------------------
(* The settings and what Load makes of them.                               *)

\* No setting belongs to two sections, so that its kind is the one its section
\* gives it.
LEMMA SectionsDisjoint ==
    ASSUME NEW A \in Sections, NEW B \in Sections, NEW s \in DOMAIN A \cap DOMAIN B
    PROVE  A = B
<1>1. DOMAIN ServerSettings
        = {"port", "targetUrl", "stripPrefix", "includePaths", "excludePaths",
           "shutdownTimeoutSecs", "healthPath", "healthTarget"}
  BY DEF ServerSettings
<1>2. DOMAIN RateLimitSettings
        = {"ipEnabled", "ipRequestsPerMin", "ipBanForMin", "ipThrottleDelayMs",
           "ipMaxDelaySlots", "skipIfJwtIdentified"}
  BY DEF RateLimitSettings
<1>3. DOMAIN IdentityRateLimitSettings
        = {"apikeyEnabled", "apikeyRequestsPerMin", "apikeyBanForMin", "apikeyIncludeIP",
           "apikeyKeyHeader", "apikeyThrottleDelayMs", "apikeyMaxDelaySlots", "jwtEnabled",
           "jwtRequestsPerMin", "jwtBanForMin", "jwtIncludeIP", "jwtThrottleDelayMs",
           "jwtMaxDelaySlots", "maxBodyBytes"}
  BY DEF IdentityRateLimitSettings
<1>4. DOMAIN AuthSettings
        = {"headerPrefix", "authJwtEnabled", "issuer", "audience", "toleranceSecs",
           "cacheTTLMins", "allowedEmails", "filters", "mappings", "apiKeyEnabled",
           "apiKeyName", "apiKeyValue", "apiKeyPayload"}
  BY DEF AuthSettings
<1>5. DOMAIN StorageAdminSettings
        = {"storageEnabled", "projectId", "dbname", "collectionPrefix", "adminEnabled",
           "adminIssuer", "adminAudience", "adminAllowedEmails", "adminFilters",
           "adminMappings"}
  BY DEF StorageAdminSettings
<1>6. DOMAIN FileSettings = {"adminToleranceSecs", "adminCacheTTLMins"}
  BY DEF FileSettings
<1>7. CASE A = ServerSettings
  BY <1>1, <1>2, <1>3, <1>4, <1>5, <1>6, <1>7 DEF Sections
<1>8. CASE A = RateLimitSettings
  BY <1>1, <1>2, <1>3, <1>4, <1>5, <1>6, <1>8 DEF Sections
<1>9. CASE A = IdentityRateLimitSettings
  BY <1>1, <1>2, <1>3, <1>4, <1>5, <1>6, <1>9 DEF Sections
<1>10. CASE A = AuthSettings
  BY <1>1, <1>2, <1>3, <1>4, <1>5, <1>6, <1>10 DEF Sections
<1>11. CASE A = StorageAdminSettings
  BY <1>1, <1>2, <1>3, <1>4, <1>5, <1>6, <1>11 DEF Sections
<1>12. CASE A = FileSettings
  BY <1>1, <1>2, <1>3, <1>4, <1>5, <1>6, <1>12 DEF Sections
<1>13. QED
  BY <1>7, <1>8, <1>9, <1>10, <1>11, <1>12 DEF Sections

LEMMA SectionKind ==
    ASSUME NEW section \in Sections, NEW s \in DOMAIN section
    PROVE  s \in Settings /\ Kind[s] = section[s]
<1> DEFINE chosen == CHOOSE x \in Sections : s \in DOMAIN x
<1>1. s \in Settings
  BY DEF Settings
<1>2. chosen \in Sections /\ s \in DOMAIN chosen
  <2>1. \E x \in Sections : s \in DOMAIN x
    OBVIOUS
  <2>2. QED
    BY <2>1
<1>3. chosen = section
  <2> HIDE DEF chosen
  <2> QED
    BY <1>2, SectionsDisjoint
<1>4. Kind[s] = chosen[s]
  BY <1>1 DEF Kind
<1>5. QED
  BY <1>1, <1>3, <1>4

\* The kinds that matter below: no setting with a default is a map, and the
\* settings that the project id is put into are texts.
LEMMA Kinds ==
    /\ \A s \in DOMAIN Defaults \cup DOMAIN AdminDefaults : s \in Settings /\ Kind[s] # "map"
    /\ \A s \in {"issuer", "audience"} : s \in Settings /\ Kind[s] = "expanded"
    /\ "adminEnabled" \in Settings /\ Kind["adminEnabled"] = "bool"
    /\ "shutdownTimeoutSecs" \in Settings /\ Kind["shutdownTimeoutSecs"] = "int"
<1>1. /\ ServerSettings \in Sections /\ RateLimitSettings \in Sections
      /\ IdentityRateLimitSettings \in Sections /\ AuthSettings \in Sections
      /\ StorageAdminSettings \in Sections /\ FileSettings \in Sections
  BY DEF Sections
<1>2. \A s \in DOMAIN Defaults \cup DOMAIN AdminDefaults :
        \E section \in Sections : s \in DOMAIN section /\ section[s] # "map"
  <2>1. \A s \in {"port", "shutdownTimeoutSecs", "healthPath", "includePaths"} :
          s \in DOMAIN ServerSettings /\ ServerSettings[s] # "map"
    BY DEF ServerSettings
  <2>2. \A s \in {"ipRequestsPerMin", "ipBanForMin", "ipMaxDelaySlots", "skipIfJwtIdentified"} :
          s \in DOMAIN RateLimitSettings /\ RateLimitSettings[s] # "map"
    BY DEF RateLimitSettings
  <2>3. \A s \in {"apikeyRequestsPerMin", "apikeyBanForMin", "apikeyMaxDelaySlots",
                  "apikeyKeyHeader", "jwtRequestsPerMin", "jwtBanForMin", "jwtMaxDelaySlots",
                  "maxBodyBytes"} :
          s \in DOMAIN IdentityRateLimitSettings /\ IdentityRateLimitSettings[s] # "map"
    BY DEF IdentityRateLimitSettings
  <2>4. \A s \in {"headerPrefix", "toleranceSecs", "cacheTTLMins", "apiKeyName"} :
          s \in DOMAIN AuthSettings /\ AuthSettings[s] # "map"
    BY DEF AuthSettings
  <2>5. /\ "collectionPrefix" \in DOMAIN StorageAdminSettings
        /\ StorageAdminSettings["collectionPrefix"] # "map"
    BY DEF StorageAdminSettings
  <2>6. \A s \in {"adminToleranceSecs", "adminCacheTTLMins"} :
          s \in DOMAIN FileSettings /\ FileSettings[s] # "map"
    BY DEF FileSettings
  <2>7. DOMAIN Defaults =
          {"port", "shutdownTimeoutSecs", "healthPath", "includePaths", "ipRequestsPerMin",
           "ipBanForMin", "ipMaxDelaySlots", "skipIfJwtIdentified", "apikeyRequestsPerMin",
           "apikeyBanForMin", "apikeyMaxDelaySlots", "apikeyKeyHeader", "jwtRequestsPerMin",
           "jwtBanForMin", "jwtMaxDelaySlots", "maxBodyBytes", "headerPrefix", "toleranceSecs",
           "cacheTTLMins", "collectionPrefix", "apiKeyName"}
    BY DEF Defaults
  <2>8. DOMAIN AdminDefaults = {"adminToleranceSecs", "adminCacheTTLMins"}
    BY DEF AdminDefaults
  <2>9. QED
    BY <1>1, <2>1, <2>2, <2>3, <2>4, <2>5, <2>6, <2>7, <2>8
<1>3. \A s \in {"issuer", "audience"} : s \in DOMAIN AuthSettings /\ AuthSettings[s] = "expanded"
  BY DEF AuthSettings
<1>4. /\ "adminEnabled" \in DOMAIN StorageAdminSettings
      /\ StorageAdminSettings["adminEnabled"] = "bool"
  BY DEF StorageAdminSettings
<1>5. /\ "shutdownTimeoutSecs" \in DOMAIN ServerSettings
      /\ ServerSettings["shutdownTimeoutSecs"] = "int"
  BY DEF ServerSettings
<1>6. QED
  BY <1>1, <1>2, <1>3, <1>4, <1>5, SectionKind

\* A text that says `word', with some placeholders or none in it.
Saying(text, word) == \E holes : text = [say |-> word, holes |-> holes]

\* A substitution changes the placeholders of a text and nothing else; as it
\* puts no empty value in, it makes no text empty.
LEMMA SubstitutionSays ==
    ASSUME NEW text, NEW word, NEW known, Saying(text, word)
    PROVE  Saying(substituteEnvVars(text, known), word)
<1>1. PICK holes : text = [say |-> word, holes |-> holes]
  BY DEF Saying
<1>2. \E x : substituteEnvVars(text, known) = [text EXCEPT !.holes = x]
  BY DEF substituteEnvVars
<1>3. PICK x : substituteEnvVars(text, known) = [text EXCEPT !.holes = x]
  BY <1>2
<1>4. substituteEnvVars(text, known) = [say |-> word, holes |-> x]
  BY <1>1, <1>3
<1>5. QED
  BY <1>4 DEF Saying

LEMMA SubstitutionKeepsEmpty ==
    ASSUME NEW text \in Texts, NEW known
    PROVE  /\ Saying(text, text.say)
           /\ substituteEnvVars(text, known) = Empty <=> text = Empty
<1>1. /\ text = [say |-> text.say, holes |-> text.holes]
      /\ text.say = "" => text.holes = {}
  BY DEF Texts
<1>2. Saying(text, text.say)
  BY <1>1 DEF Saying
<1>3. ASSUME substituteEnvVars(text, known) = Empty
      PROVE  text = Empty
  <2>1. PICK holes : substituteEnvVars(text, known) = [say |-> text.say, holes |-> holes]
    BY <1>2, SubstitutionSays DEF Saying
  <2>2. text.say = ""
    <3>1. substituteEnvVars(text, known).say = text.say
      BY <2>1
    <3>2. Empty.say = ""
      BY DEF Empty
    <3>3. QED
      BY <1>3, <3>1, <3>2
  <2>3. QED
    BY <1>1, <2>2 DEF Empty
<1>4. ASSUME text = Empty
      PROVE  substituteEnvVars(text, known) = Empty
  <2>1. ({} \ DOMAIN known) \cup UNION {known[v].holes : v \in {} \cap DOMAIN known} = {}
    OBVIOUS
  <2>2. substituteEnvVars(Empty, known)
          = [Empty EXCEPT !.holes = ({} \ DOMAIN known)
                                      \cup UNION {known[v].holes : v \in {} \cap DOMAIN known}]
    BY DEF substituteEnvVars, Empty
  <2>3. substituteEnvVars(Empty, known) = [Empty EXCEPT !.holes = {}]
    BY <2>1, <2>2
  <2>4. QED
    BY <1>4, <2>3 DEF Empty
<1>5. QED
  BY <1>2, <1>3, <1>4

\* The configuration before the defaults: the file's under the environment's.
Overridden(h) == applyEnvOverrides(Parsed(h.file, h.vars), h.env, h.vars)

LEMMA LoadSucceeds ==
    ASSUME NEW h, Load(h) # NoConfig
    PROVE  /\ h.file # Unreadable
           /\ \A s \in DOMAIN h.env : h.env[s] # Malformed
           /\ Load(h) = setDefaults(Overridden(h), h.vars, h.metadata)
<1> DEFINE config == setDefaults(Overridden(h), h.vars, h.metadata)
<1>1. Load(h) = IF \/ h.file = Unreadable
                   \/ \E s \in DOMAIN h.env : h.env[s] = Malformed
                   \/ ~validate(config)
                THEN NoConfig ELSE config
  BY DEF Load, Overridden
<1> HIDE DEF config
<1>2. QED
  BY <1>1 DEF config

\* What the defaults and the project id do to a setting.
LEMMA DefaultsApplied ==
    ASSUME NEW config, NEW known, NEW metadata, NEW s \in Settings
    PROVE  LET final == setDefaults(config, known, metadata)
           IN  /\ DOMAIN final = Settings
               /\ s \notin {"issuer", "audience"} => final[s] = WithDefault(config, s)
               /\ s \in {"issuer", "audience"} =>
                    \/ final[s] = WithDefault(config, s)
                    \/ \E project : final[s] = substituteEnvVars(WithDefault(config, s), project)
<1> DEFINE base == [x \in Settings |-> WithDefault(config, x)]
           id == IF PROJECT \in DOMAIN known THEN known[PROJECT] ELSE metadata
           project == [v \in {PROJECT} |-> id]
           final == setDefaults(config, known, metadata)
<1>1. /\ DOMAIN base = Settings
      /\ base[s] = WithDefault(config, s)
  OBVIOUS
<1>2. final = IF id = Empty
              THEN base
              ELSE [base EXCEPT !["issuer"] = substituteEnvVars(@, project),
                                !["audience"] = substituteEnvVars(@, project)]
  BY DEF setDefaults, resolveGCPProjectID
<1> HIDE DEF base, project, id, final
<1>3. CASE id = Empty
  BY <1>1, <1>2, <1>3 DEF final
<1>4. CASE id # Empty
  <2>1. "issuer" \in Settings /\ "audience" \in Settings
    BY Kinds
  <2>2. final = [base EXCEPT !["issuer"] = substituteEnvVars(base["issuer"], project),
                             !["audience"] = substituteEnvVars(base["audience"], project)]
    BY <1>1, <1>2, <1>4, <2>1
  <2>3. QED
    BY <1>1, <2>1, <2>2 DEF final
<1>5. QED
  BY <1>3, <1>4

\* Neither the switch that turns the admin API on nor a text that holds the
\* project id has a default.
LEMMA NoDefault ==
    ASSUME NEW config, NEW s \in {"issuer", "audience", "adminEnabled"}
    PROVE  WithDefault(config, s) = config[s]
<1>1. s \notin DOMAIN Defaults /\ s \notin DOMAIN AdminDefaults
  BY DEF Defaults, AdminDefaults
<1>2. QED
  BY <1>1 DEF WithDefault

\* The environment and the file, as Layered reads them, for each kind of
\* setting: a map,
LEMMA MapsMerged ==
    ASSUME host \in Hosts, Load(host) # NoConfig, NEW s \in Settings, Kind[s] = "map"
    PROVE  LET map == Overridden(host)[s]
           IN  /\ DOMAIN map = Keys(host.env, s) \cup Keys(host.file, s)
               /\ \A k \in Keys(host.env, s) : map[k].say = host.env[s][k].say
               /\ \A k \in Keys(host.file, s) \ Keys(host.env, s) :
                    map[k].say = host.file[s][k].say
<1> DEFINE parsed == Parsed(host.file, host.vars)
           map == Overridden(host)[s]
<1>1. /\ host.file # Unreadable
      /\ s \in DOMAIN host.env => host.env[s] # Malformed
  BY LoadSucceeds
<1>2. /\ s \in DOMAIN host.file => \A k \in DOMAIN host.file[s] : host.file[s][k] \in Texts
      /\ s \in DOMAIN host.env => \A k \in DOMAIN host.env[s] : host.env[s][k] \in Texts
  BY <1>1, LayerTypes DEF OfKind
<1>3. /\ DOMAIN parsed[s] = Keys(host.file, s)
      /\ \A k \in Keys(host.file, s) : parsed[s][k].say = host.file[s][k].say
  <2>1. CASE s \in DOMAIN host.file
    <3>1. parsed[s] = [k \in DOMAIN host.file[s] |-> substituteEnvVars(host.file[s][k], host.vars)]
      BY <2>1 DEF Parsed, Substituted
    <3>2. \A k \in DOMAIN host.file[s] :
            substituteEnvVars(host.file[s][k], host.vars).say = host.file[s][k].say
      BY <1>2, <2>1, SubstitutionKeepsEmpty, SubstitutionSays DEF Saying
    <3>3. QED
      BY <2>1, <3>1, <3>2 DEF Keys
  <2>2. CASE s \notin DOMAIN host.file
    <3>1. parsed[s] = [k \in {} |-> Empty]
      BY <2>2 DEF Parsed, Zero, ZeroOf
    <3>2. QED
      BY <2>2, <3>1 DEF Keys
  <2>3. QED
    BY <2>1, <2>2
<1> HIDE DEF parsed
<1>4. CASE s \in DOMAIN host.env
  <2>1. map = [k \in DOMAIN parsed[s] \cup DOMAIN host.env[s] |->
                 IF k \in DOMAIN host.env[s]
                 THEN substituteEnvVars(host.env[s][k], host.vars)
                 ELSE parsed[s][k]]
    BY <1>4 DEF Overridden, applyEnvOverrides, applyJWTMapOverrides, parsed
  <2>2. \A k \in DOMAIN host.env[s] :
          substituteEnvVars(host.env[s][k], host.vars).say = host.env[s][k].say
    BY <1>2, <1>4, SubstitutionKeepsEmpty, SubstitutionSays DEF Saying
  <2> HIDE DEF map
  <2>3. QED
    BY <1>3, <1>4, <2>1, <2>2 DEF Keys, map
<1>5. CASE s \notin DOMAIN host.env
  <2>1. map = parsed[s]
    BY <1>5 DEF Overridden, applyEnvOverrides, parsed
  <2>2. QED
    BY <1>3, <1>5, <2>1 DEF Keys
<1>6. QED
  BY <1>4, <1>5

\* a text,
LEMMA TextsGiven ==
    ASSUME host \in Hosts, Load(host) # NoConfig, NEW s \in Settings,
           Kind[s] \in {"text", "expanded"}
    PROVE  /\ Saying(Overridden(host)[s], Given(s).say)
           /\ Overridden(host)[s] = Empty <=> Given(s) = Empty
<1>1. /\ host.file # Unreadable
      /\ s \in DOMAIN host.env => host.env[s] # Malformed
  BY LoadSucceeds
<1>2. /\ s \in DOMAIN host.file => host.file[s] \in Texts
      /\ s \in DOMAIN host.env => host.env[s] \in Texts
  BY <1>1, LayerTypes DEF OfKind
<1>3. CASE s \in DOMAIN host.env
  <2>1. Given(s) = host.env[s]
    BY <1>3 DEF Given
  <2>2. \/ Overridden(host)[s] = host.env[s]
        \/ Overridden(host)[s] = substituteEnvVars(host.env[s], host.vars)
    BY <1>3 DEF Overridden, applyEnvOverrides
  <2>3. QED
    BY <1>2, <1>3, <2>1, <2>2, SubstitutionKeepsEmpty, SubstitutionSays
<1>4. CASE s \notin DOMAIN host.env /\ s \in DOMAIN host.file
  <2>1. Given(s) = host.file[s]
    BY <1>4 DEF Given
  <2>2. Overridden(host)[s] = substituteEnvVars(host.file[s], host.vars)
    BY <1>4 DEF Overridden, applyEnvOverrides, Parsed, Substituted
  <2>3. QED
    BY <1>2, <1>4, <2>1, <2>2, SubstitutionKeepsEmpty, SubstitutionSays
<1>5. CASE s \notin DOMAIN host.env /\ s \notin DOMAIN host.file
  <2>1. Overridden(host)[s] = Zero(s) /\ Given(s) = Zero(s)
    BY <1>5 DEF Overridden, applyEnvOverrides, Parsed, Given
  <2>2. Zero(s) = Empty
    BY DEF Zero, ZeroOf
  <2>3. Saying(Empty, Empty.say)
    BY DEF Saying, Empty
  <2>4. QED
    BY <2>1, <2>2, <2>3
<1>6. QED
  BY <1>3, <1>4, <1>5

\* and the rest.
LEMMA ValuesGiven ==
    ASSUME NEW s \in Settings, Kind[s] \notin {"map", "text", "expanded"}
    PROVE  Overridden(host)[s] = Given(s)
BY DEF Overridden, applyEnvOverrides, Parsed, Substituted, Given

\* What the rest of main relies on of a configuration.
LEMMA LoadTypes ==
    ASSUME host \in Hosts, Load(host) # NoConfig
    PROVE  /\ DOMAIN Load(host) = Settings
           /\ Load(host)["adminEnabled"] = Overridden(host)["adminEnabled"]
           /\ Load(host)["shutdownTimeoutSecs"] \in Int
<1> DEFINE over == Overridden(host)
<1>1. /\ Load(host) = setDefaults(over, host.vars, host.metadata)
      /\ host.file # Unreadable
      /\ \A s \in DOMAIN host.env : host.env[s] # Malformed
  BY LoadSucceeds
<1> HIDE DEF over
<1>2. /\ DOMAIN Load(host) = Settings
      /\ \A s \in Settings \ {"issuer", "audience"} : Load(host)[s] = WithDefault(over, s)
  BY <1>1, Kinds, DefaultsApplied
<1>3. Load(host)["adminEnabled"] = over["adminEnabled"]
  BY <1>2, Kinds, NoDefault
<1>4. over["shutdownTimeoutSecs"] \in Int
  <2>1. over["shutdownTimeoutSecs"] = Given("shutdownTimeoutSecs")
    BY Kinds, ValuesGiven DEF over
  <2>2. Zero("shutdownTimeoutSecs") = 0
    BY Kinds DEF Zero, ZeroOf
  <2>3. \A value : OfKind(value, "int") => value \in Int
    BY DEF OfKind
  <2>4. /\ "shutdownTimeoutSecs" \in DOMAIN host.file =>
             OfKind(host.file["shutdownTimeoutSecs"], "int")
        /\ "shutdownTimeoutSecs" \in DOMAIN host.env =>
             OfKind(host.env["shutdownTimeoutSecs"], "int")
    BY <1>1, Kinds, LayerTypes
  <2>5. QED
    BY <2>1, <2>2, <2>3, <2>4 DEF Given
<1>5. Load(host)["shutdownTimeoutSecs"] \in Int
  <2>1. "shutdownTimeoutSecs" \in DOMAIN Defaults /\ Defaults["shutdownTimeoutSecs"] = 10
    BY DEF Defaults
  <2>2. "shutdownTimeoutSecs" \notin DOMAIN AdminDefaults
    BY DEF AdminDefaults
  <2>3. WithDefault(over, "shutdownTimeoutSecs")
          = IF over["shutdownTimeoutSecs"] # Zero("shutdownTimeoutSecs")
            THEN over["shutdownTimeoutSecs"] ELSE 10
    BY <2>1, <2>2 DEF WithDefault
  <2>4. QED
    BY <1>2, <1>4, <2>3, Kinds
<1>6. QED
  BY <1>2, <1>3, <1>5 DEF over

\* The passes of Load, one over the other, come to the precedence of the layers.
LEMMA LoadLayers ==
    ASSUME host \in Hosts, cfg # NoConfig, cfg = Load(host)
    PROVE  Layered
<1> DEFINE over == Overridden(host)
<1>1. cfg = setDefaults(over, host.vars, host.metadata)
  BY LoadSucceeds
<1>2. cfg["adminEnabled"] = over["adminEnabled"]
  BY LoadTypes
<1> HIDE DEF over
<1>3. ASSUME NEW s \in Settings
      PROVE  /\ s \notin {"issuer", "audience"} => cfg[s] = WithDefault(over, s)
             /\ s \in {"issuer", "audience"} =>
                  \/ cfg[s] = over[s]
                  \/ \E project : cfg[s] = substituteEnvVars(over[s], project)
  BY <1>1, DefaultsApplied, NoDefault
<1>4. ASSUME NEW s \in Settings, over[s] = Zero(s)
      PROVE  WithDefault(over, s) = DefaultOf(s)
  BY <1>2, <1>4 DEF WithDefault, DefaultOf
<1>5. ASSUME NEW s \in Settings, Kind[s] = "map"
      PROVE  /\ DOMAIN cfg[s] = Keys(host.env, s) \cup Keys(host.file, s)
             /\ \A k \in Keys(host.env, s) : cfg[s][k].say = host.env[s][k].say
             /\ \A k \in Keys(host.file, s) \ Keys(host.env, s) :
                  cfg[s][k].say = host.file[s][k].say
  <2>1. s \notin DOMAIN Defaults /\ s \notin DOMAIN AdminDefaults /\ s \notin {"issuer", "audience"}
    BY <1>5, Kinds
  <2>2. cfg[s] = over[s]
    BY <1>3, <1>5, <2>1 DEF WithDefault
  <2>3. QED
    BY <1>5, <2>2, MapsMerged DEF over
<1>6. ASSUME NEW s \in Settings, Kind[s] \in {"text", "expanded"}
      PROVE  cfg[s].say = Expected(s).say
  <2>1. /\ Saying(over[s], Given(s).say)
        /\ over[s] = Empty <=> Given(s) = Empty
    BY <1>6, TextsGiven DEF over
  <2>2. Zero(s) = Empty
    BY <1>6 DEF Zero, ZeroOf
  <2>3. CASE s \in {"issuer", "audience"}
    <3>1. Saying(cfg[s], Given(s).say)
      BY <1>3, <2>1, <2>3, SubstitutionSays
    <3>2. DefaultOf(s) = Empty
      BY <2>2, <2>3 DEF DefaultOf, Defaults, AdminDefaults
    <3>3. Expected(s) = Given(s)
      BY <2>2, <3>2 DEF Expected
    <3>4. QED
      BY <3>1, <3>3 DEF Saying
  <2>4. CASE s \notin {"issuer", "audience"} /\ Given(s) # Empty
    <3>1. cfg[s] = over[s]
      BY <1>3, <1>6, <2>1, <2>2, <2>4 DEF WithDefault
    <3>2. Expected(s) = Given(s)
      BY <2>2, <2>4 DEF Expected
    <3>3. QED
      BY <2>1, <3>1, <3>2 DEF Saying
  <2>5. CASE s \notin {"issuer", "audience"} /\ Given(s) = Empty
    <3>1. cfg[s] = DefaultOf(s)
      BY <1>3, <1>4, <1>6, <2>1, <2>2, <2>5
    <3>2. Expected(s) = DefaultOf(s)
      BY <2>2, <2>5 DEF Expected
    <3>3. QED
      BY <3>1, <3>2
  <2>6. QED
    BY <2>3, <2>4, <2>5
<1>7. ASSUME NEW s \in Settings, Kind[s] \notin {"map", "text", "expanded"}
      PROVE  cfg[s] = Expected(s)
  <2>1. over[s] = Given(s)
    BY <1>7, ValuesGiven DEF over
  <2>2. cfg[s] = WithDefault(over, s)
    BY <1>3, <1>7, Kinds
  <2>3. CASE over[s] # Zero(s)
    BY <2>1, <2>2, <2>3 DEF WithDefault, Expected
  <2>4. CASE over[s] = Zero(s)
    BY <1>4, <2>1, <2>2, <2>4 DEF Expected
  <2>5. QED
    BY <2>3, <2>4
<1>8. QED
  BY <1>5, <1>6, <1>7 DEF Layered

-----------------------------------------------------------------------------
(***************************************************************************)
(* The initial state, before the flags are parsed (flex/main.go line 37).  *)
(***************************************************************************)
LEMMA InitInv == Init => Inv
<1> SUFFICES ASSUME Init PROVE Inv  OBVIOUS
<1>1. TypeOK
  <2>1. stopped \in [Stores -> 0..1] /\ \A x \in Stores : ~(stopped[x] > 0)
    BY DEF Init
  <2>2. request \in [Requests -> {"none", "active", "done", "cut"}]
    BY DEF Init
  <2> QED  BY <2>1, <2>2 DEF Init, TypeOK, Running
<1>2. ConfigFits
  BY DEF Init, ConfigFits, Configured, Built
<1>3. StoresFit  BY DEF Init, StoresFit, Stops, Stores
<1>4. RequestsFit /\ CutOnlyLate /\ CleanExit
  BY DEF Init, RequestsFit, Active, Early, Closing, CutOnlyLate, CleanExit
<1> QED  BY <1>1, <1>2, <1>3, <1>4 DEF Inv

(***************************************************************************)
(* Every step of main, the server goroutine, the requests and the          *)
(* environment keeps the invariant.                                        *)
(***************************************************************************)
LEMMA StepInv == Inv /\ [Next]_vars => Inv'
<1> SUFFICES ASSUME Inv, [Next]_vars PROVE Inv'  OBVIOUS
<1> USE DEF Inv, core, serving
<1>0. CASE UNCHANGED vars
  BY <1>0 DEF vars, TypeOK, ConfigFits, StoresFit, Stops, RequestsFit, CutOnlyLate,
     CleanExit, Running, Active
<1>1. CASE parseFlags
  BY <1>1 DEF parseFlags, End, TypeOK, ConfigFits, StoresFit, Stops, RequestsFit,
     CutOnlyLate, CleanExit, Running, Active, Early, Built, Configured, Closing, Stores
<1>2. CASE LoadConfig
  <2>1. host \in Hosts /\ (Load(host) # NoConfig => DOMAIN Load(host) = Settings)
    BY LoadTypes DEF TypeOK
  <2> QED
    BY <1>2, <2>1 DEF LoadConfig, End, TypeOK, ConfigFits, StoresFit, Stops,
     RequestsFit, CutOnlyLate, CleanExit, Running, Active, Early, Built, Configured,
     Closing, Stores
<1>3. CASE runHealthCheck
  BY <1>3 DEF runHealthCheck, End, TypeOK, ConfigFits, StoresFit, Stops, RequestsFit,
     CutOnlyLate, CleanExit, Running, Active, Early, Built, Configured, Closing, Stores
<1>3a. CASE ParseURLs
  BY <1>3a DEF ParseURLs, End, TypeOK, ConfigFits, StoresFit, Stops, RequestsFit,
     CutOnlyLate, CleanExit, Running, Active, Early, Built, Configured, Closing, Stores
<1>4. CASE OpenStorage
  BY <1>4 DEF OpenStorage, End, TypeOK, ConfigFits, StoresFit, Stops, RequestsFit,
     CutOnlyLate, CleanExit, Running, Active, Early, Built, Configured, Closing, Stores
<1>5. CASE AssemblePlugins
  BY <1>5, ProcessAssumption DEF AssemblePlugins, validatePluginAvailability, End,
     TypeOK, ConfigFits, StoresFit, Stops, RequestsFit,
     CutOnlyLate, CleanExit, Running, Active, Early, Built, Configured, Closing, Stores
<1>6. CASE AssembleDirectly
  <2>1. TypeOK'
    BY <1>6 DEF AssembleDirectly, Plugins, End, TypeOK, StoresFit, Stops, Stores, Running
  <2>2. ConfigFits'
    BY <1>6 DEF AssembleDirectly, End, ConfigFits, Built, Configured
  <2>3. StoresFit'
    BY <1>6 DEF AssembleDirectly, End, StoresFit, Stops, Stores
  <2>4. RequestsFit' /\ CutOnlyLate' /\ CleanExit'
    BY <1>6 DEF AssembleDirectly, End, RequestsFit, CutOnlyLate, CleanExit, Active, Early, Closing,
       TypeOK, Running
  <2> QED  BY <2>1, <2>2, <2>3, <2>4
<1>7. CASE Spawn
  BY <1>7 DEF Spawn, TypeOK, ConfigFits, StoresFit, Stops, RequestsFit,
     CutOnlyLate, CleanExit, Running, Active, Early, Built, Configured, Closing, Stores
<1>8. CASE Notify
  BY <1>8 DEF Notify, TypeOK, ConfigFits, StoresFit, Stops, RequestsFit,
     CutOnlyLate, CleanExit, Running, Active, Early, Built, Configured, Closing, Stores
<1>9. CASE BeginShutdown
  <2>1. cfg["shutdownTimeoutSecs"] \in Int
    BY <1>9, LoadTypes DEF BeginShutdown, TypeOK, ConfigFits, Configured, Built
  <2> QED
    BY <1>9, <2>1 DEF BeginShutdown, TypeOK, ConfigFits, StoresFit, Stops, RequestsFit,
     CutOnlyLate, CleanExit, Running, Active, Early, Built, Configured, Closing, Stores
<1>10. CASE Drained
  BY <1>10 DEF Drained, TypeOK, ConfigFits, StoresFit, Stops, RequestsFit,
     CutOnlyLate, CleanExit, Running, Active, Early, Built, Configured, Closing, Stores
<1>11. CASE DeadlinePassed
  BY <1>11 DEF DeadlinePassed, TypeOK, ConfigFits, StoresFit, Stops, RequestsFit,
     CutOnlyLate, CleanExit, Running, Active, Early, Built, Configured, Closing, Stores
<1>12. CASE Join
  BY <1>12 DEF Join, TypeOK, ConfigFits, StoresFit, Stops, RequestsFit,
     CutOnlyLate, CleanExit, Running, Active, Early, Built, Configured, Closing, Stores
<1>13. CASE StopStores
  BY <1>13 DEF StopStores, TypeOK, ConfigFits, StoresFit, Stops, RequestsFit,
     CutOnlyLate, CleanExit, Running, Active, Early, Built, Configured, Closing, Stores
<1>14. CASE StopPlugins
  <2>1. stopped' \in [Stores -> 0..1] /\ (\A x \in Stores : stopped'[x] > 0 => x \in made)
    BY <1>14 DEF StopPlugins, TypeOK, StoresFit, Stops, Stores
  <2>2. \A x \in made : stopped'[x] = 1
    BY <1>14 DEF StopPlugins, TypeOK, StoresFit, Stops, Stores
  <2>3. CutOnlyLate' /\ CleanExit'
    BY <1>14, <2>2 DEF StopPlugins, End, CutOnlyLate, CleanExit, RequestsFit, Active
  <2> QED
    BY <1>14, <2>1, <2>3 DEF StopPlugins, End, TypeOK, ConfigFits, StoresFit, Stops, RequestsFit,
       Running, Active, Early, Built, Configured, Closing, Stores
<1>15. CASE Listen
  <2>1. TypeOK' /\ Active' = Active
    BY <1>15 DEF Listen, TypeOK, Running, Active
  <2>2. ConfigFits' /\ CutOnlyLate' /\ CleanExit'
    BY <1>15 DEF Listen, ConfigFits, CutOnlyLate, CleanExit
  <2>3. StoresFit'
    BY <1>15 DEF Listen, StoresFit, Stops
  <2>4. RequestsFit'
    BY <1>15, <2>1 DEF Listen, RequestsFit, Early, Closing, TypeOK, Running
  <2> QED  BY <2>1, <2>2, <2>3, <2>4
<1>16. CASE ServeReturns
  BY <1>16 DEF ServeReturns, TypeOK, ConfigFits, StoresFit, Stops, RequestsFit,
     CutOnlyLate, CleanExit, Running, Active, Early, Built, Configured, Closing, Stores
<1>17. CASE \E r \in Requests : Accept(r)
  BY <1>17 DEF Accept, TypeOK, ConfigFits, StoresFit, Stops, RequestsFit,
     CutOnlyLate, CleanExit, Running, Active, Early, Built, Configured, Closing, Stores
<1>18. CASE \E r \in Requests : Answer(r)
  BY <1>18 DEF Answer, TypeOK, ConfigFits, StoresFit, Stops, RequestsFit,
     CutOnlyLate, CleanExit, Running, Active, Early, Built, Configured, Closing, Stores
<1>19. CASE Signal
  BY <1>19 DEF Signal, End, TypeOK, ConfigFits, StoresFit, Stops, RequestsFit,
     CutOnlyLate, CleanExit, Running, Active, Early, Built, Configured, Closing, Stores
<1>20. CASE Tick
  BY <1>20 DEF Tick, TypeOK, ConfigFits, StoresFit, Stops, RequestsFit,
     CutOnlyLate, CleanExit, Running, Active, Early, Built, Configured, Closing, Stores
<1> QED
  BY <1>0, <1>1, <1>2, <1>3, <1>4, <1>5, <1>6, <1>7, <1>8, <1>9, <1>10, <1>11, <1>12, <1>13, <1>14, <1>15, <1>16, <1>17, <1>18, <1>19, <1>20, <1>3a DEF Next, Main

-----------------------------------------------------------------------------
(***************************************************************************)
(* Every reachable state satisfies the invariant; the theorems below are   *)
(* its parts (cmd/flex/main.go, cmd/lite/main.go and NewHandlerWithDeps).  *)
(***************************************************************************)
THEOREM Invariance == Spec => []Inv
<1>1. Init => Inv  BY InitInv
<1>2. Inv /\ [Next]_vars => Inv'  BY StepInv
<1> QED  BY <1>1, <1>2, PTL DEF Spec

(***************************************************************************)
(* The type invariant; no store is stopped twice (Stop and Close, called   *)
(* from NewHandlerWithDeps and from StopFn).                               *)
(***************************************************************************)
THEOREM TypeCorrect == Spec => []TypeOK
<1>1. Inv => TypeOK  BY DEF Inv
<1> QED  BY <1>1, Invariance, PTL

(***************************************************************************)
(* The stores in use are stopped under a request, and a request is cut     *)
(* off, only when Shutdown ran out of time, or, for the latter, when a     *)
(* signal came before main waits for one (flex/main.go lines 107-116 and   *)
(* 231-244).                                                               *)
(***************************************************************************)
THEOREM RequestsAreDrained == Spec => []RequestsDrained
<1>1. Inv => RequestsDrained
  BY DEF Inv, RequestsFit, RequestsDrained, Closing
<1> QED  BY <1>1, Invariance, PTL

(***************************************************************************)
(* A process that returns from main has stopped each thing it made, once   *)
(* (StopFn, proxy.go lines 307-320).                                       *)
(***************************************************************************)
THEOREM ExitIsClean == Spec => []CleanExit
<1>1. Inv => CleanExit  BY DEF Inv
<1> QED  BY <1>1, Invariance, PTL

(***************************************************************************)
(* On every host, for each setting of a running process: the environment   *)
(* decides if it has the variable, or else the file; a zero or an empty    *)
(* text there gives way to the default, and maps are merged key by key.    *)
(* This is what the three passes of Load that overwrite one another come   *)
(* to (applyEnvOverrides, setDefaults and resolveGCPProjectID, config.go   *)
(* lines 135-166).                                                         *)
(***************************************************************************)
THEOREM LayersArePrecedent == Spec => []Layered
<1>1. Inv => Layered
  <2>1. CASE cfg = NoConfig
    BY <2>1 DEF Layered
  <2>2. CASE cfg # NoConfig
    BY <2>2, LoadLayers DEF Inv, TypeOK, ConfigFits
  <2> QED  BY <2>1, <2>2
<1> QED  BY <1>1, Invariance, PTL
=============================================================================
