----------------------------- MODULE MCProcess -----------------------------
(* Processes on a handful of hosts, for TLC.                               *)
EXTENDS Process, TLC

CONSTANTS r1, r2

Text(say, holes) == [say |-> say, holes |-> holes]
None == <<>>

\* A complete file: JWT with the project in its issuer, an API key from a
\* variable, rate limits, no limit on bodies, the admin API and storage.
File ==
    "authJwtEnabled" :> TRUE @@ "issuer" :> Text("issuer", {PROJECT}) @@
    "audience" :> Text("audience", {PROJECT}) @@
    "apiKeyEnabled" :> TRUE @@ "apiKeyValue" :> Text("key", {"API_KEY"}) @@
    "ipEnabled" :> TRUE @@ "port" :> 9000 @@ "shutdownTimeoutSecs" :> 1 @@
    "adminEnabled" :> TRUE @@ "adminIssuer" :> Text("admin", {}) @@
    "adminAudience" :> Text("admin", {}) @@ "adminFilters" :> ("sub" :> Text("a", {})) @@
    "storageEnabled" :> TRUE @@ "maxBodyBytes" :> 0

Small == "port" :> 9000 @@ "shutdownTimeoutSecs" :> 0 @@ "storageEnabled" :> TRUE @@ "ipEnabled" :> TRUE

Secret == "API_KEY" :> Text("secret", {})
Project == PROJECT :> Text("project", {})
Nested == "API_KEY" :> Text("secret", {"OTHER"})

Environments ==
    {None,
     "storageEnabled" :> FALSE @@ "port" :> 0 @@ "shutdownTimeoutSecs" :> -1,
     "issuer" :> Text("other", {PROJECT}) @@ "adminFilters" :> ("email" :> Text("b", {"API_KEY"})),
     "healthTarget" :> Text("target", {}) @@ "port" :> 70000,
     "maxBodyBytes" :> 0,
     "port" :> Malformed}

\* Builds with every plugin, with none, and with one missing; every file and
\* environment, the project known or not, patterns that parse or not.
MCHosts ==
    [plugins : {Plugins, {}, {"storage-firestore"}} \cup {Plugins \ {p} : p \in Plugins},
     flags : {"serve"},
     file : {File, Small, Unreadable},
     env : Environments,
     vars : {Secret @@ Project, Secret, Project, Nested @@ Project},
     metadata : {Empty, Text("project", {})},
     urlsParse : {TRUE}, patternsParse : BOOLEAN,
     prefixFits : {TRUE}]
    \cup
    [plugins : {Plugins}, flags : {"bad", "healthcheck", "serve"}, file : {File},
     env : {None, "healthTarget" :> Text("target", {})}, vars : {Secret @@ Project},
     metadata : {Empty}, urlsParse : BOOLEAN, patternsParse : {TRUE}, prefixFits : BOOLEAN]
    \cup
    [plugins : {{}}, flags : {"serve"}, file : {Small}, env : {None}, vars : {Secret}, metadata : {Empty},
     urlsParse : {FALSE}, patternsParse : {TRUE}, prefixFits : {TRUE}]
=============================================================================
