------------------------------- MODULE Process -------------------------------
(***************************************************************************)
(* The life of a proxy process: cmd/flex/main.go and cmd/lite/main.go,     *)
(* NewHandlerWithDeps of internal/proxy/proxy.go, the plugin registry      *)
(* (internal/plugin/registry.go) and the Firestore plugin's Open and Stop. *)
(*                                                                         *)
(* main goes from the flags over the configuration and the handler to a    *)
(* server goroutine, waits for a signal, drains, and stops the stores.     *)
(* Signals, requests, the port, the storage service and the metadata       *)
(* server do as they like.                                                 *)
(***************************************************************************)
EXTENDS Configuration

CONSTANTS
    Hosts,          \* what a process may find: build, flags, file, environment, services
    Requests        \* requests that clients send

Plugins == {"ratelimit", "admin", "apikey", "storage-firestore"}
Stores == {"memory", "firestore", "client"}

ASSUME ProcessAssumption ==
    \A h \in Hosts :
        /\ h.plugins \subseteq Plugins
        /\ h.flags \in {"bad", "healthcheck", "serve"}

\* What the TOML decoder, strconv and the environment give a setting is of its
\* kind, or else an error.
ASSUME LayerTypes ==
    \A h \in Hosts, s \in Settings :
        /\ h.file # Unreadable /\ s \in DOMAIN h.file => OfKind(h.file[s], Kind[s])
        /\ s \in DOMAIN h.env => h.env[s] = Malformed \/ OfKind(h.env[s], Kind[s])

VARIABLES
    host,           \* the host the process is on
    pc,             \* where main is
    cfg,            \* the configuration, or NoConfig
    parts,          \* what the handler was assembled from
    made,           \* stores and clients that were created
    stopped,        \* stopped[x]: how often Stop or Close was called on x
    server,         \* the goroutine in ListenAndServe
    result,         \* the channel shutdownErrors, of capacity one
    signal,         \* "none", "pending" in the channel, or "taken"
    left,           \* time left of the shutdown context
    late,           \* Shutdown returned because the context ended
    request,        \* request[r]: "none", "active", "done", or "cut"
    status          \* how the process ended

vars == <<host, pc, cfg, parts, made, stopped, server, result, signal, left, late, request, status>>
core == <<host, cfg, parts>>
serving == <<server, result, signal, left, late, request>>

Running == status = "running"
Active == {r \in Requests : request[r] = "active"}

Init ==
    /\ host \in Hosts
    /\ pc = "flags"
    /\ cfg = NoConfig
    /\ parts = {}
    /\ made = {}
    /\ stopped = [x \in Stores |-> 0]
    /\ server = "none"
    /\ result = "empty"
    /\ signal = "none"
    /\ left = 0
    /\ late = FALSE
    /\ request = [r \in Requests |-> "none"]
    /\ status = "running"

\* The process is gone, and with it every request it was serving.
End(how) ==
    /\ status' = how
    /\ pc' = "ended"
    /\ request' = [r \in Requests |-> IF request[r] = "active" THEN "cut" ELSE request[r]]

-----------------------------------------------------------------------------
(* Before the handler.                                                     *)

parseFlags ==
    /\ pc = "flags"
    /\ \/ host.flags = "bad" /\ End("usage")
       \/ host.flags # "bad" /\ pc' = "load" /\ UNCHANGED <<request, status>>
    /\ UNCHANGED <<core, made, stopped, server, result, signal, left, late>>

LoadConfig ==
    /\ pc = "load"
    /\ cfg' = Load(host)
    /\ \/ cfg' = NoConfig /\ End("failed")
       \/ /\ cfg' # NoConfig
          /\ pc' = IF host.flags = "healthcheck" THEN "healthcheck" ELSE "urls"
          /\ UNCHANGED <<request, status>>
    /\ UNCHANGED <<host, parts, made, stopped, server, result, signal, left, late>>

\* Without a target there is nothing to ask; otherwise the target decides.
runHealthCheck ==
    /\ pc = "healthcheck"
    /\ \/ End("ok")
       \/ cfg["healthTarget"] # Empty /\ End("failed")
    /\ UNCHANGED <<core, made, stopped, server, result, signal, left, late>>

-----------------------------------------------------------------------------
(* NewHandlerWithDeps.                                                     *)

\* The features that the configuration turns on, by the plugin they need.
Wanted(config) ==
    {p \in Plugins :
        \/ p = "ratelimit" /\ (config["ipEnabled"] \/ config["apikeyEnabled"] \/ config["jwtEnabled"])
        \/ p = "admin" /\ config["adminEnabled"]
        \/ p = "apikey" /\ config["apiKeyEnabled"]
        \/ p = "storage-firestore" /\ config["storageEnabled"]}

UsePlugins == host.plugins # {}
UseStorage == "storage-firestore" \in host.plugins /\ cfg["storageEnabled"]

validatePluginAvailability(config, plugins) == Wanted(config) \subseteq plugins

\* First of all, in every build, the URLs of the target and of the health target.
ParseURLs ==
    /\ pc = "urls"
    /\ \/ host.urlsParse /\ pc' = "build" /\ UNCHANGED <<request, status>>
       \/ ~host.urlsParse /\ End("failed")
    /\ UNCHANGED <<core, made, stopped, server, result, signal, left, late>>

\* ValidateConfig of the storage plugin: a project is known from the
\* configuration, the environment or the metadata server, and the prefix is fit.
StorageValid ==
    /\ \/ cfg["projectId"] # Empty
       \/ PROJECT \in DOMAIN host.vars
       \/ host.metadata # Empty
    /\ host.prefixFits

\* Phases 1 and 2: the default store, and the storage backend in its place.
\* An error leaves the client open; the process exits.
OpenStorage ==
    /\ pc = "build"
    /\ UsePlugins
    /\ \/ /\ ~UseStorage
          /\ made' = {"memory"}
          /\ pc' = "assemble"
          /\ UNCHANGED <<stopped, request, status>>
       \/ /\ UseStorage /\ StorageValid
          /\ made' = Stores
          /\ stopped' = [stopped EXCEPT !["memory"] = @ + 1]
          /\ pc' = "assemble"
          /\ UNCHANGED <<request, status>>
       \/ /\ UseStorage
          /\ made' \in {{"memory"}} \cup (IF StorageValid THEN {{"memory", "client"}} ELSE {})
          /\ End("failed")
          /\ UNCHANGED stopped
    /\ UNCHANGED <<core, server, result, signal, left, late>>

\* Phases 3 to 7: every feature needs its plugin; a match pattern that does not
\* parse ends it, too.
AssemblePlugins ==
    /\ pc = "assemble"
    /\ \/ /\ validatePluginAvailability(cfg, host.plugins) /\ host.patternsParse
          /\ parts' = host.plugins
          /\ pc' = "rules"
          /\ UNCHANGED <<request, status>>
       \/ /\ ~validatePluginAvailability(cfg, host.plugins) \/ ~host.patternsParse
          /\ End("failed")
          /\ UNCHANGED parts
    /\ UNCHANGED <<host, cfg, made, stopped, server, result, signal, left, late>>

\* No plugin is registered: limiters and the API-key check are always there,
\* the admin API and its store when they are configured, storage never.
AssembleDirectly ==
    /\ pc = "build"
    /\ ~UsePlugins
    /\ \/ /\ host.patternsParse
          /\ parts' = {"ratelimit", "apikey"} \cup (IF cfg["adminEnabled"] THEN {"admin"} ELSE {})
          /\ made' = IF cfg["adminEnabled"] THEN {"memory"} ELSE {}
          /\ pc' = "rules"
          /\ UNCHANGED <<request, status>>
       \/ /\ ~host.patternsParse
          /\ End("failed")
          /\ UNCHANGED <<parts, made>>
    /\ UNCHANGED <<host, cfg, stopped, server, result, signal, left, late>>

\* The rule loader (AdminControl.tla) runs in the flex program only, and an
\* error of it is only logged; then the server goroutine is started.
Spawn ==
    /\ pc = "rules"
    /\ pc' = "spawned"
    /\ server' = "starting"
    /\ UNCHANGED <<core, made, stopped, result, signal, left, late, request, status>>

-----------------------------------------------------------------------------
(* The server goroutine and the requests.                                  *)

\* ListenAndServe: closed already, or the port cannot be had, or it listens.
Listen ==
    /\ Running /\ server = "starting"
    /\ \/ /\ pc \in {"draining", "joining"}
          /\ server' = "returned" /\ result' = "nil"
       \/ /\ pc \notin {"draining", "joining"}
          /\ server' = "returned" /\ result' = "error"
       \/ /\ pc \notin {"draining", "joining"}
          /\ server' = "listening" /\ UNCHANGED result
    /\ UNCHANGED <<core, pc, made, stopped, signal, left, late, request, status>>

Accept(r) ==
    /\ Running /\ server = "listening" /\ request[r] = "none"
    /\ request' = [request EXCEPT ![r] = "active"]
    /\ UNCHANGED <<core, pc, made, stopped, server, result, signal, left, late, status>>

Answer(r) ==
    /\ Running /\ request[r] = "active"
    /\ request' = [request EXCEPT ![r] = "done"]
    /\ UNCHANGED <<core, pc, made, stopped, server, result, signal, left, late, status>>

\* http.ErrServerClosed is no error.
ServeReturns ==
    /\ Running /\ server = "closed"
    /\ server' = "returned"
    /\ result' = "nil"
    /\ UNCHANGED <<core, pc, made, stopped, signal, left, late, request, status>>

-----------------------------------------------------------------------------
(* The end.                                                                *)

\* SIGINT or SIGTERM: until signal.Notify it kills the process, afterwards the
\* channel takes it; a second one changes nothing.
Signal ==
    /\ Running
    /\ signal = "none"
    /\ \/ /\ pc = "awaiting"
          /\ signal' = "pending"
          /\ UNCHANGED <<pc, request, status>>
       \/ /\ pc \notin {"awaiting", "draining", "joining", "stopping", "closing"}
          /\ signal' = "taken"
          /\ End("killed")
    /\ UNCHANGED <<core, made, stopped, server, result, left, late>>

Notify ==
    /\ pc = "spawned"
    /\ pc' = "awaiting"
    /\ UNCHANGED <<core, made, stopped, serving, status>>

\* Shutdown closes the listener and waits; main has not looked at result yet.
BeginShutdown ==
    /\ pc = "awaiting"
    /\ signal = "pending"
    /\ signal' = "taken"
    /\ pc' = "draining"
    /\ left' = IF cfg["shutdownTimeoutSecs"] > 0 THEN cfg["shutdownTimeoutSecs"] ELSE 0
    /\ server' = IF server = "listening" THEN "closed" ELSE server
    /\ UNCHANGED <<core, made, stopped, result, late, request, status>>

\* Mutant of Drained: Shutdown does not wait for the requests.
Drained_AtOnce ==
    /\ pc = "draining"
    /\ pc' = "joining"
    /\ UNCHANGED <<core, made, stopped, serving, status>>

Drained ==
    /\ pc = "draining"
    /\ Active = {}
    /\ pc' = "joining"
    /\ UNCHANGED <<core, made, stopped, serving, status>>

\* Mutant of DeadlinePassed: the context has no deadline.
DeadlinePassed_Never ==
    /\ pc = "draining" /\ FALSE
    /\ late' = TRUE
    /\ pc' = "joining"
    /\ UNCHANGED <<core, made, stopped, server, result, signal, left, request, status>>

DeadlinePassed ==
    /\ pc = "draining"
    /\ left = 0
    /\ late' = TRUE
    /\ pc' = "joining"
    /\ UNCHANGED <<core, made, stopped, server, result, signal, left, request, status>>

Tick ==
    /\ pc = "draining"
    /\ left > 0
    /\ left' = left - 1
    /\ UNCHANGED <<core, pc, made, stopped, server, result, signal, late, request, status>>

\* main takes the server's result, logs an error, and goes on either way.
Join ==
    /\ pc = "joining"
    /\ result # "empty"
    /\ result' = "empty"
    /\ pc' = "stopping"
    /\ UNCHANGED <<core, made, stopped, server, signal, left, late, request, status>>

\* Mutant of StopStores: the default store is stopped, whichever is in use.
StopStores_Memory ==
    /\ pc = "stopping"
    /\ stopped' = [stopped EXCEPT !["memory"] = @ + 1]
    /\ pc' = "closing"
    /\ UNCHANGED <<core, made, serving, status>>

\* StopFn: the rule store in use first.
StopStores ==
    /\ pc = "stopping"
    /\ stopped' = [x \in Stores |->
                     IF \/ x = "firestore" /\ "firestore" \in made
                        \/ x = "memory" /\ made = {"memory"}
                     THEN stopped[x] + 1 ELSE stopped[x]]
    /\ pc' = "closing"
    /\ UNCHANGED <<core, made, serving, status>>

\* Mutant of StopPlugins: plugins are not told to stop.
StopPlugins_NoClose ==
    /\ pc = "closing"
    /\ End("ok")
    /\ UNCHANGED <<core, made, stopped, server, result, signal, left, late>>

\* Then the plugins, of which only the Firestore plugin has a Stop; main returns.
StopPlugins ==
    /\ pc = "closing"
    /\ stopped' = IF "client" \in made THEN [stopped EXCEPT !["client"] = @ + 1] ELSE stopped
    /\ End("ok")
    /\ UNCHANGED <<core, made, server, result, signal, left, late>>

Main ==
    \/ parseFlags \/ LoadConfig \/ runHealthCheck
    \/ ParseURLs \/ OpenStorage \/ AssemblePlugins \/ AssembleDirectly \/ Spawn
    \/ Notify \/ BeginShutdown \/ Drained \/ DeadlinePassed \/ Join \/ StopStores \/ StopPlugins

Next ==
    \/ Main
    \/ Listen \/ ServeReturns
    \/ \E r \in Requests : Accept(r) \/ Answer(r)
    \/ Signal
    \/ Tick

Spec == Init /\ [][Next]_vars

\* main, the server goroutine and time go on; requests, clients and signals
\* owe nothing.
FairSpec ==
    /\ Spec
    /\ WF_vars(Main)
    /\ WF_vars(Listen \/ ServeReturns)
    /\ WF_vars(Tick)

-----------------------------------------------------------------------------
(* What is checked.                                                        *)

(***************************************************************************)
(* The type of every variable; no store is stopped that was not made, and  *)
(* none twice.                                                             *)
(***************************************************************************)
TypeOK ==
    /\ host \in Hosts
    /\ pc \in {"flags", "load", "healthcheck", "urls", "build", "assemble", "rules", "spawned", "awaiting",
               "draining", "joining", "stopping", "closing", "ended"}
    /\ cfg = NoConfig \/ DOMAIN cfg = Settings
    /\ parts \subseteq Plugins
    /\ made \subseteq Stores
    /\ stopped \in [Stores -> 0..1]
    /\ \A x \in Stores : stopped[x] > 0 => x \in made
    /\ server \in {"none", "starting", "listening", "closed", "returned"}
    /\ result \in {"empty", "nil", "error"}
    /\ signal \in {"none", "pending", "taken"}
    /\ left \in Nat
    /\ late \in BOOLEAN
    /\ request \in [Requests -> {"none", "active", "done", "cut"}]
    /\ status \in {"running", "usage", "failed", "ok", "killed"}
    /\ Running <=> pc # "ended"

\* What the first layer that mentions setting s says of it.
Given(s) ==
    IF s \in DOMAIN host.env THEN host.env[s] ELSE IF s \in DOMAIN host.file THEN host.file[s] ELSE Zero(s)
DefaultOf(s) ==
    CASE s \in DOMAIN Defaults -> Defaults[s]
      [] s \in DOMAIN AdminDefaults /\ cfg["adminEnabled"] -> AdminDefaults[s]
      [] OTHER -> Zero(s)
Expected(s) == IF Given(s) # Zero(s) THEN Given(s) ELSE DefaultOf(s)
Keys(layer, s) == IF s \in DOMAIN layer THEN DOMAIN layer[s] ELSE {}

(***************************************************************************)
(* One layer decides each setting: the environment if it has the variable, *)
(* or else the file if it has the key.  What that layer says holds, unless *)
(* it is zero or empty: then the default does, and never the file's value  *)
(* for a zero in the environment.  A text is the one its layer gave, up to *)
(* the placeholders in it, and maps are merged key by key (Load, config.go *)
(* lines 135-165: three passes that overwrite each other).                 *)
(***************************************************************************)
Layered ==
    cfg # NoConfig =>
        \A s \in Settings :
            CASE Kind[s] = "map" ->
                   /\ DOMAIN cfg[s] = Keys(host.env, s) \cup Keys(host.file, s)
                   /\ \A k \in Keys(host.env, s) : cfg[s][k].say = host.env[s][k].say
                   /\ \A k \in Keys(host.file, s) \ Keys(host.env, s) :
                        cfg[s][k].say = host.file[s][k].say
              [] Kind[s] \in {"text", "expanded"} -> cfg[s].say = Expected(s).say
              [] OTHER -> cfg[s] = Expected(s)

\* A request the process took is cut off by a late shutdown or an early signal.
CutOnlyLate == \A r \in Requests : request[r] = "cut" => late \/ status = "killed"

(***************************************************************************)
(* A shutdown lets requests end: the stores in use are stopped only when   *)
(* no connection is accepted any more and no request is left that could    *)
(* call them, and a request is cut off, only if Shutdown ran out of time   *)
(* or, for the cutting, a signal came before main waited for one           *)
(* (flex/main.go lines 102-116 and 232-244).                               *)
(***************************************************************************)
RequestsDrained ==
    /\ pc \in {"stopping", "closing"} => server # "listening" /\ (Active # {} => late)
    /\ CutOnlyLate

(***************************************************************************)
(* A process that served and returned from main left nothing running: the  *)
(* rule store's loops, or the listener on Firestore and its client, were   *)
(* stopped, each of them once (StopFn, proxy.go lines 307-320).            *)
(***************************************************************************)
CleanExit ==
    status = "ok" => \A x \in made : stopped[x] = 1

(***************************************************************************)
(* A process that gets a signal ends: also when the server never listened, *)
(* when its error came long before, when Shutdown overtakes ListenAndServe *)
(* and when requests hang (awaitShutdown and the receive from              *)
(* shutdownErrors, flex/main.go lines 102-111).                            *)
(***************************************************************************)
SignalEnds == signal # "none" ~> status # "running"
=============================================================================
