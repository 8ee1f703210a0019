# A verification project for lite-auth-proxy

TLA+ modules, TLC configurations and TLAPS proofs for the Go program in this
repository: an authenticating reverse proxy with per-key rate limiting, dynamic
rules set through an admin API, and optional persistence of those rules in
Firestore, where several proxy instances share them.

Source paths below are relative to the root of the repository.

## 1. Inventory of the system

One process serves HTTP. Every request runs in its own goroutine through a
chain of middleware (`internal/proxy`); admin requests run beside them and
change shared state; each store runs background goroutines. There is no event
loop and no lock above the component level, so each component has to be correct
on its own under any interleaving.

| Component | State it keeps | Operations | Talks to |
|---|---|---|---|
| Rate limiter, `internal/ratelimit/limiter.go` | settings, a map from key to (window start, count, ban end, last seen), time of the last cleanup | `Allow`, `Enable`, `Disable`, `SetRequestsPerMin`, `GetStatus`, `cleanupLocked` | called by the middleware and by the admin handlers |
| Delay slots, same file and `middleware.go` `handleRateLimited` | the delay, the number of slots, a semaphore channel | `TryAcquireDelaySlot`, `ReleaseDelaySlot`, `SetThrottleDelay`, `SetMaxDelaySlots` | rejected requests; the admin handlers |
| Request matcher, `internal/ratelimit/matcher.go` | compiled match rules (constant) | `Matches` | `ApiKeyRateLimit` |
| In-memory rule store, `internal/store/rules.go`, `types.go` | a map of rules under an RWMutex, an atomic counter in each rule, a stop channel | `SetRule`, `RemoveRule`, `RemoveAll`, `ShouldAllow`, `GetStatus`, `Stop`, a cleanup loop, a counter-reset loop | `DynamicRuleCheck`, the admin handlers, the startup loader |
| Firestore rule store, `internal/plugins/storage/firestore/rule_store.go` | the same cache, a snapshot listener, writes in flight | the same operations, each with an asynchronous write; `listenForChanges` | Firestore, and through it the other instances |
| Key-value stores, `internal/store/keyvalue.go`, `firestore/kv_store.go` | a map with expiry times; a collection | get, set, delete | offered to plugins, used by none of them today |
| Admin API, `internal/admin` | none of its own | `handleSetRule`, `handleRemoveRule`, `handleRemoveAll`, `StatusHandler`, the admin's own JWT check | rule store, rate limiters |
| Startup rule loader, `internal/startup/rule_loader.go` | none | `Load` | rule store, rate limiters |
| Request pipeline, `internal/proxy` | request context | `RequestLogger`, `BodyLimiter`, `HeaderSanitizer`, `PathFilter`, `DynamicRuleCheck`, the three rate limits, `ServeHTTP` | all of the above |
| JWT validation, `internal/auth/jwt` | a cache of public keys with expiry | `ValidateToken`, `GetPublicKey`, filters, claim mapping | the identity provider over HTTP |
| API-key check, `internal/auth/apikey` | none | `ValidateAPIKey` | pipeline |
| Plugins, `internal/plugin`, `internal/plugins/*` | a registry | registration by priority, building of middleware and routes | pipeline |
| Configuration, `internal/config` | the settings (constant once loaded) | load, substitute, default, validate | everything |
| Processes, `cmd/flex`, `cmd/lite` | none | start, serve, shut down | everything |

### What is hard in it

* **Rate limiter.** `Allow` reads `enabled` and `requestsPerMin` with no lock,
  then the clock, and only then takes the mutex, where it reads
  `requestsPerMin` again. Goroutines therefore enter the section in an order
  other than that of their clock readings; a request of one key cleans up the
  records of all others; the admin changes the settings in between. Correct
  means: bans are neither lost nor shortened, windows do not overlap, cleanup is
  invisible except for memory, memory is reclaimed.
* **Delay slots.** `TryAcquireDelaySlot` sends to a channel that may have been
  replaced since it was read. Correct means: each slot goes back to the channel
  it came from, and giving one back never blocks a goroutine.
* **Rule store.** `ShouldAllow` and `resetAllRPM` hold the read lock together
  and share the counters; Go's map order is arbitrary; expiry, cleanup, reset
  and stop race with requests. Correct means: the cap of a throttle rule holds
  between resets, no live rule is lost, a verdict follows from a rule of the
  store.
* **Firestore rule store.** The cache is changed at once and the document
  later, by a goroutine nobody waits for: writes land in any order, fail, or
  die with the process; the instance's own writes come back through the
  listener; the listener may end for good; an instance may restart at any time.
  Correct means: what Firestore holds reaches every cache that listens.
* **Admin API and startup loader.** `set-rule` is one call on the store and up
  to four on a limiter, each locked by itself; two admins, the expiry of rules
  and the end of the process come in between, and `remove-rule` undoes nothing
  on the limiter. The loader does the same at startup from an environment
  variable, with a time that is stale by the time it is used. Correct means: no
  limiter is seen enabled with a limit nobody asked for, a rule that lives is
  enforced, and a restart does not prolong a rule.
* **JWT validation and key cache.** There is no single flight: several requests
  fetch the same key at once, and an older answer may be stored after a newer
  one, while the provider changes its keys or does not answer. Times in a token
  are checked before its key is fetched. Correct means: a withdrawn key lapses
  within a known time, a token is not accepted long after its expiry, and no
  request waits for ever.
* **Pipeline.** The order of the middleware decides which limiter governs a
  request and whether a header can be trusted, and it is laid out twice: by
  plugin priority in one build, by hand in the other. The health path and the
  admin API have handlers outside the chain, and limiters are enabled while
  requests are under way. Correct means: both builds decide alike, what reaches
  the target was let in by right, and what reaches it as identity was proved.
* **Configuration.** Passes overwrite each other's results: placeholders, file,
  environment, defaults, project id; the last of them take a zero for "not
  set". Correct means: one layer decides each setting, and it is known which.
* **Processes.** The server goroutine runs before `main` listens for signals,
  `main` waits for a signal before it looks at the server's error, and stores
  are stopped after a shutdown that may have run out of time. Correct means: a
  signal ends the process, requests are drained, stores are stopped once.

`PROJECT.json` lists these hazards with the line where each bites and the
properties that cover it. Those without a property say why in a note. Either
the program promises nothing that a property could hold it to (which of two
overlapping commands is inserted last, a write that fails, a process that could
not listen, a signal before `main` asks for signals), or the promise is broken
on a single branch, where a run would show no more than reading it does
(listener errors, writes lost at the exit, storage in `cmd/lite`, no match
rules), or the state is left out (the counter that the listener's echo resets).

## 2. Modules

| Module | What it is | Code |
|---|---|---|
| `WindowLimiter` | what a rate limiter promises: the abstract specification | the documented promise, in terms of `Allow` |
| `RateLimiter` | the mechanism of `limiter.go`; implements `WindowLimiter` | `internal/ratelimit/limiter.go` |
| `RateLimiterRolling` | the same, setters included, with an observer of admissions | the same |
| `DelaySlots` | semaphore, sleepers and setters | `limiter.go`; `handleRateLimited` in `internal/proxy/middleware.go` |
| `RuleTable` | what a store of rules promises: the abstract specification | the documented promise, in terms of the store's operations |
| `RuleStore` | the in-memory rule store with its loops; implements `RuleTable` | `internal/store/rules.go`, `types.go` |
| `FirestoreRules` | several instances around one collection | `internal/plugins/storage/firestore/rule_store.go` |
| `AdminControl` | admin API and startup loader over a store and the limiters | `internal/admin`, `internal/startup/rule_loader.go` |
| `KeyCache` | token validation, the key cache and the provider | `internal/auth/jwt/jwks.go`, `validator.go` |
| `Pipeline` | a request through the routes and the chain of either build | `internal/proxy`, `internal/plugins/{admin,apikey,ratelimit}`, `internal/auth/apikey`, `internal/ratelimit/matcher.go`, claim filters and mapping |
| `PipelineBuilds` | one request through both builds | `NewHandlerWithDeps`, `ServeHTTP` |
| `Configuration` | from file and environment to a configuration | `internal/config/config.go` |
| `Process` | from the flags to the exit of `main` | `cmd/flex`, `cmd/lite`, `NewHandlerWithDeps`, `internal/plugin`, the Firestore plugin |
| `...Proofs` | proofs about the module they are named after (eight of them) | |
| `MC...` | instances for TLC | |

Definitions keep the names of the code; a name with a suffix (`Drained_AtOnce`)
is a mutant, a form of the definition that a plausible mistake would give it,
and belongs to no specification.

How the modules fit together: `Process` extends `Configuration` and stands
around everything else. `Pipeline` takes the verdicts of the limiters, of the
rule store and of a token's validation as free choices; `RateLimiter`,
`DelaySlots`, `RuleStore` and `KeyCache` say which verdicts those are.
`AdminControl` composes the store and the limiters, each call on them being
one step; what a call does inside is in their own modules. With storage, rules
also arrive in that store from the first snapshot and the listener; where they
come from is in `FirestoreRules`.

### RateLimiter

State is the limiter's own: `enabled`, `requestsPerMin`, `entries` (a record
per key, or `NoEntry` for a key not in the map), `lastCleanup`; and `req`, one
record per goroutine: where it is in `Allow`, for which key, and its local
`now`. The clock is an integer that advances by `Tick`.

`Allow` is cut exactly where another goroutine can run: `Enter` (reads
`enabled`), `ReadLimit` (reads `requestsPerMin`), `ReadClock`, and the section
under the mutex, which is one step with three outcomes: `RejectBanned`, `Admit`
and `RejectOverLimit`. All three run the cleanup first, as the code does
(`Finish`, `CleanupLocked`), so a request for one key drops the idle records of
the others. Each setter is one step. A request that finds the limiter disabled
changes nothing and is no step. The unlocked reads are single machine words;
each returns a value the field holds at that moment.

`opened`, `counted` and `banEnd` are history variables: the window, the count
and the ban a limiter with unbounded memory would have on record. Only
properties read them.

`WindowLimiter` says what the mechanism is for: windows at least `Window`
apart, at most `limit` admissions counted in each, a ban for the first request
over the limit, nothing counted or admitted during a ban, and no map, no
cleanup, no mutex. `RateLimiter` implements it (`ImplementsWindowLimiter`),
the instants on which decisions are based being as stale as a goroutine may
stall.

`RateLimiterRolling` adds an observer: every admission is numbered and kept,
with its instant and the window it was counted in, until a window's length has
passed. It changes nothing in the limiter; the setters run beside it as before.

### DelaySlots

A channel is a number in order of creation with a capacity and a token count,
and lives on after it is replaced. A goroutine reads the channel (`ReadSem`),
tries to send (`Acquire` or `Refused`), reads the delay and sleeps (`StartSleep`,
`Wake`), answers, and runs the deferred `ReleaseDelaySlot`, which, like a Go
receive, is disabled while the channel is empty.

### RuleStore

A rule is a record with its action, the set of requests it matches, its cap,
expiry and counter. How host and path pattern match a request is abstracted to
that set. Holders of the read lock are visible in `call` and `resetting`; a
writer's section is one step guarded by `NoReaders`. `ShouldAllow` visits the
rules one at a time in any order: `Skip` passes one over, `Decide` settles the
verdict, `NoMatch` ends the loop. `SetRule` is two steps, since the expiry is
computed before the lock is taken. `passed` and `intended` are history.

`RuleTable` says what this is for: a table in which setting, removing, counting
and resetting each take effect at one instant and no rule is forgotten, and
questions that are settled at one instant by any rule that decides them as of
the time they were asked, or pass when there is none. No lock, no scan, no
cleanup. `RuleStore` implements it (`ImplementsRuleTable`): a rule of the table
is the one in the map or, once the cleanup dropped it, the one last set
(`Table`), and a scan in progress is a question not yet settled (`Asked`). The
cleanup then is a reset of counters that no longer count.

`ShouldAllow`, `deleteExpired` and the counter reset of the Firestore store are
line for line those of the in-memory store, and are modelled here.

### FirestoreRules

A rule is the number of the `SetRule` call that made it. `docs` is the
collection; `cache`, `seen` (the listener's last snapshot), `todo` (its changes
not yet applied), `listening` and `up` belong to an instance; `writes` holds
the goroutines' writes in flight, in no order. `RemoveAll` first lists the
documents and then deletes each one (`Sweep`). Firestore is external: it
applies a write at one point in time, and a listener is told how the documents
differ from its previous snapshot. A document may be spoilt from outside
(`Spoil`): one that does not decode is skipped, in the first snapshot (`Loaded`)
and in a later one (`Apply`), where the cache keeps what it has. A write that
fails is logged and forgotten; a listener that meets an error ends for good; a
process that ends (`Crash`) loses what has not left it, while requests already
on the wire may still land, even after a restart. An orderly exit is no
different: `Stop` closes the client and waits for no write.

### AdminControl

State is the rule store as a function of ids, the settings of each limiter, the
request each admin goroutine serves, the process (`phase`, `starts`) and the
startup load. A request that fails authentication, decoding or validation is
`Refuse` and leaves no trace; what `auth.go` checks of a token is one outcome,
`admitted`. A `set-rule` is `SetRule` on the store, and then,
for a throttle rule that names a limiter, `SetRequestsPerMin`,
`SetThrottleDelay`, `SetMaxDelaySlots` and `Enable`, each a step; any other rule
is `Unwired`. `Remove` is `remove-rule` and `remove-all`, which leave the
limiters alone. `Start`, `LoadRule` (one per persisted rule), `Serve` and `Exit`
are the process; `Exit` is possible at any time and loses store and settings.
`LoadRule` computes the whole seconds left from the time at which the load
began, as the code does, and the store adds them to the time of the call.
With storage (`Synced`) a start finds rules of the shared store, and `Listen`
sets or drops one at any time. Neither touches a limiter.

`asked`, `alone` and `told` are history: the limits that rules of this process
asked for, whether the last `set-rule` on a limiter overlapped with another, and
the ids whose rule is the shared store's.

### KeyCache

`ValidateToken` is cut where a goroutine waits or another can change the cache:
the checks on the token itself, the lookup (`get`), the discovery document, the
key set (`fetch`, `served`), the store into the cache and the verification. The
provider is external: it publishes at most one key per key id, replaces and
withdraws keys, answers, answers with an error, or not at all, in which case
the client's timeout ends the request. A token is the set of checks it fails in
itself, its times, its key id and the key it was signed with. `mapJWTError`
decides the status from the words of the error, as the code does; where the
error quotes a key id or a body, those words may be any. `gone` is history: when
a key was last published.

### Pipeline

A request moves through `stage`, one step per middleware and handler. The mux
comes first (`Route`): the admin API and the health path have handlers of their
own, outside the chain, and with a health target the latter sends the request on
as it came. The chain is put together as each build does it: the core
middleware, then that of the plugins in order of priority (`flex`) or the list
written by hand (`lite`), and at the end the handler that authenticates. Without
a token, `ProviderAuth` asks the API-key plugin in the one build and
`InlineAuth` is the handler's own check in the other. A path pattern is the set
of paths it matches; a pattern that does not compile matches none. Headers are a
function from names to values with "" for absence, so that a header the
sanitizer must remove, one that a claim is mapped to and one that carries the
API key can be the same one. `upstream` says where the request was sent, and
with which headers; `asked` and `refusing` say which limiters counted and
refused it. An admin, or the request itself, may enable a limiter at any time
(`Enable`, `AdminRoute`); `since` remembers those enabled when it arrived.

`PipelineBuilds` adds to this that a request which the flex build has answered
may be given to a lite build with the same configuration (`Replay`), where a
limiter asked before gives the same verdict, and keeps what the first decided.

### Configuration and Process

A configuration is a function on the names of the settings. A text is what it
says together with the placeholders left in it, a number is what `strconv`
makes of it, or `Malformed`. `Load` is the composition of the code's passes:
placeholders, the file, overrides, defaults, the project id from the environment
or the metadata server, validation.

`Process` has a program counter for `main`, from the flags to its return (the
URLs of the targets are parsed before the storage is opened, `ParseURLs`), the
server goroutine with its channel of one result, the signal channel, requests
in flight, the time left of the shutdown context, and the stores with how often
each was stopped. A host is everything a process finds: the plugins compiled in
(all of them in `cmd/flex`, none in `cmd/lite`), flags, file, environment,
metadata. A signal before `signal.Notify` kills the process.

## 3. Runs

| Run | Question | Bounds |
|---|---|---|
| `rl_promise` | does the mechanism keep the promise of `WindowLimiter`, are bans remembered and enforced, is memory reclaimed? | 2 goroutines, 2 keys, limits 0 and 1, windows of 2 instants, bans of 5, stalls of 1, clock to 7 |
| `rl_rolling` | how much can a client get through in any stretch of time? | 2 goroutines, 1 key, limits 1 and 2 that the admin changes meanwhile, windows of 3, stalls of 1, clock to 10 |
| `slots` | are slots given back to the right channel, and is every request answered? | 3 goroutines, 1 or 2 slots, 3 channels |
| `rules` | does the store keep the promise of `RuleTable`? Cap, live rules and the end of the loops, with readers, admins and `Stop` at once | 2 callers, 2 rules with a cap of 1, one admin, 2 requests counted between resets, clock to 2 |
| `rules_block` | does `block` drop everything it matches, as documented? It does not | 1 caller, 2 rules |
| `firestore` | does what Firestore holds reach the caches, through failures and restarts? | 2 instances, 1 id, 3 commands, 1 failure or spoilt document |
| `firestore_converge` | do all instances converge, as documented? They do not | 2 instances, 2 commands, no failure |
| `admin` | what can interleaved `set-rule`s, removals, restarts, the startup load and a shared store leave behind? | 2 admins, 2 ids, 2 limiters, 9 commands, 4 persisted rules and a shared one, 2 starts, clock to 4 |
| `keycache` | do retired keys lapse, are tokens refused in time, does every validation end? | 2 goroutines, 1 key id, 3 keys, 3 tokens, time to live 1, timeout 1, clock to 4 |
| `pipeline` | is what reaches the target let in by right and its identity proved, does a request slip between two limiters, do both builds decide alike? | 7 configurations in each of 2 builds, every kind of path, body, credential and header |
| `pipeline_identified` | is an identified request governed by the JWT limiter, as documented? Not if that one is disabled | the same, each build by itself |
| `process` | which layer decides a setting, draining, a clean exit, and that a signal ends the process | every kind of host, 2 requests |

Why these bounds are enough:

* `rl_promise`: two keys are needed for one request to clean up another's
  record, two goroutines for two sections in the wrong order of clock readings.
  A record is dropped after more than two windows of 2, so at instant 6 one
  created at 1 is dropped, and its key returns at 7. A ban of 5 outlives the
  idle time after which a record would be dropped, as in the default
  configuration (a ban of 5 minutes, windows of 1). Limits 0 and 1: the admin
  can lower the limit between the unlocked check and the section. The cleanup
  interval equals the window, as in the code. Stalls longer than half a window
  are left to the proofs about bans, which hold for any.
* `rl_rolling`: a limit of 2 lets a client spend a window in parts, the change
  to 1 and back comes between the parts, and clock 10 gives room for three
  windows with any alignment.
* `slots`: three channels let a slot be held on one replaced twice; three
  goroutines exceed both capacities.
* `rules`: durations of 1 with a clock to 2 let a rule expire before, while and
  after it is scanned; two callers share a counter with the reset, and the second
  of them is over the cap of 1.
* `firestore`: three commands allow set, removal and set again by either
  instance, with all writes in flight at once, and the one failure may be a
  lost write, a dead listener, a spoilt document or a crash. One id suffices: nothing relates two
  ids except `RemoveAll`, which treats each alike.
* `admin`: two of the commands set up the same limiter, one with and one
  without delay and slots, so that overlapping calls can mix; one limiter is
  off and one on in the configuration; requests are refused for each reason.
  The persisted rules have time left, too little of it, an action the store
  does not know or a cap of 0 (the loader validates neither), or are unusable.
  The shared rule is for the limiter that is off. A second is two instants, so
  that rounding to whole seconds shows.
* `keycache`: two goroutines miss at once and store their answers in either
  order while the key is replaced under its id; one token expires while its key
  is fetched; one key does not decode.
* `pipeline`: each variant of the base configuration switches off one reason to
  decide (a limiter, the match rules, a kind of credential, a list of paths, the
  health target), or lets the API-key header and the auth prefix collide.
  Requests do not meet in the pipeline but in the limiters, whose verdicts and
  switches are free, so one at a time is enough.
* `process`: two requests, one that ends and one that hangs; a shutdown timeout
  of 0, 1 or less; every combination of file, environment and known project,
  with a zero in either layer over a value in the other; targets that parse or
  do not; and builds with every plugin, none, or one missing.

Symmetry is used for goroutines, keys (`rl_*`) and admins (`admin`), in runs
without liveness only. Deadlock is checked except in `admin`, where the last
process has ended with the clock at its bound, and `process`, where every
process ends.

Each property has a mutant in `PROJECT.json`: a change of one definition, such
as a dropped guard or a swapped order, under which the same run finds the
property violated.

### Fairness

* `slots`: weak fairness of each goroutine once it has started on a request.
  The Go scheduler runs every goroutine that can run, and sleeps end. Nothing
  obliges a goroutine to take a request or an admin to call a setter.
* `rules`: weak fairness of a scan, of a reset in progress and of its end,
  for the same reason; strong fairness of the exit of a loop, because its
  `select` also serves a ticker that fires every 30 or 60 seconds: the stop
  channel stays ready and is chosen eventually.
* `firestore`: weak fairness of the writes together, of each listener's
  reception and of its applying. Firestore answers within the code's timeout of
  10 seconds or fails, a live stream delivers changes, and applying is local.
  Nothing is assumed about commands, failures, restarts or cleanup.
* `keycache`: weak fairness of each goroutine in `ValidateToken`. A request to
  the provider ends in an answer or in the client's timeout, so the provider
  itself owes nothing.
* `process`: weak fairness of `main`, of the server goroutine and of the
  shutdown timer. Requests need not end, clients and signals need not come.

### What disagrees with the documentation

* **`block` does not drop all.** `docs/RATE-LIMITING.md` line 255 says it does,
  and a comment in `store/rules.go` (line 107) says rules are evaluated in order.
  They are visited in map order and the first match decides, so an `allow` or
  `throttle` rule that matches too may win, differently from request to request
  (`rules_block`).
* **Instances do not always converge.** `docs/PLUGINS.md` line 232 says they do.
  A rule that is written and removed from Firestore between two snapshots of
  the instance that set it is never reported to that instance, whose cache
  keeps it until it expires (`firestore_converge`).
* **An identified request may be governed by nobody.** `docs/RATE-LIMITING.md`
  line 166 says that a request that skips the IP limiter is governed by the JWT
  limiter. `JwtRateLimit` marks it (line 180) whether or not its own limiter is
  enabled, from a `sub` that nobody has validated yet (`pipeline_identified`).
  Where both limiters are enabled it does not happen (`NoGapBetweenLimiters`).

Met while modelling, without a run of their own; the models do what the code
does:

* Rate limiting: the window is fixed, not sliding (`docs/RATE-LIMITING.md` line
  122), so up to twice the limit passes within a minute; `rl_rolling` shows it
  is never more. `SetMaxDelaySlots` makes a new, empty semaphore even when the
  number is unchanged, so sleepers on the old one come on top of the cap of
  line 128. Line 86 says that without match blocks the API-key limiter applies
  to all requests with its header; a matcher without rules matches nothing
  (`matcher.go` line 72). Line 255 (`allow` bypasses the per-IP limit)
  against `DynamicRuleCheck`, which passes an admitted request on to the
  limiters.
* Firestore: `RemoveAll` followed by `SetRule` on one instance may delete the
  new rule's document, against "last-writer-wins" (`docs/PLUGINS.md` line 232).
  A listener that meets an error returns, against a note on resynchronisation
  in `docs/steps/2026-04-05/step-05-storage-plugin-firestore.md` (line 200).
  An exit loses the writes in flight, against "admin rules survive process
  restarts" (`docs/CONFIGURATION.md` line 539).
* Rules and limiters: a throttle rule that comes from Firestore, at a start or
  through the listener, enables no limiter, against
  `docs/steps/2026-04-05/step-03-admin-plugin.md` line 105 (storage makes
  `PROXY_THROTTLE_RULES` unnecessary). This is why `LiveRuleEnforced` speaks of
  the rules a process set or loaded itself. A rule of that variable without a
  cap sets its limiter to 0, which limits nothing (`docs/ADMIN.md` line 329: the
  load "prevents a gap in throttling").
* Tokens: a key set that does not parse is answered with 401, not 502
  (`docs/API.md` line 62), and the error of an HTTP status quotes the provider's
  body, whose words decide between the two. Claims are checked before the
  signature.
* Configuration: a `max_body_bytes` of 0 becomes 1 MiB (`docs/CONFIGURATION.md`
  lines 95 and 100: no limit), and a zero in the environment gives way to the
  default, not to the file, as `Layered` says; `yes` and `no` are not booleans
  (`docs/ENVIRONMENT.md` line 337); the variable of `docs/ADMIN.md` line 87 is
  not read; `target_url` is not validated; placeholders in the admin's issuer
  and audience are not checked.
* Processes: `cmd/lite` ignores an enabled storage section, where
  `docs/CONFIGURATION.md` lines 28 and 558 promise an error, and does not load
  `PROXY_THROTTLE_RULES` (`docs/ADMIN.md` line 327). A process that cannot listen
  stays up until it is signalled, and then exits with status 0.
* Pipeline: requests to the health path reach the health target with the
  client's headers as they are (`README.md` lines 94 and 132); `IdentityProved`
  therefore speaks of `server.target_url` only.

## 4. Proofs

TLAPS proves the following for every set of keys, goroutines, rules, tokens,
configurations and so on, every limit, duration and bound, from the assumptions
named in the modules, which say what kind of value a constant is; `LayerTypes`
in `Process` says it of a host: what its file and its environment give a setting
has the type of the field it goes to, or is malformed. TLC evaluates them in
every run. Three theorems about the rate limiter assume in addition how long a
goroutine may stall between reading the clock and taking the mutex, which the
code does not bound: `ShortStalls` (half a window) and `ModestStalls` (two
windows).

`RateLimiterProofs`:

* `TypeCorrect`: `TypeOK`.
* `BansAreRemembered`: `BanRemembered`, and `BansAreEnforced`: `BanEnforced`,
  however long goroutines stall. Neither is inductive: that the record of a
  running ban survives a cleanup based on an older reading of the clock needs
  every reading a goroutine holds to be at most the clock, and that every
  record with a ban carries the end on record in `banEnd`. The strengthening is
  proved once (`BanInvariant`) and both theorems use it.
* `Implements`: `RateLimiter` refines `WindowLimiter`, if no goroutine stalls
  for more than half a window (`ShortStalls`). The invariant behind it
  (`WindowInvariant`) relates a record in the map to the history of its key, and
  says of a key without a record that its window is over for every reading of
  the clock still to be used. Half a window is what the proof uses: a cleanup
  with the newest reading may drop a record that a goroutine with the oldest
  reading then recreates, and the margin between the two windows of idleness and
  the one window of counting has to absorb both stalls.
* `IdleRecordsAreReclaimed`: `IdleEntriesReclaimed`, if no goroutine stalls for
  more than two windows (`ModestStalls`). The invariant (`ReclaimInv`) adds that
  the last cleanup is not ahead of the clock, whichever goroutine ran it, and
  that every reading in hand is recent (`Sampled`). With longer stalls it is
  false: a goroutine could store a record that was idle when the last cleanup
  ran.
* `RollingBoundHolds`: `RollingBound`, under `ShortStalls`. The inductive
  invariant (`RollingInv`, over `WindowInv`) places every remembered admission:
  it was counted in the window now on record or in an earlier one
  (`AdmissionsPlaced`), at most a window's length and a stall after that window
  opened; and no window holds more admissions than the highest limit
  (`WindowsKeepLimit`). Two windows of a key open at least a window's length
  apart, so a stretch shorter by a stall meets at most two of them
  (`TwoWindows`), and the cardinalities add up.

`DelaySlotsProofs`:

* `TypeCorrect`: `TypeOK`.
* `SlotsAreAccounted`: `SlotsAccounted`, by counting: a step moves one goroutine
  into or out of the set of holders of one channel, and its token with it.
* `ReleasesNeverBlock`: `ReleaseNeverBlocks`, since a goroutine about to release
  is itself among the holders, so the count is positive.
* `SemaphoreFits`: `SemaphoreMatchesSettings`, over any sequence of setters.

`RuleStoreProofs`:

* `TypeCorrect`: `TypeOK`, which includes that scans and resets visit only rules
  that are in the map, since writers wait for readers.
* `CapHolds`: `ThrottleCap`. The cap alone is not inductive; the strengthening
  says that what a rule let pass since its last reset is at most its counter and
  its cap, and nothing for an id with no rule.
* `LiveRulesKept`: `NoLiveRuleLost`. The strengthening (`SetRecorded`) says of
  every rule that was set and not removed, expired or not, that the map holds it
  as it was set or that the cleanup dropped it after its expiry. It needs that
  a rule about to be inserted has counted nothing (`PendingFresh`).
* `Implements`: `RuleStore` refines `RuleTable`, for any set of actions. Every
  step of the store is a step of the table or none: the verdict of a scan is the
  settling of its question, the insertion of a pending rule is the setting of a
  rule valid from some earlier instant, and the cleanup is a reset of the rules
  it drops. The hard case is a scan that found nothing: that no rule of the table
  decides its request follows from `ScanRecorded` (it has passed over none that
  does, which survives other scans and resets, since they change counters only,
  and writers, since they wait) and from `SetRecorded` (what the cleanup dropped
  had expired).

The other five modules each prove one inductive invariant (`Inv`, theorem
`Invariance`) and draw their theorems from it:

* `FirestoreRulesProofs`: `TypeCorrect`, `RulesReachCaches`
  (`StoredRulesReachCaches`), `FollowersAreMirrors` (`FollowersMirror`). The
  invariant says that a number in flight is in no document and no snapshot yet
  (`Fresh`, `Issued`), without which a late write could bring back a snapshot
  the instance takes for unchanged, and what an instance knows of an id whose
  changes it has applied (`Following`, `Reaching`).
* `KeyCacheProofs`: `TypeCorrect`, `KeysLapse` (`RetiredKeysLapse`),
  `ExpiryIsKept` (`AcceptedInTime`). The invariant is an account of time: for
  each place in `ValidateToken`, how long ago the token's times were checked
  (`Budget`) and how old the key in hand may be (`Age`); and for a cached key,
  that it was published at most a request before it was stored (`CacheInv`),
  whichever of several goroutines stored it.
* `PipelineProofs`: `TypeCorrect`, `IdentityIsProved` (`IdentityProved`),
  `TargetIsReachedByRight` (`TargetReachedByRight`), `NoGap`
  (`NoGapBetweenLimiters`). The invariant says for each handler what has
  happened to the request (`StageInv`): which headers are left, which refusal
  would already have ended it; and that a request behind the JWT limiter bears
  the mark only if that limiter, where it was enabled on arrival, counted it
  (`MarkInv`). The theorems are about `Pipeline`, each build by itself.
* `AdminControlProofs`: `TypeCorrect`, `NeverEnabledUnset` (`EnabledAsAsked`),
  `SetRuleAlone` (`AloneAsDocumented`), `RulesAreEnforced` (`LiveRuleEnforced`),
  `RestartKeepsExpiry` (`ReloadKeepsExpiry`), `ServesAfterLoad`
  (`LoadedBeforeServing`). The invariant adds to each what holds half-way
  through a `set-rule`: that the limit was asked for (`AskedInv`), what a
  goroutine by itself on a limiter has done and has yet to do (`Halfway`), that
  a stored rule which the listener has not changed is enforced or under way
  whether live or not (`EnforcedInv`), that only the load asks for a limit of 0
  (`CapInv`), and what the load has done so far (`LoadInv`).
* `ProcessProofs`: `TypeCorrect`, `LayersArePrecedent` (`Layered`),
  `RequestsAreDrained` (`RequestsDrained`), `ExitIsClean` (`CleanExit`). The
  invariant relates each place in `main` to the stores that exist and were
  stopped (`StoresFit`) and to the server and its requests (`RequestsFit`).
  `LayersArePrecedent` rests on it only for the configuration being one that
  `Load` gives (`ConfigFits`); the rest is about `Load` itself, pass by pass: a
  substitution changes no text but its placeholders (`SubstitutionSays`,
  `SubstitutionKeepsEmpty`), defaults fill exactly what is zero
  (`DefaultsApplied`), maps merge by key (`MapsMerged`), and together they give
  each setting its layer (`LoadLayers`).

Only model-checked: liveness (`EveryRequestAnswered`, `LoopsEnd`,
`FollowersConverge`, `ValidationEnds`, `SignalEnds`), which with `ENABLED` is
beyond the prover; and `BuildsAgree`, which compares two passes of one request.
Every other property of a passing run is a theorem.

## 5. What is not modelled

* Rule counters across the listener's echo in the Firestore store: an echo
  replaces the rule by one whose counter is zero. `FirestoreRules` has rules
  without counters; adding them multiplies its states past what TLC can do here.
* The key-value stores (`internal/store/keyvalue.go`, `firestore/kv_store.go`):
  no code calls the factory that makes them.
* `GetStatus`, `GET /admin/status` and `retryAfterSeconds`, which read a snapshot
  and change nothing; the request log, `internal/logging` and the text of
  responses.
* How patterns, hosts and claims match: they are the sets of what they match.
  The keys under which limiters count, and the rewriting of a path for the
  target, are data in the same sense.
* What `internal/admin/auth.go` checks of an admin's token, one by one: a request
  is admitted or not. An error of the rule store, which neither store returns
  for a rule that was validated.
* Placeholders in lists and numbers of the configuration file. What the metadata
  server answers is constant during a process.
* Cryptography, base64 and JSON (`jwkToPublicKey`, the JWT library): what they
  decide. The reverse proxy of the standard library, Firestore and the identity
  provider are external and do anything their interface allows.
* The panics of `Register` for a duplicate plugin, which the two programs cannot
  reach.

What could follow: counters in `FirestoreRules` with one instance and one rule,
and `RuleTable` as the promise of that store too, for an instance by itself.
