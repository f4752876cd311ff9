# A verification project for gateway-core

TLA+ models of the gateway from the start of the process to the log line of a
request, the TLC configurations that check them, and TLAPS proofs, for every value of
the constants, of all safety properties the runs check. Every module names the Go
files it models; `PROJECT.json` maps each definition to the lines it stands for, lists
the hazards the properties are aimed at, and records where the code disagrees with its
documentation.

Run a model with `tlc -config X.cfg M`, where the first part of `X` names the
component and `M` is `MC<component>` if that module exists, else the component
itself. Check the proofs with `tlapm M.tla`, where `M` is one of the modules of "What is
proved".

## The system and its parts

A request passes Recovery, RequestID, Deadline, SecurityHeaders, Logging, CORS,
BodyLimit, RateLimit, Auth and then the proxy, which asks the breaker stack of
its backend. Beside the request path run the configuration reloader, the rate
limiter's janitor, the certificate watcher and the readiness endpoint. The
agentic envelope is a separate library: agents propose changes, the pipeline and
the envelope decide about them.

| Part | State | Operations | Talks to | Hard because |
|---|---|---|---|---|
| failure-rate breaker | ring buffer, counters, state, time of opening, parameters | Allow, RecordSuccess, RecordFailure, Reset, SetFailureThreshold, UpdateConfig | everything above it | counters kept beside the data they count; parameters replaced while in use |
| breaker stack | bulkhead channel, EWMA latency | Allow, Record\*, Release, Reset, UpdateConfig | failure-rate breaker | one lock per layer, none for the stack |
| proxy | buffer pool, gauge, retry loop per request | ServeHTTP | breaker stack, ReverseProxy | many exits, each owing a Release; pooled buffers |
| reloader | current pointer, timers, observers | Start, Stop, Reload | gateway, limiter, breakers | Reload runs concurrently with itself; rollback |
| deadline, recovery | claim flag, two goroutines per request | ServeHTTP | every handler inside | two writers, one response |
| rate limiter | client map, limits | Middleware, UpdateConfig, janitor, Close | reloader | double-checked locking, lazy refresh, unlocked reads |
| readiness | cached verdict | readiness | breaker stack, backends | overlapping polls, one cache |
| agent pipeline | error budget, cooldown, flag | Run, Enable, Disable | planner, reviewers | concurrent runs share the budget |
| envelope | dampener state, registries | Submit, RecordApplied, Set\* | simulator, agents | check and act in two critical sections; integer width and Go types |
| configuration | none (a function of the file) | Load, applyDefaults, validate | everything is built from it | derived defaults, integer width, settings that fail only later |
| routing | the table of routes | MatchesPrefix, matchRoute, limitsForPath, routeLogLevel | proxy, limiter, logging | three scans in different orders must agree |
| lifecycle | phase of main, server goroutine, result | main, NewGateway, Run | every part with a Close or Stop | server error, signal and requests in flight meet in one select |
| certificate loader | the pair served, watcher, timer | New, Reload, Stop, watchLoop | TLS listener | two files read one after the other while they change |
| log writer | open file, its size, backups | Write, Close, rotate, cleanup | main's logger | file operations fail one by one; cleanups overlap |
| logging, CORS, body limit, auth | capture pool, recorders per request | ServeHTTP | deadline outside, proxy inside | shared buffers; a body read ahead of those who need it |
| admin, metrics, request IDs, security headers, API errors, test programs | none of their own | | | not modelled, see below |

## Modules

| Module | Models | What is abstracted |
|---|---|---|
| `SlidingWindowBreaker` | what a failure-rate breaker promises, on the sequence of outcomes | abstract specification |
| `FailureRateBreaker` | `circuitbreaker/failure_rate.go`; each method is one action, since each holds the mutex throughout | float ratio cross-multiplied by `Scale`; `openedAt` as elapsed time up to `MaxElapsed` |
| `CompositeBreaker` | `composite.go`, `bulkhead.go`, `timeout.go`, `adaptive.go`; instantiates `FailureRateBreaker`; `pc[c]` is where a caller stands between two locks | latencies are small integers |
| `Proxy` | `proxy/proxy.go`; instantiates `CompositeBreaker`; `rpc[r]` is the handler's position | a response is its status; ReverseProxy and the backend are external |
| `Reloader` | `config/reload.go`, `reload_unix.go`, `Gateway.OnReload` | a configuration is the number of the edit that wrote it; `Parts` are what the observers rewrite, in order, and `Rejected` says at which part of which edit one returns an error or panics, with the parts before it already rewritten |
| `Deadline` | `middleware/deadline.go`, `recovery.go` | a response is the order of its writers |
| `RequestPath` | `middleware/logging.go`, `cors.go`, `bodylimit.go`, `auth/auth.go` and the order `gateway.go` gives them; extends `Deadline`, whose handler actions it joins with the chain's | a request is a record of what the checks look at; bytes are numbered; whether a token verifies and the limiter admits is part of the request |
| `Routing` | `routing/match.go`, `Router.matchRoute`, `Limiter.limitsForPath`, `routeLogLevel` | operators; a path is a sequence of characters |
| `Config` | `config/config.go`; extends `Routing` | operators on a record with one field per setting; seconds, percents; `nan` names the floats that are NaN |
| `CertLoader` | `tlsutil/certloader.go`, the actions of one loader | a file is its generation, or halfway to the next |
| `Lifecycle` | `cmd/gateway/main.go`, `NewGateway` and `Run` of `gateway/gateway.go`; composes `Config`, `Routing` and `CertLoader` with the server, the janitor and the requests | net/http is external; requests are in flight or not |
| `RotatingWriter` | `logging/writer.go` | a backup is named by the tick of its rotation; a record is its number |
| `RateLimiter` | `ratelimit/ratelimit.go` | a bucket is its identity; times are ages |
| `Readiness` | `health/health.go` | a route is its backend; circuits change freely |
| `AgentPipeline` | `envelope/agent.go` | planner and reviewers answer anything; times are distances |
| `Envelope` | `envelope/envelope.go`, `constraints.go`, `bounds.go`, `dampener.go`, `shadow.go` | one target per kind; a value is its Go type and a number; floats in halves; int64 from `-MaxInt - 1` to `MaxInt`, unsigned up to `2 * MaxInt + 1` |
| `FailureRateBreakerProofs`, `CompositeBreakerProofs`, `ProxyProofs`, `RequestPathProofs`, `RotatingWriterProofs`, `LifecycleProofs` | theorems about the module of that name | |
| `EnvelopeProofs` | theorems about `Envelope` and `AgentPipeline` | |
| `BackgroundProofs` | theorems about `Reloader`, `RateLimiter` and `Readiness`, which work beside the requests | |

The initial predicate, next-state relation and specification of `RateLimiter`,
`Readiness` and `AgentPipeline` carry the component's name (`LimiterSpec`,
`ReadySpec`, `PipelineSpec`), since a module of proofs extends them together with
another component.

Each action is one critical section, one channel operation or one unlocked read
of the code; a method that holds its lock throughout is one action. Operators
keep the names of the Go functions. Variables that the code does not have
(`reply`, `answers`, `reported`, `lastOk`, `overlap`, `overlapped`, `missed`, `heard`, `idle`,
`evidence`, `sawDown`, `cachedSawDown`, `cachedCut`, `raced`, `acked`, `rotated`,
`neglected`, `sent`, `logged`, `upstream` and the envelope's `cooldown`) only record history for the
properties; no guard of an action reads them. Definitions whose comment begins
with "Fault:" are the form a plausible bug would take; the specification does
not use them, they show that a property can fail.

## What the runs check

The run's name is the component's. The type invariant of a module is a conjunct
of the first property of its run; the failure-rate breaker's, which is proved, has
a name of its own there.

| Run | Properties | Bounds and why they are enough |
|---|---|---|
| FailureRateBreaker | TypeOK, RingCoherent, ImplementsSlidingWindow, HealsWithTraffic | windows of 2 and 3, so that every slot wraps and a resize grows and shrinks; thresholds at, between and beyond the reachable ratios; half_open_max 1, 2 and 3, so that a reload steps over the count |
| CompositeBreaker | SlotAccounting, ImplementsFailureRate, ThresholdRelaxes | three callers on two slots: contention, refusal, a slot held across the inner breaker, and two outcomes reported at once, each between its record and its threshold update; three configurations, two that ask for the threshold of the base and one for half of it, so that a reload to another threshold and back is among the steps; latencies on both sides of the ceiling |
| Proxy | SlotsFollowRequests, OneTruthfulReply, RetriesJustified, ReportsMatchAnswers, EveryRequestReturns | two handlers that serve request after request on one slot, two buffers that wander between them; a route with one retry, one with a negative retry count and a fallback; the backend answers 200 or fails (502), with or without a 1xx first |
| Reloader | TornInOrder, SerialReloadsSettle, EndsAfterStop, CatchesUp | a timer goroutine and SIGHUP, overlapping or not; four edits, before and after the watch begins or without one, in place or by rename: the second is invalid, the first is rejected at the second of three parts and the third at the last, so that a torn gateway is torn again before the fourth can heal it |
| RequestPath | NoWriterOutlives, LogTruthful, UpstreamSees, EveryRequestReturns | two requests that share the pool of capture buffers and the process; one request for each refusal of the chain, bodies below, at and above both limits (1 byte logged, 2 allowed), with and without Content-Length; replies with an implicit status, with a 1xx before the final status, with a 1xx and the body directly after it, and empty; deadline and body logging on or off |
| AgentPipeline | OnlyEnableRevives, CooldownEnds | two concurrent runs, one reviewer, budget 2, no cooldown or one of 2 |
| RateLimiter | EvictsOnlyIdle, IdleIsEvicted, CloseReturns | one client with two entries, which come from the override of a route, from the global limits or from two configurations in turn, and a batch size of one, so that a pass has a first and a second batch; TTL 2 so that its half is distinguishable; a pass that takes time. Several requests that find no entry at once, and any batch size, are the theorems' |
| Readiness | AnswerIsRecent, VerdictTruthful, RecoveryShows | two overlapping polls of one backend, cache life 2, polls of up to 1, clients that leave |
| Envelope | AppliedIsSane, HysteresisHonest, RetrySuffices, CooldownSpacing | two agents; every kind with the Go types its conversion accepts and one it does not, in range and out of it, the unsigned numbers that wrap or pass 1<<62 among them; 4-bit integers (`MaxInt` = 7); two policies that replace each other; a change applied while a proposal is under way |
| RotatingWriter | SizeHonest, BackupsBounded, Retained | a file of two bytes and records of one and two, four records and so up to three rotations, within a tick or not; one backup kept, an age limit of one tick; two cleanups at once; two faults or restarts, so that one can happen inside the consequences of another |
| Lifecycle | CleanExit, AcceptedIsSound, RoutesResolve, StopsOnSignal, CertCatchesUp | every pair of settings at a boundary (below, at, above, NaN; the largest duration is 10^6 s so that the overflow of the TTL happens), the metrics paths mux.Handle refuses and a negative max_backups among them; every table of up to three routes over six prefixes and every path of up to four characters; a request in flight, two certificate loads at once, one renewal of the pair, written in place or renamed |

Every one of these properties has a fault that violates it under the same
configuration (`mutants` in PROJECT.json).

One more run, `Deadline_panic`, states a sentence of the repository that the code
does not keep: Recovery does not see the goroutine the handler runs in. `findings`
in PROJECT.json quotes it.

### What the conditions in the properties mark

Where the code does not keep a promise in every circumstance, the property says
in which it does, and the model has the others too:

- Reloader: two overlapping reloads interleave inside OnReload and may leave the
  parts with a mixture of configurations although both return true, against
  "a later successful reload will always bring subsystems in line"
  (gateway.go:265-268; `InLineAfterSuccess` alone, as an invariant, shows it). They may
  also restore a pointer to a configuration that was rejected (reload.go:182), and an
  older file may be swapped in after a newer one (reload.go:157-166). `overlap` is "now"
  until the next reload begins while none is running: `SerialReloadsSettle` and
  `CatchesUp` except that time only, so that a success of a reload that ran alone is
  shown to heal what an overlap has left. An observer that returns an error or panics
  halfway (invokeObserver recovers it, reload.go:203-209) leaves parts with a
  configuration that is rolled back; `TornInOrder` says how far that goes. `CatchesUp`
  also excepts a change the watcher could not see: one made before Start, or after
  the file was replaced by rename (reload.go:121), until the next load. When Start
  cannot have its watch it registers no SIGHUP handler either (reload.go:115-127), and
  no change is ever loaded (`StartFails`).
- Breaker stack: UpdateConfig does not reach `AdaptiveBreaker.baseThreshold`, so the
  next outcome undoes a reloaded threshold (composite.go:129, adaptive.go:78), against
  the same sentence. `ThresholdRelaxes` therefore speaks only of a configuration in
  force that asks for the threshold the stack was built with, whatever was in force
  before; it says nothing of a reload to another threshold, which does not last.
  An update computed before such a reload may also overwrite it.
- Configuration: `AcceptedIsSound` names two settings that validate accepts and a part
  panics on. A metrics path that is no pattern of ServeMux, or conflicts with one of
  health or admin, makes mux.Handle panic at start-up (`BuildPanics`). A negative
  max_backups with a log file makes the cleanup after the first rotation index an empty
  slice (writer.go:154-155), in a goroutine nobody recovers (`CleanupPanics`). NaN passes
  the comparisons of config.go:320-371, as a rate or as a threshold; what x/time/rate
  does with it is external, and a breaker compares a ratio with it in vain. The TTL
  clause looks at the global limits; the override of a route with a slower refill is not
  considered by the default (config.go:265-276), and idle_ttl and cleanup_interval are
  not reloaded. Negative max_age_days, timeouts and overrides are not validated and
  not looked at.
- Routing: when the longest route has no override, limitsForPath keeps the one of a
  shorter route if that comes earlier in the file, and ignores it if it comes later
  (ratelimit.go:206-218). `RoutesResolve` therefore promises the longest route's
  override when there is one, and else only an override of a matching route.
- Lifecycle: a signal before NotifyContext kills the process; os.Exit(1) skips the
  deferred Close of the log. `CertCatchesUp` excepts overlapping loads, which may
  install the older pair last, and changes by rename or between New's load and its
  watches.
- RequestPath: `LogTruthful` excepts requests the deadline answered, whose line shows
  the status the handler tried to send. A buffered response that began with a 1xx is
  replayed as that 1xx and the body (proxy.go:443-444): the line has the 1xx
  (logging.go:43-45) and the client an implicit 200, and the property says so.
- RotatingWriter: `Retained` excepts backups of one second, which rename over each
  other (writer.go:109). A file that could not be reopened stays closed, and records
  that fit the stale size are refused with an error until one does not fit.
- Proxy: `OneTruthfulReply` and `ReportsMatchAnswers` except answers that a 1xx
  preceded. `responseBuffer.WriteHeader` (proxy.go:419) keeps the first status, so
  the replay sends the 1xx and an implicit 200, and the breaker is told a success.
  `Unwind` takes the gauge down and releases the slot in one step, where the code
  has two deferred calls in a row (proxy.go:211, 216): nothing tells them apart.
  The request's body is not rewound between attempts (proxy.go:274); bodies are
  not part of this module.
- Readiness: `VerdictTruthful` allows a 503 of a poll whose client went away, because
  the dials use its context (health.go:117).
- Envelope: `CooldownSpacing` excepts a change applied between a proposal's verdict
  and its own application; `AppliedIsSane` lets a NaN weight pass, which neither
  comparison of constraints.go:223 refuses, against constraints.go:151; `HysteresisHonest` is checked behind the
  baseline constraints, without which the int64 difference may overflow
  (dampener.go:238). A simulator that returns a verdict after its timeout is
  believed (shadow.go:389): `Simulate` may do so. A float64 of 2^63 and beyond is taken
  to fail the conversion to int64 and back, as it does on amd64; Go leaves the result
  to the processor. Nothing in src/ but tests calls RecordApplied: what is applied, of the
  proposals that reach the fallback stage (envelope.go:170-175) or pass the last stage,
  is the caller's business, and the model lets the caller apply any of them.
- Deadline: nothing keeps the handler from writing after, or between the claim and
  the writing of, the 504 (deadline.go:68-76 stores the flag without looking at
  it). `wire` shows both writers.
- Breaker: only RecordFailure evaluates the ratio, so a success that fills the
  window, or a lowered threshold, leaves the circuit closed over it, and
  `SlidingWindowBreaker` says so; a half-open circuit admits every caller
  (`half_open_max` counts successes).
- AgentPipeline: a run with a dead context is charged to the budget even while the
  pipeline is disabled, and a planner's error is dated back to the beginning of its
  run, which shortens the cooldown; `CooldownEnds` therefore excepts callers that
  keep coming with dead contexts.
- RateLimiter: a refresh may touch an entry that has just left the map
  (ratelimit.go:241-247), and limitsForPath may combine the limits of two
  configurations; both are steps of the model without a property. Close looks at
  stopCh and closes it in two operations (ratelimit.go:110-115), which two callers at
  once could both reach; the code has one caller, the deferred call of Run
  (gateway.go:296), and so `Close` is one step.

CHECK_DEADLOCK is off where the system really may stop: RequestPath and Deadline (all
requests may have returned), Reloader (edits are bounded and Stop is final),
RotatingWriter (writes and faults are bounded), Lifecycle (the process exits).
Symmetry is used only in runs without liveness properties: over the agents of the
Envelope and the cleanups of RotatingWriter, which no constant or property tells
apart.

## Fairness

- FailureRateBreaker: time passes and requests keep arriving and succeeding. It is
  the hypothesis of "heals with traffic", not a promise of the code.
- CompositeBreaker: a caller finishes what it has begun (goroutines are
  scheduled) and takes free slots and reports outcomes over and over.
- Proxy: a handler that can take a step does; each attempt has a context with a
  timeout, so the backend's answer or the 502 comes.
- Reloader: watcher, timers and running reloads make progress. Nothing is
  assumed about edits, signals or Stop, nor about a signal that arrives with Stop.
- RequestPath: both goroutines are scheduled and the router answers or panics.
  Nothing is assumed about the expiry of the deadline.
- Lifecycle: main and the goroutines run, timers expire, the server binds or fails,
  and returns once Shutdown has begun. Nobody is obliged to send a signal, to
  change a file or to finish a request, and a serving listener need not fail: that a
  signal ends the process rests on the shutdown timeout alone.
- RateLimiter: strong fairness for the janitor's steps that wait for the RWMutex
  (Go's does not starve) and for the two cases of its select (chosen at random);
  time passes and a reload that holds the lock finishes. Nothing is assumed about
  requests.
- Readiness: probes end (they have a timeout of 2 s) and monitors keep polling.
- AgentPipeline: time passes, planner and reviewers return.

## What is proved

Each proof module extends the modules it is about. Its theorems hold for every value
of the constants that satisfies the assumptions below, not for the small instances
of the runs. Almost no property is inductive as it stands; each module has an
inductive invariant that says what the actors under way have behind them and still
owe, a lemma that Init establishes it, one lemma or step per action that it is
preserved, and then the properties as consequences.

| Module | Theorems | Inductive invariant, and why it is needed |
|---|---|---|
| `FailureRateBreakerProofs` | `BreakerTypeOK`, `BreakerRingCoherent`, `RingImplementsWindow` (ImplementsSlidingWindow) | `Inv` = TypeOK and RingCoherent. The count of failures stays a number on eviction only because the evicted slot was counted, and is preserved only because head and count index the window |
| `CompositeBreakerProofs` | `StackSlotAccounting`, `StackImplementsBreaker` (ImplementsFailureRate), `StackImplementsWindow` | `StackInv` beside the breaker's `Inv`: the channel's length is the number of callers inside, which are finitely many even if the callers are not |
| `ProxyProofs` | `ProxySlotsFollowRequests`, `ProxyOneTruthfulReply`, `ProxyRetriesJustified`, `ProxyReportsMatchAnswers`, `ProxyUsesStack`, `ProxyDecidesOnWindow` | `ProxyInv`: for every request, where the handler stands, where it stands in the stack, what its attempts were answered and what its buffer holds; no two requests hold the same buffer; slots and gauge are counts over all requests |
| `BackgroundProofs`: reload | `ReloadTornInOrder`, `ReloadsSettle` (SerialReloadsSettle) | `Carried`: what a Reload carries was loaded from the file and the parts it has passed accept it. `Alone`: the only running Reload has brought the parts behind it in line. `Serial`: while reloads never overlapped, what a rollback returns to, and that what is brought is newer than what the parts have |
| `BackgroundProofs`: limiter | `LimiterEvictsOnlyIdle`, `LimiterPassIsComplete` (a conjunct of IdleIsEvicted), `LimiterKeysForm` | `PassCovers`: what is idle while a pass deletes is still on its list. `LimiterInv`: `LagsBehindUse`, lastSeen is behind the last use of a bucket by half the TTL at most; `ConfigsForm` and `KeysForm`, what a request has gathered of its key while a reload rewrites the limits, without which it might ask the map for a key it has no place for |
| `BackgroundProofs`: readiness | `ReadinessAnswerIsRecent`, `ReadinessVerdictTruthful` | `ReadyInv`: `EvidenceAges`, until it expires a stored answer rests on probes no older than a poll when it was stored; `ProbesTruthful`, what a poll has in its results and what it met agree after every probe, not only when it stores |
| `RequestPathProofs` | `DeadlineNoWriterOutlives`, `ChainImplementsDeadline`, `ChainNoWriterOutlives`, `ChainUpstreamSees`, `ChainLogTruthful` | `DeadlineInv`: where the two goroutines can be relative to each other; who has claimed the response has written or will. `ChainInv`: what each handler carries from one layer to the next, its capture buffers included |
| `EnvelopeProofs`: pipeline | `PipelineOnlyEnableRevives` | the type invariant, in which the time of the cooldown is endless only where there is none, is inductive |
| `EnvelopeProofs`: envelope | `EnvelopeAppliedIsSane`, `EnvelopeRetrySuffices`, `EnvelopeCooldownSpacing`, `EnvelopeHysteresisHonest` | `EnvelopeInv`: what the dampener remembers was vetted, and so was a proposal past the constraints; an agent past the dampener that nobody has overtaken finds the last change old enough |
| `RotatingWriterProofs` | `WriterSizeHonest`, `WriterBackupsBounded`, `WriterRetained` | `WriterInv`: what is known inside a rotation. `Bounding`: backups that are too many are on the list of the cleanup that listed last. `KeptInv`: what is on a list has MaxBackups later names or is too old, which stays true because names grow with the rotations |
| `LifecycleProofs` | `LifecycleInvariant` (MainInv), `LifecycleCleanExit`, `LifecycleAcceptedIsSound`, `LifecycleRoutesResolve` | `MainInv`: what lies behind each phase of main, where configuration and table come from, and that a loader past New has a whole certificate (`LoaderInv`) |

A theorem without a property in parentheses states the one whose name it ends in,
as far as there is one.

The arguments that carry weight:

- *Ring and window.* `RingStep` and the lemmas on `FailedSlots` say how the number of
  failed slots changes when one is overwritten. `Recent`, the refinement mapping, reads
  the ring from the oldest slot; the proof shows that a record appends to it, that an
  eviction drops its first element, and that the running count is the number of
  failures in it (`Counted`), so that both breakers open on the same outcome.
- *Refinement, and inheritance through it.* The proxy's steps are steps of the stack
  (`ProxyUsesStack`), the stack's are the breaker's (`StackImplementsBreaker`), the
  breaker's are the sliding window's (`RingImplementsWindow`). `StackImplementsWindow`
  composes the last two and `ProxyDecidesOnWindow` all three, so that what decides under
  the retry loop is the window of the outcomes it reported. The chain's steps are the deadline's, which is how
  `ChainNoWriterOutlives` is obtained.
- *Loops.* limitsForPath and routeLogLevel are recursive functions over the table. What
  they compute for a table of any length is proved by a least counterexample: the
  first turn at which the running best is not the longest match so far contradicts
  the lemma about one turn (`LimitTurn`, `LevelTurn`). `FirstIsLongest` shows
  that the first match in the router's sorted table is that route, and `ScansAgree` puts the three together. The
  flattening of the rotated files in `WriterRetained` is treated alike.
- *Counting.* That Insert finds a free bucket (`SomeFree`) is a count: the values of the map
  and the buckets that requests hold, without those of the request that inserts and of its key,
  are fewer than the buckets (`ImageBound`). Slots and gauge of the proxy and the channel of
  the bulkhead are counts as well.
- *Lazy refresh.* A bucket handed out without a refresh has a lastSeen of at most half the
  TTL (`HandOut`); both ages then grow alike, and so a bucket whose lastSeen has passed
  the whole TTL, at whatever now the janitor holds, was not used for the other half (`ExpiredIsIdle`).
- *Arithmetic.* `TTLCoversRefill` is the claim of config.go:265-276 with Go's truncating
  division, for any rate, burst and largest duration. `EnvelopeHysteresisHonest` shows
  that two values that pass the constraints are both non-negative and so their
  difference does not wrap, at any width.

The assumptions are stated in the component modules and TLC evaluates them in the
runs:

- `ConfigAssumption`, `ScaleAssumption`, `LayerAssumption`, `BreakerAssumption`: the
  positive sizes, probe counts and latencies that Config.validate and NewComposite
  guarantee.
- `ProxyAssumption`: finitely many requests at a time, as many buffers as requests
  (sync.Pool makes new ones), and final statuses from 200 to 999, as net/http demands.
- `StackAssumption`: the two before for the stack under the proxy.
- `LimiterAssumption`, `BucketAssumption`: a TTL and a batch size above 0, and as many
  buckets as the map and the requests can refer to (rate.NewLimiter always finds memory).
- `ReadinessAssumption`, `PipelineAssumption`: a TTL above 0 and a bounded poll; a budget
  above 0, and runs whose age is counted as far as the longest cooldown.
- `ReloaderAssumption`: a finite number of parts, one at least, and an initial
  configuration (edit 0) that is valid and accepted, without which the process would not
  have started. Any later edit may be rejected at any part.
- `DeadlineAssumption` and `ChainAssumption`: a bound on writes, and requests and replies
  of the shape the chain looks at (`WellFormed`: informational statuses, a final one if
  any, the body; what replayTo makes of a 1xx is one of them).
- `WriterAssumption`: positive sizes, `MaxBackups` above 0 and `MaxAge` not below. Config
  guarantees the first; of the others it defaults 0 only, and a file with negative ones is
  accepted. A negative max_backups ends the process, which is in Lifecycle and not here; a
  negative max_age_days puts the cutoff into the future, and every backup is removed.
- `EnvelopeAssumption`: the Go types of the values, each with its range, cooldowns
  that the counter of ages can tell apart.
- `LoaderAssumption`, `LifecycleAssumption` and Config's `ConfigAssumption`: what
  yaml.Unmarshal can fill in (`ParsedConfig`, with NaN but without infinities), paths are strings, the load of New is
  not one of a timer.

Three theorems about the envelope have `Constraints = TRUE` as a hypothesis: they speak of
an envelope with the baseline constraints of `DefaultConstraints`, as the runs do.
Without these, values of any type pass and the difference may overflow.

Only model-checked are the liveness properties, since the prover handles neither
fairness nor ENABLED: HealsWithTraffic, ThresholdRelaxes, EveryRequestReturns,
EndsAfterStop, CatchesUp, CooldownEnds, IdleIsEvicted (but for PassIsComplete), CloseReturns, RecoveryShows,
StopsOnSignal, CertCatchesUp. The disagreement that `Deadline_panic` shows is a trace of TLC's.

## Plan

Done: every component that keeps state has a module and a run; every safety property of
the runs is proved for all values of the constants, with the refinements between the
breaker, the stack and the proxy and between the deadline and the chain.

Worth adding when the code changes:

1. A limiter whose limits are read under the lock: then the two limits of `KeysForm` can be
   asked to come from one configuration.
2. Reloads that exclude each other: then `SerialReloadsSettle` loses its conditions, and the
   gateway could be shown to implement a specification with one current configuration.

## Not modelled

- Admin endpoints: read-only JSON views behind an address allow-list. Metrics:
  registration and counters of the Prometheus library; the one gauge that must
  balance, ActiveConnections, is a variable of Proxy. Request IDs, security headers
  and API errors: headers and formatting. The echo server and the token generator.
- The choice between the mux and the chain (gateway.go:196-218): it compares plain
  prefixes, so a route such as `/healthcare` is accepted and never reached. A model
  would repeat the comparison.
- Redaction of logged bodies, the filter on the type of a logged response, header
  rewriting, YAML and environment expansion, JWT verification, the token arithmetic
  of `x/time/rate`, transports and connection pools.
- What a notification looks like on each platform: a rename is modelled as on inotify,
  where the watch stays with the old file.
- Torn reads of the routes slice in `limitsForPath` (ratelimit.go:202-223 reads
  without the lock): listed as a hazard; the three reads are separate steps, a single
  torn one is not shown.
