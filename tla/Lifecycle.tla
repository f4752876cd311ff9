------------------------------ MODULE Lifecycle -----------------------------
(***************************************************************************)
(* cmd/gateway/main.go with config.Load, gateway.NewGateway and            *)
(* Gateway.Run: from the configuration file to the exit of the process.    *)
(*                                                                         *)
(* The actors are main, the goroutine that runs the HTTP server, the       *)
(* handlers of requests, the rate limiter's janitor, the certificate       *)
(* loader with its goroutines (CertLoader), whoever changes the            *)
(* certificate files, and whoever sends SIGTERM.  net/http is external:    *)
(* Shutdown closes the listeners, waits for Serve to return and then for   *)
(* the connections, or for its context.                                    *)
(*                                                                         *)
(* The configuration is kept until NewGateway has built the parts from it; *)
(* Run uses of it only whether there is TLS, and a shutdown timeout whose  *)
(* length does not matter here.                                            *)
(***************************************************************************)
EXTENDS Config, CertLoader

CONSTANTS
    RawConfigs,     \* the parsed files the program may be started with
    Paths,          \* paths of requests
    Requests        \* requests that may be in flight

ASSUME LifecycleAssumption == RawConfigs \subseteq ParsedConfig /\ Paths \subseteq Seq(STRING)

VARIABLES
    phase,          \* where main is; an exit is in Exits
    raw,            \* the parsed file, {} when it is no longer needed
    cfg,            \* the configuration of Load, {} likewise
    table,          \* the router's sorted routes, {} likewise
    tls,            \* cfg.Server.TLS.Enabled
    log,            \* "std", "file", "closed", or "doomed": a file that its cleanup will panic over
    signalled,      \* ctx is cancelled
    spc,            \* the server's goroutine: "none", "listen", "serving", "closed"
    serverErr,      \* an error waits in the channel, which is closed when spc is
    shutting,       \* Server.Shutdown has begun
    inflight,       \* requests being handled
    janitor,        \* the limiter's janitor: "none", "running", "done"
    reloader,       \* "none", "running", "stopped"
    result          \* what Run returns: "none", "nil", "fatal", "forced"

serverVars == <<spc, serverErr, shutting, inflight>>
partVars   == <<janitor, reloader>>
inputVars  == <<raw, cfg, table, tls>>
vars       == <<phase, inputVars, log, signalled, serverVars, partVars, result, loaderVars>>

Exits     == {"exit0", "exit1", "panic", "killed"}
Deferred  == {"stopCerts", "closeLimiter", "joinJanitor", "stopReloader", "return"}
Running   == {"select", "shutdown"} \cup Deferred
Phases    == {"load", "loaded", "build", "built", "tls", "run"} \cup Running \cup Exits

Init ==
    /\ phase = "load"
    /\ \E r \in RawConfigs : raw = {r}
    /\ cfg = {} /\ table = {} /\ tls = FALSE
    /\ log = "std" /\ signalled = FALSE
    /\ spc = "none" /\ serverErr = FALSE /\ shutting = FALSE /\ inflight = {}
    /\ janitor = "none" /\ reloader = "none" /\ result = "none"
    /\ LoaderInit

-----------------------------------------------------------------------------
\* config.Load: the file cannot be read or is not YAML.
ConfigUnreadable ==
    /\ phase = "load"
    /\ phase' = "exit1" /\ raw' = {}
    /\ UNCHANGED <<cfg, table, tls, log, signalled, serverVars, partVars, result, loaderVars>>

\* config.Load: the defaults are applied, then the result is validated.
LoadConfig ==
    /\ phase = "load"
    /\ \E r \in raw : \E c \in applyDefaults(r) :
        IF validate(c) THEN phase' = "loaded" /\ cfg' = {c} /\ UNCHANGED raw
                       ELSE phase' = "exit1" /\ raw' = {} /\ UNCHANGED cfg
    /\ UNCHANGED <<table, tls, log, signalled, serverVars, partVars, result, loaderVars>>

\* The log goes to a file and less than no backup is to be kept: cleanup takes the first of
\* the rotated files while there are more than that, until it indexes an empty slice.
BadBackups(c) == c.output \notin {"stdout", "stderr"} /\ c.maxBackups < 0

\* buildLogWriter falls back to stdout; from here signals cancel ctx.
OpenLog ==
    /\ phase = "loaded"
    /\ phase' = "build" /\ raw' = {}
    /\ \E c \in cfg : log' \in IF c.output \in {"stdout", "stderr"} THEN {"std"}
                                ELSE {"std", IF BadBackups(c) THEN "doomed" ELSE "file"}
    /\ UNCHANGED <<cfg, table, tls, signalled, serverVars, partVars, result, loaderVars>>

\* The first rotation, at any time from here on: cleanup panics in a goroutine of its own.
CleanupPanics ==
    /\ log = "doomed"
    /\ phase' = "panic" /\ cfg' = {} /\ table' = {}
    /\ UNCHANGED <<raw, tls, log, signalled, serverVars, partVars, result, loaderVars>>

-----------------------------------------------------------------------------
\* The patterns of health and of admin.
HealthRoutes == {"/health", "/ready"}
AdminRoutes  == {"/admin/routes", "/admin/config", "/admin/limiters"}

\* mux.Handle panics: the metrics path is no pattern, or it conflicts with one of health or,
\* when they are registered, of admin.
BadMetricsPattern(c) ==
    c.metrics /\ \/ c.metricsPath \in {"malformed", "overlaps"} \cup HealthRoutes
                 \/ c.admin /\ c.metricsPath \in {"overlaps_admin"} \cup AdminRoutes

\* NewGateway panics there, or in NewComposite, which makes the breaker's window.
NewPanics(c) == c.window < 0 \/ BadMetricsPattern(c)

BuildPanics ==
    /\ phase = "build" /\ \E c \in cfg : NewPanics(c)
    /\ phase' = "panic" /\ cfg' = {}
    /\ UNCHANGED <<raw, table, tls, log, signalled, serverVars, partVars, result, loaderVars>>

\* What sort.Slice may return.
Orders(routes) == {s \in SetToSeqs(ToSet(routes)) : Sorted(s)}

\* NewGateway up to TLS: ratelimit.New starts the janitor.
Build ==
    /\ phase = "build" /\ \E c \in cfg : ~NewPanics(c) /\ \E s \in Orders(c.routes) : table' = {s}
    /\ phase' = "built" /\ janitor' = "running"
    /\ UNCHANGED <<raw, cfg, tls, log, signalled, serverVars, reloader, result, loaderVars>>

\* NewGateway: without TLS it is done.
BuiltPlain ==
    /\ phase = "built" /\ \E c \in cfg : ~c.tls
    /\ phase' = "run" /\ cfg' = {} /\ table' = {}
    /\ UNCHANGED <<raw, tls, log, signalled, serverVars, partVars, result, loaderVars>>

\* NewGateway: tlsutil.New loads the certificate.
LoadTLS ==
    /\ phase = "built" /\ \E c \in cfg : c.tls
    /\ phase' = "tls" /\ cfg' = {} /\ table' = {} /\ tls' = TRUE
    /\ BeginLoad("new")
    /\ UNCHANGED <<raw, log, signalled, serverVars, partVars, result, file, watched, event,
                   timer, stopped, watching, served, read, newFailed, heard>>

\* tlsutil.New has returned; its error ends the process.
TLSLoaded ==
    /\ phase = "tls" /\ lpc["new"] = "idle"
    /\ phase' = IF newFailed THEN "exit1" ELSE "run"
    /\ UNCHANGED <<inputVars, log, signalled, serverVars, partVars, result, loaderVars>>

-----------------------------------------------------------------------------
\* Run: Reloader.Start, which only logs its failure, and the server's goroutine.
StartRun ==
    /\ phase = "run"
    /\ phase' = "select" /\ reloader' = "running" /\ spc' = "listen"
    /\ UNCHANGED <<inputVars, log, signalled, serverErr, shutting, inflight, janitor, result, loaderVars>>

\* ListenAndServe: the listener is bound.
Bound ==
    /\ spc = "listen" /\ ~shutting
    /\ spc' = "serving"
    /\ UNCHANGED <<phase, inputVars, log, signalled, serverErr, shutting, inflight, partVars, result, loaderVars>>

\* Fault: the channel is closed without the error.
ServeFailsSilently ==
    /\ spc \in {"listen", "serving"} /\ ~shutting
    /\ spc' = "closed"
    /\ UNCHANGED <<phase, inputVars, log, signalled, serverErr, shutting, inflight, partVars, result, loaderVars>>

\* ListenAndServe returns an error: the address is taken, or Accept fails for good.
ServeFails ==
    /\ spc \in {"listen", "serving"} /\ ~shutting
    /\ spc' = "closed" /\ serverErr' = TRUE
    /\ UNCHANGED <<phase, inputVars, log, signalled, shutting, inflight, partVars, result, loaderVars>>

\* It returns ErrServerClosed once Shutdown has begun, before or after the listener.
ServeCloses ==
    /\ spc \in {"listen", "serving"} /\ shutting
    /\ spc' = "closed"
    /\ UNCHANGED <<phase, inputVars, log, signalled, serverErr, shutting, inflight, partVars, result, loaderVars>>

\* A connection is accepted, until Serve has returned.
Arrive(q) ==
    /\ spc = "serving" /\ q \notin inflight
    /\ inflight' = inflight \cup {q}
    /\ UNCHANGED <<phase, inputVars, log, signalled, spc, serverErr, shutting, partVars, result, loaderVars>>

Finish(q) ==
    /\ q \in inflight
    /\ inflight' = inflight \ {q}
    /\ UNCHANGED <<phase, inputVars, log, signalled, spc, serverErr, shutting, partVars, result, loaderVars>>

\* SIGINT or SIGTERM: before NotifyContext it kills the process.
Signal ==
    /\ ~signalled
    /\ IF phase \in {"load", "loaded"}
       THEN phase' = "killed" /\ raw' = {} /\ cfg' = {} /\ UNCHANGED <<signalled, table, tls>>
       ELSE signalled' = TRUE /\ UNCHANGED <<phase, inputVars>>
    /\ UNCHANGED <<log, serverVars, partVars, result, loaderVars>>

-----------------------------------------------------------------------------
\* Run's select: the server's error (nil when the channel is closed and empty).
SelectError ==
    /\ phase = "select" /\ (serverErr \/ spc = "closed")
    /\ result' = IF serverErr THEN "fatal" ELSE "nil"
    /\ serverErr' = FALSE
    /\ phase' = "stopCerts"
    /\ UNCHANGED <<inputVars, log, signalled, spc, shutting, inflight, partVars, loaderVars>>

\* Run's select: ctx is done, and Server.Shutdown begins.
SelectDone ==
    /\ phase = "select" /\ signalled
    /\ shutting' = TRUE /\ phase' = "shutdown"
    /\ UNCHANGED <<inputVars, log, signalled, spc, serverErr, inflight, partVars, result, loaderVars>>

\* Shutdown has waited for Serve and for the requests.
Drained ==
    /\ phase = "shutdown" /\ spc # "serving" /\ inflight = {}
    /\ result' = "nil" /\ phase' = "stopCerts"
    /\ UNCHANGED <<inputVars, log, signalled, serverVars, partVars, loaderVars>>

\* Fault: no deadline for the requests.
NeverTimesOut ==
    /\ FALSE
    /\ UNCHANGED vars

\* The shutdown timeout is over and requests are still in flight.
DrainTimesOut ==
    /\ phase = "shutdown" /\ spc # "serving" /\ inflight # {}
    /\ result' = "forced" /\ phase' = "stopCerts"
    /\ UNCHANGED <<inputVars, log, signalled, serverVars, partVars, loaderVars>>

\* The deferred calls, last one first: certLoader.Stop,
StopCerts ==
    /\ phase = "stopCerts"
    /\ phase' = "closeLimiter"
    /\ IF tls THEN LoaderStop ELSE UNCHANGED loaderVars
    /\ UNCHANGED <<inputVars, log, signalled, serverVars, partVars, result>>

\* Limiter.Close, which closes stopCh
CloseLimiter ==
    /\ phase = "closeLimiter"
    /\ phase' = "joinJanitor"
    /\ UNCHANGED <<inputVars, log, signalled, serverVars, partVars, result, loaderVars>>

JanitorReturns ==
    /\ phase = "joinJanitor" /\ janitor = "running"
    /\ janitor' = "done"
    /\ UNCHANGED <<phase, inputVars, log, signalled, serverVars, reloader, result, loaderVars>>

\* and waits for the janitor,
JoinJanitor ==
    /\ phase = "joinJanitor" /\ janitor = "done"
    /\ phase' = "stopReloader"
    /\ UNCHANGED <<inputVars, log, signalled, serverVars, partVars, result, loaderVars>>

\* and Reloader.Stop.
StopReloader ==
    /\ phase = "stopReloader"
    /\ reloader' = "stopped" /\ phase' = "return"
    /\ UNCHANGED <<inputVars, log, signalled, serverVars, janitor, result, loaderVars>>

\* main: os.Exit(1) on an error, which skips the deferred Close of the log.
Return ==
    /\ phase = "return"
    /\ IF result = "nil" THEN phase' = "exit0" /\ log' = IF log = "std" THEN log ELSE "closed"
                         ELSE phase' = "exit1" /\ UNCHANGED log
    /\ UNCHANGED <<inputVars, signalled, serverVars, partVars, result, loaderVars>>

-----------------------------------------------------------------------------
MainStep ==
    \/ ConfigUnreadable \/ LoadConfig \/ OpenLog
    \/ BuildPanics \/ Build \/ BuiltPlain \/ LoadTLS \/ TLSLoaded
    \/ StartRun \/ SelectError \/ SelectDone \/ Drained \/ DrainTimesOut
    \/ StopCerts \/ CloseLimiter \/ JoinJanitor \/ StopReloader \/ Return

ServerStep == Bound \/ ServeFails \/ ServeCloses

\* The rest of the state, for the steps of the certificate loader.
Alone == UNCHANGED <<phase, inputVars, log, signalled, serverVars, partVars, result>>

\* The process is there, and has come to the certificate; what happened to the files
\* before is an alternative to what happens before they are read.
CertsMatter == tls /\ phase \notin Exits

NewStep    == CertsMatter /\ (Load("new") \/ AddWatch) /\ Alone
WatchStep  == CertsMatter /\ WatchWork /\ Alone
LoadStep(w) == CertsMatter /\ Load(w) /\ Alone

Next ==
    \/ MainStep
    \/ phase \notin Exits /\ (ServerStep \/ JanitorReturns \/ Signal \/ CleanupPanics)
    \/ phase \notin Exits /\ \E q \in Requests : Arrive(q) \/ Finish(q)
    \/ NewStep \/ WatchStep \/ \E w \in Timers : LoadStep(w)
    \/ CertsMatter /\ FileWork /\ Alone

\* main and the goroutines run, timers expire and the server gets its listener, or an
\* error, and returns after Shutdown; nothing obliges anybody to send a signal, to change
\* a file or to finish a request, nor Accept to fail.
Fairness ==
    /\ WF_vars(MainStep)
    /\ WF_vars(phase \notin Exits /\ (spc = "listen" \/ shutting) /\ ServerStep)
    /\ WF_vars(JanitorReturns)
    /\ WF_vars(NewStep) /\ WF_vars(WatchStep)
    /\ \A w \in Timers : WF_vars(LoadStep(w))

Spec == Init /\ [][Next]_vars /\ Fairness

-----------------------------------------------------------------------------
TypeOK ==
    /\ phase \in Phases
    /\ Cardinality(raw) <= 1 /\ Cardinality(cfg) <= 1 /\ Cardinality(table) <= 1
    /\ tls \in BOOLEAN /\ log \in {"std", "file", "doomed", "closed"} /\ signalled \in BOOLEAN
    /\ spc \in {"none", "listen", "serving", "closed"}
    /\ serverErr \in BOOLEAN /\ shutting \in BOOLEAN /\ inflight \subseteq Requests
    /\ janitor \in {"none", "running", "done"}
    /\ reloader \in {"none", "running", "stopped"}
    /\ result \in {"none", "nil", "fatal", "forced"}
    /\ file \in [Files -> Contents] /\ watched \subseteq Files
    /\ event \in BOOLEAN /\ timer \in BOOLEAN /\ stopped \in BOOLEAN /\ watching \in BOOLEAN
    /\ served \in Contents \cup {-1}
    /\ lpc \in [Loaders -> {"idle", "cert", "key", "install", "watch"}]
    /\ read \in [Loaders -> Contents]
    /\ newFailed \in BOOLEAN /\ overlapped \in BOOLEAN /\ heard \in BOOLEAN

\* What a part of the gateway panics on, at once or later: the breaker makes its window and
\* counts modulo its size, mux.Handle refuses a pattern, cleanup runs out of rotated files.
PartPanics(c) == c.window < 1 \/ BadMetricsPattern(c) \/ BadBackups(c)

\* What validate lets through.  No part panics on a configuration that Load accepts, but for
\* two settings nobody looks at: a metrics path that conflicts with another pattern or is
\* none, and a negative logging.max_backups with a log file.  The defaults leave nothing to
\* be defaulted by a reload of the same file, with a NaN among the settings too (which
\* validate accepts: the comparisons are false).  The janitor's times are positive, however
\* the derived ones overflow; and a default idle_ttl is no shorter than
\* the time the global bucket takes to refill, so that an evicted client gains nothing, as
\* long as the rate is a number and ten times that time is a duration.
AcceptedIsSound ==
    \A r \in raw, c \in cfg :
        /\ PartPanics(c) => BadMetricsPattern(c) \/ BadBackups(c)
        /\ applyDefaults(c) = {c}
        /\ c.idleTTL > 0 /\ c.cleanup > 0
        /\ r.idleTTL <= 0 /\ "rps" \notin c.nan /\ 10 * ((c.burst * 1000) \div c.rps) <= MaxDuration
            => c.idleTTL * c.rps >= c.burst * 1000

\* The router, the access log and the rate limiter scan the table in three ways and
\* agree: on every path they take the one route with the longest prefix that ends where
\* a segment of the path does, or none; and a client is limited by that route's override
\* when it has one, and by the global limits when no matching route has.
RoutesResolve ==
    \A s \in table, c \in cfg, p \in Paths :
        LET best  == Longest(c.routes, p)
            limit == limitsForPath(c.routes, p)
        IN  /\ matchRoute(s, p) = best
            /\ routeLogLevel(c.routes, p) = best
            /\ limit.prefix = IF best = {} THEN <<>> ELSE (CHOOSE r \in best : TRUE).PathPrefix
            /\ \A r \in best : r.RateOverride # {} => limit.override = r.RateOverride
            /\ limit.override # {} => \E r \in Matching(c.routes, p) : r.RateOverride = limit.override

\* Exit status 0 means a graceful stop: somebody asked for it, no request was cut off,
\* the janitor has been waited for, watchers are stopped and the log file is closed; an
\* error of the server alone never passes for one.  And a handshake finds a certificate
\* that is whole, whatever happens to the files.
CleanExit ==
    /\ TypeOK
    /\ phase = "exit0" =>
        /\ signalled /\ inflight = {} /\ spc # "serving"
        /\ janitor = "done" /\ reloader = "stopped" /\ log \notin {"file", "doomed"}
        /\ tls => stopped
    /\ tls /\ phase \in Running => served # -1 /\ Whole(served)

\* A signal after NotifyContext ends the process, whatever the requests, the server and
\* the certificate files do: Shutdown is bounded and nothing deferred waits for ever.
StopsOnSignal == signalled ~> phase \in Exits

\* Once certificate and key stay as they are, fit, and were changed last in place and
\* under watch, they are served, though the two files are read one after the other while
\* they are rewritten and failed loads are not repeated.  Loads that overlapped may have
\* been installed in the wrong order; a file replaced by rename is no longer watched.
CertCatchesUp ==
    <>[](/\ phase = "select" /\ tls /\ ~overlapped /\ heard
         /\ Whole(file["cert"]) /\ file["cert"] = file["key"])
        => <>[](served = file["cert"])
=============================================================================
