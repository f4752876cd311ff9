------------------------------- MODULE Config -------------------------------
(***************************************************************************)
(* internal/config/config.go: applyDefaults and validate on a parsed       *)
(* configuration, a record with one field per setting:                     *)
(*                                                                         *)
(*   durations are in seconds and thresholds in percent; rps is in         *)
(*   requests per 1000 seconds; nan names those of the three that the file *)
(*   gives as .nan, whose number then means nothing;                       *)
(*   a string is the value that matters ("" is empty), or whether it is    *)
(*   there; a backend is "" or what url.Parse makes of it, "ok", "unparsed",*)
(*   "scheme", "host"; metricsPath is a pattern of http.ServeMux, or       *)
(*   "malformed" for what is none, or "overlaps" ("overlaps_admin") for one *)
(*   that overlaps with a pattern of health (admin) while neither is more  *)
(*   specific; an optional part is the set of at most one;                 *)
(*   allowlist is the number of its CIDRs that parse and do not.           *)
(***************************************************************************)
EXTENDS Integers, Sequences, FiniteSets, Routing

CONSTANT MaxDuration    \* the largest duration, in seconds: the end of int64

ASSUME ConfigAssumption == MaxDuration \in Nat \ {0}

\* The settings that are floats, and may be NaN.
Floats == {"rps", "threshold", "minThreshold"}

\* A parsed file: what yaml.Unmarshal fills in.
RouteConfig ==
    [PathPrefix : Seq(STRING), RateOverride : SUBSET Int, backend : STRING, logLevel : STRING,
     fallbackStatus : Int, timeoutMs : Int,
     pool : SUBSET [maxIdle : Int, perHost : Int, idleTimeout : Int]]

ParsedConfig ==
    [metrics : BOOLEAN, metricsPath : STRING, port : Int, output : STRING, maxSizeMB : Int,
     maxBackups : Int, maxAgeDays : Int, maxBodyLog : Int, bodyLogging : BOOLEAN,
     minVersion : STRING, tls : BOOLEAN, certFile : STRING, keyFile : STRING,
     readTimeout : Int, writeTimeout : Int, shutdownTimeout : Int, maxBody : Int,
     globalTimeoutMs : Int, rps : Int, burst : Int, idleTTL : Int, cleanup : Int,
     auth : BOOLEAN, jwtSecret : STRING, issuer : STRING, audience : STRING,
     window : Int, threshold : Int, resetTimeout : Int, halfOpenMax : Int,
     slowThreshold : Int, maxConcurrent : Int, adaptive : BOOLEAN, ceiling : Int,
     minThreshold : Int, admin : BOOLEAN, allowlist : [ok : Nat, bad : Nat],
     nan : SUBSET Floats, routes : Seq(RouteConfig)]

\* Comparisons of a float, which do not hold of a NaN.
AtMost(c, f, n) == f \notin c.nan /\ c[f] <= n
Above(c, f, n)  == f \notin c.nan /\ c[f] > n

Default(value, absent, default) == IF value = absent THEN default ELSE value

\* Two's complement.
WrapDuration(d) == ((d + MaxDuration + 1) % (2 * (MaxDuration + 1))) - (MaxDuration + 1)

\* time.Duration(float64): a value out of range becomes the smallest integer or the
\* largest one, depending on the processor.
ToDuration(seconds) == IF seconds <= MaxDuration THEN {seconds} ELSE {-MaxDuration - 1, MaxDuration}

\* Ten times what it takes to refill the bucket.
Refill(c) == {WrapDuration(10 * d) : d \in ToDuration((c.burst * 1000) \div c.rps)}

\* The default idle_ttl.
DefaultTTLs(c) ==
    IF Above(c, "rps", 0) THEN {IF refill > 600 THEN refill ELSE 600 : refill \in Refill(c)} ELSE {600}

DefaultCleanup(ttl) == IF ttl \div 10 < 60 THEN 60 ELSE ttl \div 10

DefaultRoute(r) == [r EXCEPT !.timeoutMs = Default(@, 0, 30000)]

\* What an absent number, and an absent string, stands for.
DefaultNumbers ==
    [port |-> 8080, maxSizeMB |-> 100, maxBackups |-> 3, maxAgeDays |-> 30, maxBodyLog |-> 4096,
     readTimeout |-> 15, writeTimeout |-> 15, shutdownTimeout |-> 10, maxBody |-> 1048576,
     rps |-> 100000, burst |-> 50, window |-> 10, threshold |-> 50, resetTimeout |-> 30,
     halfOpenMax |-> 2, ceiling |-> 2, minThreshold |-> 20]
DefaultStrings == [metricsPath |-> "/metrics", output |-> "stdout", minVersion |-> "1.2"]

\* The settings that get none, because they are NaN and not 0, or what they belong to is off.
Unused(raw) ==
    raw.nan \cup (IF raw.tls THEN {} ELSE {"minVersion"})
    \cup (IF raw.adaptive THEN {} ELSE {"ceiling", "minThreshold"})

\* The settings whose default depends on no other setting.
plainDefaults(raw) ==
    [f \in DOMAIN raw |->
        IF f \in Unused(raw) THEN raw[f]
        ELSE IF f \in DOMAIN DefaultNumbers THEN Default(raw[f], 0, DefaultNumbers[f])
        ELSE IF f \in DOMAIN DefaultStrings THEN Default(raw[f], "", DefaultStrings[f])
        ELSE IF f = "routes" THEN [i \in DOMAIN raw[f] |-> DefaultRoute(raw[f][i])]
        ELSE raw[f]]

withIdleTTL(c, ttl) == [c EXCEPT !.idleTTL = ttl]
withCleanup(c)      == [c EXCEPT !.cleanup = IF @ > 0 THEN @ ELSE DefaultCleanup(c.idleTTL)]

\* applyDefaults: the results it can have.  idle_ttl is derived from the limits with
\* their defaults, cleanup_interval from idle_ttl with its own.
applyDefaults(raw) ==
    LET c == plainDefaults(raw)
    IN  {withCleanup(withIdleTTL(c, ttl)) :
           ttl \in IF c.idleTTL > 0 THEN {c.idleTTL} ELSE DefaultTTLs(c)}

-----------------------------------------------------------------------------
validServer(c) == c.port \in 1..65535 /\ c.maxBody >= 0

validTLS(c) ==
    /\ c.globalTimeoutMs >= 0
    /\ c.tls => c.certFile # "" /\ c.keyFile # "" /\ c.minVersion \in {"1.2", "1.3"}

validRateLimit(c) == ~AtMost(c, "rps", 0) /\ c.burst > 0 /\ c.idleTTL >= 0 /\ c.cleanup >= 0

validAuth(c) == c.auth => c.jwtSecret # "" /\ c.issuer # "" /\ c.audience # ""

validThresholds(c) ==
    /\ ~AtMost(c, "threshold", 0) /\ ~Above(c, "threshold", 100)
    /\ c.adaptive => /\ ~AtMost(c, "minThreshold", 0)
                     /\ c.minThreshold < c.threshold \/ c.nan \cap {"minThreshold", "threshold"} # {}
                     /\ c.ceiling > 0

\* Fault: a window of no outcomes is accepted.
validBreakerNoWindow(c) ==
    /\ validThresholds(c) /\ c.resetTimeout > 0 /\ c.halfOpenMax >= 1
    /\ c.slowThreshold >= 0 /\ c.maxConcurrent >= 0

validBreaker(c) ==
    /\ c.window >= 1
    /\ validThresholds(c) /\ c.resetTimeout > 0 /\ c.halfOpenMax >= 1
    /\ c.slowThreshold >= 0 /\ c.maxConcurrent >= 0

validLogging(c) ==
    /\ c.output \in {"stdout", "stderr"} \/ c.maxSizeMB >= 1
    /\ c.bodyLogging => c.maxBodyLog >= 1

validAdmin(c) == c.admin => c.allowlist.bad = 0 /\ c.allowlist.ok > 0

validRoute(r) ==
    /\ r.PathPrefix # <<>> /\ r.PathPrefix[1] = "/"
    /\ r.backend = "ok"
    /\ r.logLevel \in {"", "debug", "info", "warn", "error", "none"}
    /\ r.fallbackStatus = 0 \/ r.fallbackStatus \in 200..599
    /\ \A p \in r.pool : p.maxIdle >= 0 /\ p.perHost >= 0 /\ p.idleTimeout >= 0

validRoutes(c) ==
    /\ c.routes # <<>>
    /\ \A i \in DOMAIN c.routes : validRoute(c.routes[i])
    /\ \A i, j \in DOMAIN c.routes : i # j => c.routes[i].PathPrefix # c.routes[j].PathPrefix

validate(c) ==
    /\ validServer(c) /\ validTLS(c) /\ validRateLimit(c) /\ validAuth(c)
    /\ validBreaker(c) /\ validLogging(c) /\ validAdmin(c) /\ validRoutes(c)
=============================================================================
