---------------------------- MODULE MCLifecycle -----------------------------
EXTENDS Lifecycle

Route(prefix, override) ==
    [PathPrefix |-> prefix, RateOverride |-> override, backend |-> "ok", logLevel |-> "",
     fallbackStatus |-> 0, pool |-> {}, timeoutMs |-> 0]

Slash == <<"/">>
A     == <<"/", "a">>

Base ==
    [metrics |-> TRUE, metricsPath |-> "", port |-> 0, output |-> "", maxSizeMB |-> 0,
     maxBackups |-> 0, maxAgeDays |-> 0, maxBodyLog |-> 0, bodyLogging |-> FALSE,
     minVersion |-> "", tls |-> FALSE, certFile |-> "cert", keyFile |-> "key",
     readTimeout |-> 0, writeTimeout |-> 0, shutdownTimeout |-> 0, maxBody |-> 0,
     globalTimeoutMs |-> 0, rps |-> 0, burst |-> 0, idleTTL |-> 0, cleanup |-> 0,
     auth |-> FALSE, jwtSecret |-> "s", issuer |-> "i", audience |-> "a",
     window |-> 0, threshold |-> 0, resetTimeout |-> 0, halfOpenMax |-> 0,
     slowThreshold |-> 0, maxConcurrent |-> 0, adaptive |-> FALSE, ceiling |-> 0,
     minThreshold |-> 0, nan |-> {}, admin |-> FALSE, allowlist |-> [ok |-> 1, bad |-> 0],
     routes |-> <<Route(A, {}), Route(Slash, {})>>]

\* Settings at their boundaries: a field and the value it is given.
Numbers == {"maxSizeMB", "maxBodyLog", "maxBody", "globalTimeoutMs", "window", "resetTimeout",
            "halfOpenMax", "slowThreshold", "maxConcurrent", "ceiling", "cleanup"}
Flags   == {"bodyLogging", "tls", "auth", "adaptive", "admin"}
Settings ==
    {<<f, v>> : f \in Numbers, v \in {-1, 1}} \cup {<<f, TRUE>> : f \in Flags}
    \cup {<<"metrics", FALSE>>, <<"output", "file">>, <<"minVersion", "1.1">>, <<"minVersion", "1.3">>}
    \cup {<<f, "">> : f \in {"certFile", "keyFile", "jwtSecret", "issuer", "audience"}}
    \cup {<<"metricsPath", p>> : p \in {"/health", "malformed", "overlaps", "/admin/config", "overlaps_admin"}}
    \cup {<<"maxBackups", -1>>} \cup {<<"nan", {f}>> : f \in Floats}
    \cup {<<"port", v>> : v \in {-1, 65536}}
    \cup {<<"rps", v>> : v \in {-1, 1, 100}} \cup {<<"burst", v>> : v \in {-1, 1, 2, 20, 1000}}
    \cup {<<"idleTTL", v>> : v \in {-1, 5}}
    \cup {<<"threshold", v>> : v \in {20, 100, 101}} \cup {<<"minThreshold", v>> : v \in {-1, 50}}
    \cup {<<"allowlist", [ok |-> 0, bad |-> 0]>>, <<"allowlist", [ok |-> 1, bad |-> 1]>>}

\* Files with at most two settings off their defaults,
TwoSettings == {[Base EXCEPT ![s[1]] = s[2], ![t[1]] = t[2]] : s \in Settings, t \in Settings}

\* and files with every table of at most three routes.
RoutePrefixes == {<<>>, <<"a">>, Slash, A, <<"/", "a", "/">>, <<"/", "a", "b">>}
Tables ==
    LET routes == {Route(p, o) : p \in RoutePrefixes, o \in {{}, {1}}}
    IN  UNION {[1..n -> routes] : n \in 0..3}

MCRawConfigs ==
    TwoSettings \cup {[Base EXCEPT !.routes = t] : t \in Tables}
    \cup {[Base EXCEPT !.routes[1] = [@ EXCEPT !.backend = b]] : b \in {"", "unparsed", "scheme", "host"}}
    \cup {[Base EXCEPT !.routes[1] = [@ EXCEPT !.logLevel = "loud"]],
          [Base EXCEPT !.routes[1] = [@ EXCEPT !.fallbackStatus = 199]],
          [Base EXCEPT !.routes[1] = [@ EXCEPT !.pool = {[maxIdle |-> 0, perHost |-> -1, idleTimeout |-> 0]}]]}

MCPaths == {<<"/">> \o s : s \in UNION {[1..n -> {"/", "a", "b"}] : n \in 0..3}}
=============================================================================
