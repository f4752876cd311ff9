-------------------------- MODULE LifecycleProofs ---------------------------
(***************************************************************************)
(* From the configuration file to the exit of the process, for every       *)
(* configuration, path, number of requests and timers.                     *)
(*                                                                         *)
(* MainInv says what lies behind each phase of main: where the             *)
(* configuration and the routing table come from (Inputs), what has been   *)
(* stopped and waited for (Behind), and that there is a whole certificate  *)
(* (Certified, LoaderInv).  What applyDefaults, validate and the three     *)
(* scans of the routing table compute is stated in lemmas without state;   *)
(* the loops of two of the scans are followed turn by turn, by a least     *)
(* counterexample.                                                         *)
(***************************************************************************)
EXTENDS Lifecycle, FiniteSetTheorems, FunctionTheorems, NaturalsInduction, WellFoundedInduction, TLAPS

-----------------------------------------------------------------------------
\* The assignment of one setting.
LEMMA Assign ==
    ASSUME NEW c, NEW v, c = [f \in DOMAIN c |-> c[f]]
    PROVE  /\ DOMAIN withIdleTTL(c, v) = DOMAIN c
           /\ withIdleTTL(c, v) = [f \in DOMAIN c |-> withIdleTTL(c, v)[f]]
           /\ \A f \in DOMAIN c : withIdleTTL(c, v)[f] = IF f = "idleTTL" THEN v ELSE c[f]
           /\ DOMAIN withCleanup(c) = DOMAIN c
           /\ withCleanup(c) = [f \in DOMAIN c |-> withCleanup(c)[f]]
           /\ \A f \in DOMAIN c : withCleanup(c)[f] =
                IF f = "cleanup" THEN IF c.cleanup > 0 THEN c.cleanup ELSE DefaultCleanup(c.idleTTL) ELSE c[f]
  BY SMT DEF withIdleTTL, withCleanup

\* The settings without a default are some of those that have one.
LEMMA UnusedFacts ==
    ASSUME NEW r \in ParsedConfig
    PROVE  /\ Unused(r) \subseteq {"rps", "threshold", "minThreshold", "minVersion", "ceiling"}
           /\ "nan" \in DOMAIN r /\ r.nan \subseteq Floats
  <1>1. "nan" \in DOMAIN r /\ r.nan \in SUBSET Floats
    BY SMT DEF ParsedConfig
  <1> QED
    BY <1>1 DEF Unused, Floats

\* A default is a number where a number was.
LEMMA NumbersStay ==
    ASSUME NEW r \in ParsedConfig
    PROVE  plainDefaults(r).rps \in Int /\ plainDefaults(r).burst \in Int /\ plainDefaults(r).window \in Int
  <1>1. ASSUME NEW f \in {"rps", "burst", "window"}
        PROVE  plainDefaults(r)[f] \in Int
    <2>1. f \in DOMAIN r /\ r[f] \in Int
      <3>1. /\ {"rps", "burst", "window"} \subseteq DOMAIN r
            /\ r.rps \in Int /\ r.burst \in Int /\ r.window \in Int
        BY SMT DEF ParsedConfig
      <3> QED
        BY <3>1
    <2>2. f \in DOMAIN DefaultNumbers /\ DefaultNumbers[f] \in Int
      BY SMT DEF DefaultNumbers
    <2>3. plainDefaults(r)[f] = IF f \in Unused(r) THEN r[f] ELSE Default(r[f], 0, DefaultNumbers[f])
      BY <2>1, <2>2 DEF plainDefaults
    <2> QED
      BY <2>1, <2>2, <2>3 DEF Default
  <1> QED
    BY <1>1

\* The default time to live is positive.
LEMMA TTLPositive ==
    ASSUME NEW c, c.rps \in Int, c.burst \in Int, NEW ttl \in DefaultTTLs(c)
    PROVE  ttl \in Int /\ ttl >= 600
  <1>1. CASE Above(c, "rps", 0)
    <2>1. PICK refill \in Refill(c) : ttl = IF refill > 600 THEN refill ELSE 600
      BY <1>1 DEF DefaultTTLs
    <2>2. PICK d \in ToDuration((c.burst * 1000) \div c.rps) : refill = WrapDuration(10 * d)
      BY <2>1 DEF Refill
    <2>3. (c.burst * 1000) \div c.rps \in Int
      BY <1>1 DEF Above
    <2>4. d \in Int
      BY <2>3, ConfigAssumption DEF ToDuration
    <2>5. refill \in Int
      BY <2>2, <2>4, ConfigAssumption DEF WrapDuration
    <2> QED
      BY <2>1, <2>5
  <1>2. CASE ~Above(c, "rps", 0)
    BY <1>2 DEF DefaultTTLs
  <1> QED
    BY <1>1, <1>2

\* What applyDefaults makes of r, setting by setting.
Defaulted(r, c) ==
    /\ DOMAIN c = DOMAIN r /\ c = [f \in DOMAIN r |-> c[f]]
    /\ c.idleTTL \in IF r.idleTTL > 0 THEN {r.idleTTL} ELSE DefaultTTLs(plainDefaults(r))
    /\ c.idleTTL \in Int /\ c.idleTTL > 0 /\ c.cleanup \in Int /\ c.cleanup > 0
    /\ \A f \in DOMAIN r : f \notin {"idleTTL", "cleanup"} => c[f] = plainDefaults(r)[f]

\* applyDefaults does that, and leaves idle_ttl and cleanup_interval positive.
LEMMA DefaultsApplied ==
    ASSUME NEW r \in ParsedConfig, NEW c \in applyDefaults(r)
    PROVE  Defaulted(r, c)
  <1> DEFINE p == plainDefaults(r)
  <1>1. /\ DOMAIN p = DOMAIN r /\ p = [f \in DOMAIN r |-> p[f]]
        /\ {"idleTTL", "cleanup"} \subseteq DOMAIN r
    BY SMT DEF plainDefaults, ParsedConfig
  <1>2. /\ p.idleTTL = r.idleTTL /\ p.cleanup = r.cleanup /\ p.idleTTL \in Int /\ p.cleanup \in Int
        /\ p.rps \in Int /\ p.burst \in Int
    <2>1. p.idleTTL = r.idleTTL /\ p.cleanup = r.cleanup
      BY UnusedFacts, SMT DEF plainDefaults, ParsedConfig, DefaultNumbers, DefaultStrings
    <2>2. r.idleTTL \in Int /\ r.cleanup \in Int
      BY SMT DEF ParsedConfig
    <2> QED
      BY <2>1, <2>2, NumbersStay
  <1> HIDE DEF p
  <1>3. PICK ttl \in IF p.idleTTL > 0 THEN {p.idleTTL} ELSE DefaultTTLs(p) :
               c = withCleanup(withIdleTTL(p, ttl))
    BY DEF applyDefaults, p
  <1>4. ttl \in Int /\ ttl > 0
    <2>1. CASE p.idleTTL > 0
      BY <1>2, <1>3, <2>1
    <2>2. CASE ~(p.idleTTL > 0)
      <3>1. ttl \in DefaultTTLs(p)
        BY <1>3, <2>2
      <3>2. ttl \in Int /\ ttl >= 600
        BY <1>2, <3>1, TTLPositive
      <3> QED
        BY <3>2
    <2> QED
      BY <2>1, <2>2
  <1> DEFINE q == withIdleTTL(p, ttl)
  <1>5. /\ DOMAIN q = DOMAIN r /\ q = [f \in DOMAIN q |-> q[f]]
        /\ \A f \in DOMAIN r : q[f] = IF f = "idleTTL" THEN ttl ELSE p[f]
    BY <1>1, Assign
  <1> HIDE DEF q
  <1>6. /\ DOMAIN c = DOMAIN r /\ c = [f \in DOMAIN r |-> c[f]]
        /\ \A f \in DOMAIN r :
             c[f] = IF f = "cleanup" THEN IF q.cleanup > 0 THEN q.cleanup ELSE DefaultCleanup(q.idleTTL) ELSE q[f]
    <2>1. c = withCleanup(q)
      BY <1>3 DEF q
    <2> QED
      BY <1>5, <2>1, Assign
  <1>7. c.idleTTL = ttl
    BY <1>1, <1>5, <1>6
  <1>8. c.cleanup = IF p.cleanup > 0 THEN p.cleanup ELSE DefaultCleanup(ttl)
    BY <1>1, <1>5, <1>6
  <1>9. DefaultCleanup(ttl) \in Int /\ DefaultCleanup(ttl) > 0
    BY <1>4 DEF DefaultCleanup
  <1>10. c.cleanup \in Int /\ c.cleanup > 0
    BY <1>2, <1>8, <1>9
  <1>11. \A f \in DOMAIN r : f \notin {"idleTTL", "cleanup"} => c[f] = p[f]
    BY <1>5, <1>6
  <1> QED
    BY <1>2, <1>3, <1>4, <1>6, <1>7, <1>10, <1>11 DEF p, Defaulted

\* Defaults leave nothing to be defaulted.
LEMMA DefaultsIdempotent ==
    ASSUME NEW r \in ParsedConfig, NEW c \in applyDefaults(r)
    PROVE  applyDefaults(c) = {c}
  <1>0. Defaulted(r, c)
    BY DefaultsApplied
  <1> DEFINE p == plainDefaults(r)
             D == DOMAIN r
  <1>1. /\ DOMAIN c = D /\ c = [f \in D |-> c[f]]
        /\ c.idleTTL \in Int /\ c.idleTTL > 0 /\ c.cleanup \in Int /\ c.cleanup > 0
        /\ \A f \in D : f \notin {"idleTTL", "cleanup"} => c[f] = p[f]
    BY <1>0 DEF Defaulted
  <1>2. {"tls", "adaptive", "nan", "routes", "idleTTL", "cleanup"} \subseteq D
    BY SMT DEF ParsedConfig
  <1>3. /\ DOMAIN p = D
        /\ \A f \in D : p[f] = IF f \in Unused(r) THEN r[f]
                               ELSE IF f \in DOMAIN DefaultNumbers THEN Default(r[f], 0, DefaultNumbers[f])
                               ELSE IF f \in DOMAIN DefaultStrings THEN Default(r[f], "", DefaultStrings[f])
                               ELSE IF f = "routes" THEN [i \in DOMAIN r[f] |-> DefaultRoute(r[f][i])]
                               ELSE r[f]
    BY DEF plainDefaults
  <1>4. Unused(c) = Unused(r) /\ c.routes = [i \in DOMAIN r.routes |-> DefaultRoute(r.routes[i])]
    <2>1. p.tls = r.tls /\ p.adaptive = r.adaptive /\ p.nan = r.nan
          /\ p.routes = [i \in DOMAIN r.routes |-> DefaultRoute(r.routes[i])]
      <3>1. \A f \in {"tls", "adaptive", "nan", "routes"} :
                f \notin Unused(r) /\ f \notin DOMAIN DefaultNumbers /\ f \notin DOMAIN DefaultStrings
        BY UnusedFacts, SMT DEF DefaultNumbers, DefaultStrings
      <3>2. p["tls"] = r["tls"] /\ p["adaptive"] = r["adaptive"] /\ p["nan"] = r["nan"]
        BY <1>2, <1>3, <3>1
      <3>3. p["routes"] = [i \in DOMAIN r["routes"] |-> DefaultRoute(r["routes"][i])]
        BY <1>2, <1>3, <3>1
      <3> QED
        BY <3>2, <3>3
    <2>2. c.tls = p.tls /\ c.adaptive = p.adaptive /\ c.nan = p.nan /\ c.routes = p.routes
      BY <1>1, <1>2
    <2> QED
      BY <2>1, <2>2 DEF Unused
  <1> HIDE DEF p
  <1>5. ASSUME NEW f \in DOMAIN DefaultNumbers PROVE DefaultNumbers[f] # 0 /\ f \notin {"idleTTL", "cleanup"}
    BY SMT DEF DefaultNumbers
  <1>6. ASSUME NEW f \in DOMAIN DefaultStrings PROVE DefaultStrings[f] # "" /\ f \notin {"idleTTL", "cleanup"}
    <2>1. f \in {"metricsPath", "output", "minVersion"}
      BY SMT DEF DefaultStrings
    <2>2. DefaultStrings["metricsPath"] # "" /\ DefaultStrings["output"] # "" /\ DefaultStrings["minVersion"] # ""
      BY SMT DEF DefaultStrings
    <2> QED
      BY <2>1, <2>2
  <1>7. [i \in DOMAIN c.routes |-> DefaultRoute(c.routes[i])] = c.routes
    <2>1. ASSUME NEW i \in DOMAIN r.routes PROVE DefaultRoute(DefaultRoute(r.routes[i])) = DefaultRoute(r.routes[i])
      <3>1. r.routes[i] \in RouteConfig
        <4>1. r.routes \in Seq(RouteConfig)
          BY SMT DEF ParsedConfig
        <4> QED
          BY <4>1
      <3> DEFINE x == r.routes[i]
      <3>2. DefaultRoute(x) = [x EXCEPT !.timeoutMs = Default(x.timeoutMs, 0, 30000)]
        BY DEF DefaultRoute
      <3>3. "timeoutMs" \in DOMAIN x /\ x = [f \in DOMAIN x |-> x[f]]
        BY <3>1, SMT DEF RouteConfig
      <3> HIDE DEF x
      <3> DEFINE y == DefaultRoute(x)
      <3>4. y.timeoutMs # 0 /\ y = [f \in DOMAIN y |-> y[f]] /\ "timeoutMs" \in DOMAIN y
        BY <3>2, <3>3, SMT DEF Default
      <3> HIDE DEF y
      <3>5. DefaultRoute(y) = y
        BY <3>4, SMT DEF DefaultRoute, Default
      <3> QED
        BY <3>5 DEF x, y
    <2> QED
      BY <1>4, <2>1
  <1>8. plainDefaults(c) = c
    <2>1. ASSUME NEW f \in D
          PROVE  c[f] = IF f \in Unused(c) THEN c[f]
                        ELSE IF f \in DOMAIN DefaultNumbers THEN Default(c[f], 0, DefaultNumbers[f])
                        ELSE IF f \in DOMAIN DefaultStrings THEN Default(c[f], "", DefaultStrings[f])
                        ELSE IF f = "routes" THEN [i \in DOMAIN c[f] |-> DefaultRoute(c[f][i])]
                        ELSE c[f]
      <3>1. CASE f \in DOMAIN DefaultNumbers /\ f \notin Unused(c)
        <4>1. c[f] = Default(r[f], 0, DefaultNumbers[f])
          BY <1>1, <1>3, <1>4, <1>5, <3>1
        <4> QED
          BY <1>5, <3>1, <4>1 DEF Default
      <3>2. CASE f \in DOMAIN DefaultStrings /\ f \notin Unused(c) /\ f \notin DOMAIN DefaultNumbers
        <4>1. c[f] = Default(r[f], "", DefaultStrings[f])
          BY <1>1, <1>3, <1>4, <1>6, <3>2
        <4> QED
          BY <1>6, <3>2, <4>1 DEF Default
      <3>3. CASE f = "routes"
        <4>1. f \notin DOMAIN DefaultNumbers /\ f \notin DOMAIN DefaultStrings
          BY <3>3, SMT DEF DefaultNumbers, DefaultStrings
        <4> QED
          BY <1>7, <3>3, <4>1
      <3> QED
        BY <3>1, <3>2, <3>3
    <2> QED
      BY <1>1, <2>1 DEF plainDefaults
  <1>9. withIdleTTL(c, c.idleTTL) = c
    BY <1>1, <1>2, SMT DEF withIdleTTL
  <1>10. withCleanup(c) = c
    BY <1>1, <1>2, SMT DEF withCleanup
  <1> QED
    BY <1>1, <1>8, <1>9, <1>10 DEF applyDefaults

\* The default time to live covers the time the bucket takes to refill.
LEMMA TTLCoversRefill ==
    ASSUME NEW c, c.rps \in Int, Above(c, "rps", 0), c.burst \in Int, c.burst > 0,
           10 * ((c.burst * 1000) \div c.rps) <= MaxDuration, NEW ttl \in DefaultTTLs(c)
    PROVE  ttl * c.rps >= c.burst * 1000
  <1> DEFINE b == c.burst * 1000
             n == c.rps
             d == b \div n
  <1>1. b \in Int /\ b > 0 /\ n \in Int /\ n > 0 /\ MaxDuration \in Nat /\ MaxDuration > 0
    BY ConfigAssumption DEF Above
  <1>2. d \in Int /\ d >= 0 /\ d * n <= b /\ b < (d + 1) * n
    <2> HIDE DEF b, n
    <2>1. d \in Int /\ b = n * d + (b % n) /\ b % n \in 0..(n - 1)
      BY <1>1
    <2> QED
      BY <1>1, <2>1
  <1>3. ttl = IF 10 * d > 600 THEN 10 * d ELSE 600
    <2>1. 10 * d <= MaxDuration /\ d <= MaxDuration
      BY <1>1, <1>2
    <2>2. ToDuration(d) = {d}
      BY <2>1 DEF ToDuration
    <2>3. WrapDuration(10 * d) = 10 * d
      <3> HIDE DEF d
      <3> DEFINE e == 10 * d
      <3>1. e \in Int /\ e >= 0 /\ e <= MaxDuration
        BY <1>1, <1>2, <2>1
      <3> HIDE DEF e
      <3> DEFINE x == e + MaxDuration + 1
                 m == 2 * (MaxDuration + 1)
      <3>2. x \in Nat /\ m \in Nat \ {0} /\ x < m
        BY <1>1, <3>1
      <3>3. x % m = x
        <4> HIDE DEF x, m
        <4> QED
          BY <3>2
      <3>4. WrapDuration(e) = e
        BY <1>1, <3>1, <3>3 DEF WrapDuration
      <3> QED
        BY <3>4 DEF e
    <2>4. Refill(c) = {10 * d}
      BY <2>2, <2>3 DEF Refill
    <2> HIDE DEF d
    <2> QED
      BY <1>1, <2>4 DEF DefaultTTLs
  <1> HIDE DEF b, n, d
  <1>4. ttl \in Int /\ ttl >= d + 1
    BY <1>2, <1>3
  <1>5. ttl * n >= (d + 1) * n
    BY <1>1, <1>2, <1>4
  <1>6. ttl * n >= b
    BY <1>1, <1>2, <1>4, <1>5
  <1> QED
    BY <1>6 DEF b, n

-----------------------------------------------------------------------------
\* The certificate loader: its types, and what is known of a pair before it is installed.
LoaderTypes ==
    /\ file \in [Files -> Contents] /\ watched \subseteq Files
    /\ served \in Contents \cup {-1}
    /\ lpc \in [Loaders -> {"idle", "cert", "key", "install", "watch"}]
    /\ read \in [Loaders -> Contents]

LoaderFlags ==
    /\ event \in BOOLEAN /\ timer \in BOOLEAN /\ stopped \in BOOLEAN /\ watching \in BOOLEAN
    /\ newFailed \in BOOLEAN /\ overlapped \in BOOLEAN /\ heard \in BOOLEAN

Pairs ==
    /\ served # -1 => Whole(served)
    /\ \A w \in Loaders : lpc[w] = "install" => Whole(read[w])
    /\ lpc["new"] = "watch" => served # -1

LoaderInv == LoaderTypes /\ LoaderFlags /\ Pairs

\* Once there is a certificate there is one; and New ends with one or with an error.
Loading ==
    /\ served # -1 => served' # -1
    /\ lpc'["new"] = "idle" /\ ~newFailed' => (lpc["new"] = "idle" /\ ~newFailed) \/ served' # -1
    /\ stopped => stopped'

\* Contents of files: generation 0 is whole, and -1 stands for none.
LEMMA ContentsFacts ==
    Contents \subseteq Nat /\ 0 \in Contents /\ Whole(0) /\ "new" \in Loaders /\ -1 \notin Contents
  BY LoaderAssumption DEF Contents, Whole, Loaders

\* One load, by New or by a timer's goroutine.
LEMMA LoadStepInv ==
    ASSUME LoaderInv, NEW w \in Loaders, Load(w)
    PROVE  LoaderInv' /\ Loading
  <1> USE ContentsFacts DEF LoaderGoto
  <1>1. LoaderTypes /\ LoaderFlags /\ Pairs
    BY DEF LoaderInv
  <1>2. CASE ReadCert(w)
    <2>1. LoaderTypes'
      BY <1>1, <1>2 DEF ReadCert, LoaderTypes, Files
    <2>2. LoaderFlags'
      BY <1>1, <1>2 DEF ReadCert, LoaderFlags
    <2>3. Pairs' /\ Loading
      BY <1>1, <1>2 DEF ReadCert, Pairs, LoaderTypes, Loading
    <2> QED
      BY <2>1, <2>2, <2>3 DEF LoaderInv
  <1>3. CASE ReadKey(w)
    <2>1. LoaderTypes' /\ LoaderFlags'
      BY <1>1, <1>3 DEF ReadKey, LoaderTypes, LoaderFlags
    <2>2. Pairs' /\ Loading
      BY <1>1, <1>3 DEF ReadKey, Fits, Pairs, LoaderTypes, Loading
    <2> QED
      BY <2>1, <2>2 DEF LoaderInv
  <1>4. CASE LoadFails(w)
    <2>1. LoaderTypes'
      BY <1>1, <1>4 DEF LoadFails, LoaderTypes
    <2>2. LoaderFlags'
      <3>1. newFailed' = (newFailed \/ w = "new")
        BY <1>4 DEF LoadFails
      <3>2. newFailed' \in BOOLEAN
        BY <3>1
      <3> QED
        BY <1>1, <1>4, <3>2 DEF LoadFails, LoaderFlags
    <2>3. Pairs' /\ Loading
      BY <1>1, <1>4 DEF LoadFails, Pairs, LoaderTypes, Loading
    <2> QED
      BY <2>1, <2>2, <2>3 DEF LoaderInv
  <1>5. CASE Install(w)
    <2>1. LoaderTypes' /\ LoaderFlags'
      BY <1>1, <1>5 DEF Install, LoaderTypes, LoaderFlags
    <2>2. served' # -1 /\ Whole(served')
      BY <1>1, <1>5 DEF Install, Pairs, LoaderTypes
    <2>3. Pairs' /\ Loading
      BY <1>1, <1>5, <2>2 DEF Install, Pairs, LoaderTypes, Loading
    <2> QED
      BY <2>1, <2>3 DEF LoaderInv
  <1> QED
    BY <1>2, <1>3, <1>4, <1>5 DEF Load

\* The rest of the loader, and those who change its files.
LEMMA LoaderStepInv ==
    ASSUME LoaderInv, AddWatch \/ WatchWork \/ FileWork \/ LoaderStop \/ UNCHANGED loaderVars
    PROVE  LoaderInv' /\ Loading
  <1> USE ContentsFacts DEF LoaderGoto
  <1>1. LoaderTypes /\ LoaderFlags /\ Pairs
    BY DEF LoaderInv
  <1>2. CASE AddWatch
    <2>1. LoaderTypes'
      BY <1>1, <1>2 DEF AddWatch, LoaderTypes, Files
    <2>2. LoaderFlags'
      <3>1. /\ watching' = TRUE \/ watching' = watching
            /\ newFailed' = TRUE \/ newFailed' = newFailed
            /\ UNCHANGED <<event, timer, stopped, overlapped, heard>>
        BY <1>2 DEF AddWatch
      <3> QED
        BY <1>1, <3>1, Zenon DEF LoaderFlags
    <2>3. Pairs' /\ Loading
      BY <1>1, <1>2 DEF AddWatch, Pairs, LoaderTypes, Loading
    <2> QED
      BY <2>1, <2>2, <2>3 DEF LoaderInv
  <1>3. CASE WatchEvent \/ WatchLoopReturns \/ LoaderStop
    <2>1. LoaderFlags'
      <3>1. /\ event' = FALSE \/ event' = event
            /\ timer' = TRUE \/ timer' = FALSE \/ timer' = timer
            /\ stopped' = TRUE \/ stopped' = stopped
            /\ watching' = FALSE \/ watching' = watching
            /\ UNCHANGED <<newFailed, overlapped, heard>>
        BY <1>3 DEF WatchEvent, WatchLoopReturns, LoaderStop
      <3> QED
        BY <1>1, <3>1, Zenon DEF LoaderFlags
    <2>2. UNCHANGED <<file, watched, served, lpc, read, newFailed>>
      BY <1>3 DEF WatchEvent, WatchLoopReturns, LoaderStop
    <2>3. stopped => stopped'
      <3>1. stopped' = TRUE \/ stopped' = stopped
        BY <1>3 DEF WatchEvent, WatchLoopReturns, LoaderStop
      <3> QED
        BY <3>1, Zenon
    <2>4. LoaderTypes' /\ Pairs' /\ Loading
      BY <1>1, <2>2, <2>3 DEF LoaderTypes, Pairs, Loading
    <2> QED
      BY <2>1, <2>4 DEF LoaderInv
  <1>4. ASSUME NEW w \in Timers, TimerExpires(w) PROVE LoaderInv' /\ Loading
    <2>1. w \in Loaders /\ w # "new"
      BY LoaderAssumption DEF Loaders
    <2>2. LoaderFlags'
      <3>1. /\ timer' = FALSE /\ overlapped' = (overlapped \/ \E x \in Loaders : lpc[x] # "idle")
            /\ UNCHANGED <<event, stopped, watching, newFailed, heard>>
        BY <1>4 DEF TimerExpires, BeginLoad
      <3>2. overlapped' \in BOOLEAN
        BY <3>1
      <3> QED
        BY <1>1, <3>1, <3>2, Zenon DEF LoaderFlags
    <2>3. LoaderTypes' /\ Pairs' /\ Loading
      BY <1>1, <1>4, <2>1 DEF TimerExpires, BeginLoad, LoaderTypes, Pairs, Loading
    <2> QED
      BY <2>2, <2>3 DEF LoaderInv
  <1>5. ASSUME NEW f \in Files, Overwrite(f) \/ Replace(f) PROVE LoaderInv' /\ Loading
    <2>1. file' \in [Files -> Contents]
      BY <1>1, <1>5, LoaderAssumption DEF Overwrite, Replace, LoaderTypes, Contents
    <2>2. watched' \subseteq Files
      BY <1>1, <1>5 DEF Overwrite, Replace, LoaderTypes
    <2>3. LoaderFlags'
      <3>1. CASE Overwrite(f)
        <4>1. event' = (event \/ (f \in watched /\ ~stopped)) /\ heard' = (f \in watched)
          BY <3>1 DEF Overwrite
        <4>2. event' \in BOOLEAN /\ heard' \in BOOLEAN
          BY <4>1
        <4> QED
          BY <1>1, <3>1, <4>2 DEF Overwrite, LoaderFlags
      <3>2. CASE Replace(f)
        <4>1. heard' = FALSE /\ UNCHANGED <<event, timer, stopped, watching, newFailed, overlapped>>
          BY <3>2 DEF Replace
        <4> QED
          BY <1>1, <4>1, Zenon DEF LoaderFlags
      <3> QED
        BY <1>5, <3>1, <3>2
    <2>4. UNCHANGED <<served, lpc, read, newFailed, stopped>>
      BY <1>5 DEF Overwrite, Replace
    <2>5. LoaderTypes' /\ Pairs' /\ Loading
      BY <1>1, <2>1, <2>2, <2>4 DEF LoaderTypes, Pairs, Loading
    <2> QED
      BY <2>3, <2>5 DEF LoaderInv
  <1>6. CASE UNCHANGED loaderVars
    BY <1>1, <1>6 DEF loaderVars, LoaderInv, LoaderTypes, LoaderFlags, Pairs, Loading
  <1> QED
    BY <1>2, <1>3, <1>4, <1>5, <1>6 DEF WatchWork, FileWork

-----------------------------------------------------------------------------
\* The types of main and the server.
MainTypes ==
    /\ phase \in Phases /\ log \in {"std", "file", "doomed", "closed"}
    /\ spc \in {"none", "listen", "serving", "closed"} /\ inflight \subseteq Requests
    /\ janitor \in {"none", "running", "done"} /\ reloader \in {"none", "running", "stopped"}
    /\ result \in {"none", "nil", "fatal", "forced"}

MainFlags == tls \in BOOLEAN /\ signalled \in BOOLEAN /\ serverErr \in BOOLEAN /\ shutting \in BOOLEAN

\* The configuration comes from the file and is valid, the table from the configuration.
Single(S) == \A x, y \in S : x = y

Inputs ==
    /\ Single(raw) /\ Single(cfg) /\ Single(table) /\ raw \subseteq RawConfigs
    /\ \A r \in raw, c \in cfg : c \in applyDefaults(r)
    /\ \A c \in cfg : validate(c) /\ \E r \in RawConfigs : c \in applyDefaults(r)
    /\ phase \in {"load", "loaded", "build"} => table = {}
    /\ \A c \in cfg, s \in table : s \in Orders(c.routes)

\* What lies behind the phases that lead to an exit.
Stopping == {"shutdown"} \cup Deferred

Behind ==
    /\ phase \notin Stopping \cup Exits => ~shutting
    /\ phase = "shutdown" => shutting /\ signalled
    /\ phase = "select" /\ spc = "closed" => serverErr
    /\ result = "nil" => shutting /\ signalled /\ spc # "serving" /\ inflight = {}
    /\ phase \in {"stopReloader", "return", "exit0"} => janitor = "done"
    /\ phase \in {"return", "exit0"} => reloader = "stopped"
    /\ phase = "exit0" => result = "nil" /\ log \notin {"file", "doomed"}

\* There is a certificate from the end of New on, and the loader is stopped before the
\* limiter is closed.
Certified ==
    /\ tls => phase \in {"tls", "run"} \cup Running \cup Exits
    /\ tls /\ phase = "tls" /\ lpc["new"] = "idle" /\ ~newFailed => served # -1
    /\ tls /\ phase \in {"run"} \cup Running => served # -1
    /\ tls /\ phase \in {"closeLimiter", "joinJanitor", "stopReloader", "return", "exit0"} => stopped

MainInv == MainTypes /\ MainFlags /\ Inputs /\ Behind /\ Certified /\ LoaderInv

\* What the steps do to the inputs, but for the ones that make them: they are dropped.
LEMMA InputsDropped ==
    ASSUME Inputs, raw' \subseteq raw, cfg' \subseteq cfg, table' \subseteq table,
           phase' \in {"load", "loaded", "build"} => phase \in {"load", "loaded", "build"}
    PROVE  Inputs'
  BY DEF Inputs, Single

\* A flag stays, is set or is reset.
LEMMA FlagsMoved ==
    ASSUME MainFlags, tls' = TRUE \/ tls' = tls, signalled' = TRUE \/ signalled' = signalled,
           serverErr' = TRUE \/ serverErr' = FALSE \/ serverErr' = serverErr,
           shutting' = TRUE \/ shutting' = shutting
    PROVE  MainFlags'
  BY Zenon DEF MainFlags

\* The initial states.
LEMMA MainInit == Init => MainInv
  <1> SUFFICES ASSUME Init PROVE MainInv
    OBVIOUS
  <1>1. MainTypes
    BY DEF Init, MainTypes, Phases
  <1>2. MainFlags
    <2>1. tls = FALSE /\ signalled = FALSE /\ serverErr = FALSE /\ shutting = FALSE
      BY DEF Init
    <2> QED
      BY <2>1, Zenon DEF MainFlags
  <1>3. Inputs
    BY DEF Init, Inputs, Single
  <1>4. Behind /\ Certified
    BY DEF Init, Behind, Certified, Stopping, Deferred, Exits
  <1>5. LoaderTypes /\ Pairs
    BY ContentsFacts DEF Init, LoaderInit, LoaderTypes, Pairs
  <1>6. LoaderFlags
    <2>1. /\ event = FALSE /\ timer = FALSE /\ stopped = FALSE /\ watching = FALSE
          /\ newFailed = FALSE /\ overlapped = FALSE /\ heard = TRUE
      BY DEF Init, LoaderInit
    <2> QED
      BY <2>1, Zenon DEF LoaderFlags
  <1> QED
    BY <1>1, <1>2, <1>3, <1>4, <1>5, <1>6 DEF MainInv, LoaderInv

\* main until it runs: the configuration, the parts and the certificate.
LEMMA StartupStepInv ==
    ASSUME MainInv,
           ConfigUnreadable \/ LoadConfig \/ OpenLog \/ BuildPanics \/ Build \/ BuiltPlain
           \/ LoadTLS \/ TLSLoaded \/ StartRun
    PROVE  MainInv'
  <1> USE DEF inputVars, serverVars, partVars
  <1>1. MainTypes /\ MainFlags /\ Inputs /\ Behind /\ Certified /\ LoaderInv
    BY DEF MainInv
  <1>2. CASE ConfigUnreadable
    <2>1. MainTypes'
      BY <1>1, <1>2 DEF ConfigUnreadable, MainTypes, Phases, Running, Deferred, Exits
    <2>2. MainFlags'
      BY <1>1, <1>2, FlagsMoved DEF ConfigUnreadable
    <2>3. Inputs'
      BY <1>1, <1>2, InputsDropped DEF ConfigUnreadable
    <2>4. Behind'
      BY <1>1, <1>2 DEF ConfigUnreadable, Behind, Stopping, Deferred, Exits
    <2>5. LoaderInv' /\ Certified'
      <3>1. UNCHANGED loaderVars
        BY <1>2 DEF ConfigUnreadable
      <3>2. LoaderInv'
        BY <1>1, <3>1, LoaderStepInv
      <3>3. Certified'
        BY <1>1, <1>2, <3>1 DEF ConfigUnreadable, loaderVars, Certified, Running, Deferred, Exits
      <3> QED
        BY <3>2, <3>3
    <2> QED
      BY <2>1, <2>2, <2>3, <2>4, <2>5 DEF MainInv
  <1>3. CASE OpenLog
    <2>1. MainTypes'
      BY <1>1, <1>3 DEF OpenLog, MainTypes, Phases, Running, Deferred, Exits
    <2>2. MainFlags'
      BY <1>1, <1>3, FlagsMoved DEF OpenLog
    <2>3. Inputs'
      BY <1>1, <1>3, InputsDropped DEF OpenLog
    <2>4. Behind'
      BY <1>1, <1>3 DEF OpenLog, Behind, Stopping, Deferred, Exits
    <2>5. LoaderInv' /\ Certified'
      <3>1. UNCHANGED loaderVars
        BY <1>3 DEF OpenLog
      <3>2. LoaderInv'
        BY <1>1, <3>1, LoaderStepInv
      <3>3. Certified'
        BY <1>1, <1>3, <3>1 DEF OpenLog, loaderVars, Certified, Running, Deferred, Exits
      <3> QED
        BY <3>2, <3>3
    <2> QED
      BY <2>1, <2>2, <2>3, <2>4, <2>5 DEF MainInv
  <1>4. CASE BuildPanics
    <2>1. MainTypes'
      BY <1>1, <1>4 DEF BuildPanics, MainTypes, Phases, Running, Deferred, Exits
    <2>2. MainFlags'
      BY <1>1, <1>4, FlagsMoved DEF BuildPanics
    <2>3. Inputs'
      BY <1>1, <1>4, InputsDropped DEF BuildPanics
    <2>4. Behind'
      BY <1>1, <1>4 DEF BuildPanics, Behind, Stopping, Deferred, Exits
    <2>5. LoaderInv' /\ Certified'
      <3>1. UNCHANGED loaderVars
        BY <1>4 DEF BuildPanics
      <3>2. LoaderInv'
        BY <1>1, <3>1, LoaderStepInv
      <3>3. Certified'
        BY <1>1, <1>4, <3>1 DEF BuildPanics, loaderVars, Certified, Running, Deferred, Exits
      <3> QED
        BY <3>2, <3>3
    <2> QED
      BY <2>1, <2>2, <2>3, <2>4, <2>5 DEF MainInv
  <1>5. CASE BuiltPlain
    <2>1. MainTypes'
      BY <1>1, <1>5 DEF BuiltPlain, MainTypes, Phases, Running, Deferred, Exits
    <2>2. MainFlags'
      BY <1>1, <1>5, FlagsMoved DEF BuiltPlain
    <2>3. Inputs'
      BY <1>1, <1>5, InputsDropped DEF BuiltPlain
    <2>4. Behind'
      BY <1>1, <1>5 DEF BuiltPlain, Behind, Stopping, Deferred, Exits
    <2>5. LoaderInv' /\ Certified'
      <3>1. UNCHANGED loaderVars
        BY <1>5 DEF BuiltPlain
      <3>2. LoaderInv'
        BY <1>1, <3>1, LoaderStepInv
      <3>3. Certified'
        BY <1>1, <1>5, <3>1 DEF BuiltPlain, loaderVars, Certified, Running, Deferred, Exits
      <3> QED
        BY <3>2, <3>3
    <2> QED
      BY <2>1, <2>2, <2>3, <2>4, <2>5 DEF MainInv
  <1>6. CASE TLSLoaded
    <2>1. MainTypes'
      BY <1>1, <1>6 DEF TLSLoaded, MainTypes, Phases, Running, Deferred, Exits
    <2>2. MainFlags'
      BY <1>1, <1>6, FlagsMoved DEF TLSLoaded
    <2>3. Inputs'
      BY <1>1, <1>6, InputsDropped DEF TLSLoaded
    <2>4. Behind'
      BY <1>1, <1>6 DEF TLSLoaded, Behind, Stopping, Deferred, Exits
    <2>5. LoaderInv' /\ Certified'
      <3>1. UNCHANGED loaderVars
        BY <1>6 DEF TLSLoaded
      <3>2. LoaderInv'
        BY <1>1, <3>1, LoaderStepInv
      <3>3. Certified'
        BY <1>1, <1>6, <3>1 DEF TLSLoaded, loaderVars, Certified, Running, Deferred, Exits
      <3> QED
        BY <3>2, <3>3
    <2> QED
      BY <2>1, <2>2, <2>3, <2>4, <2>5 DEF MainInv
  <1>7. CASE StartRun
    <2>1. MainTypes'
      BY <1>1, <1>7 DEF StartRun, MainTypes, Phases, Running, Deferred, Exits
    <2>2. MainFlags'
      BY <1>1, <1>7, FlagsMoved DEF StartRun
    <2>3. Inputs'
      BY <1>1, <1>7, InputsDropped DEF StartRun
    <2>4. Behind'
      BY <1>1, <1>7 DEF StartRun, Behind, Stopping, Deferred, Exits
    <2>5. LoaderInv' /\ Certified'
      <3>1. UNCHANGED loaderVars
        BY <1>7 DEF StartRun
      <3>2. LoaderInv'
        BY <1>1, <3>1, LoaderStepInv
      <3>3. Certified'
        BY <1>1, <1>7, <3>1 DEF StartRun, loaderVars, Certified, Running, Deferred, Exits
      <3> QED
        BY <3>2, <3>3
    <2> QED
      BY <2>1, <2>2, <2>3, <2>4, <2>5 DEF MainInv
  <1>8. CASE LoadConfig
    <2>1. MainTypes'
      BY <1>1, <1>8 DEF LoadConfig, MainTypes, Phases, Running, Deferred, Exits
    <2>2. MainFlags'
      BY <1>1, <1>8, FlagsMoved DEF LoadConfig
    <2>3. Inputs'
      <3>1. PICK r \in raw : \E c \in applyDefaults(r) :
                IF validate(c) THEN phase' = "loaded" /\ cfg' = {c} /\ UNCHANGED raw
                               ELSE phase' = "exit1" /\ raw' = {} /\ UNCHANGED cfg
        BY <1>8 DEF LoadConfig
      <3>2. PICK c \in applyDefaults(r) :
                IF validate(c) THEN phase' = "loaded" /\ cfg' = {c} /\ UNCHANGED raw
                               ELSE phase' = "exit1" /\ raw' = {} /\ UNCHANGED cfg
        BY <3>1
      <3>3. CASE validate(c)
        <4>1. cfg' = {c} /\ raw' = raw /\ table' = {} /\ raw = {r} /\ r \in RawConfigs
          BY <1>1, <1>8, <3>2, <3>3 DEF LoadConfig, Inputs, Single
        <4>2. \A d \in cfg' : validate(d) /\ \E x \in RawConfigs : d \in applyDefaults(x)
          BY <3>3, <4>1
        <4> QED
          BY <1>1, <4>1, <4>2 DEF Inputs, Single
      <3>4. CASE ~validate(c)
        BY <1>1, <1>8, <3>2, <3>4, InputsDropped DEF LoadConfig
      <3> QED
        BY <3>3, <3>4
    <2>4. Behind'
      BY <1>1, <1>8 DEF LoadConfig, Behind, Stopping, Deferred, Exits
    <2>5. LoaderInv' /\ Certified'
      <3>1. UNCHANGED loaderVars
        BY <1>8 DEF LoadConfig
      <3>2. LoaderInv'
        BY <1>1, <3>1, LoaderStepInv
      <3>3. Certified'
        BY <1>1, <1>8, <3>1 DEF LoadConfig, loaderVars, Certified, Running, Deferred, Exits
      <3> QED
        BY <3>2, <3>3
    <2> QED
      BY <2>1, <2>2, <2>3, <2>4, <2>5 DEF MainInv
  <1>9. CASE Build
    <2>1. MainTypes'
      BY <1>1, <1>9 DEF Build, MainTypes, Phases, Running, Deferred, Exits
    <2>2. MainFlags'
      BY <1>1, <1>9, FlagsMoved DEF Build
    <2>3. Inputs'
      <3>1. PICK c \in cfg : \E t \in Orders(c.routes) : table' = {t}
        BY <1>9 DEF Build
      <3>2. cfg = {c} /\ cfg' = cfg /\ raw' = raw /\ phase' = "built"
        BY <1>1, <1>9 DEF Build, Inputs, Single
      <3> QED
        BY <1>1, <3>1, <3>2 DEF Inputs, Single
    <2>4. Behind'
      BY <1>1, <1>9 DEF Build, Behind, Stopping, Deferred, Exits
    <2>5. LoaderInv' /\ Certified'
      <3>1. UNCHANGED loaderVars
        BY <1>9 DEF Build
      <3>2. LoaderInv'
        BY <1>1, <3>1, LoaderStepInv
      <3>3. Certified'
        BY <1>1, <1>9, <3>1 DEF Build, loaderVars, Certified, Running, Deferred, Exits
      <3> QED
        BY <3>2, <3>3
    <2> QED
      BY <2>1, <2>2, <2>3, <2>4, <2>5 DEF MainInv
  <1>10. CASE LoadTLS
    <2>1. MainTypes'
      BY <1>1, <1>10 DEF LoadTLS, MainTypes, Phases
    <2>2. MainFlags'
      BY <1>1, <1>10, FlagsMoved DEF LoadTLS
    <2>3. Inputs'
      BY <1>1, <1>10, InputsDropped DEF LoadTLS
    <2>4. Behind'
      BY <1>1, <1>10 DEF LoadTLS, Behind, Stopping, Deferred, Exits
    <2>5. LoaderTypes' /\ Pairs'
      BY <1>1, <1>10, ContentsFacts DEF LoadTLS, BeginLoad, LoaderGoto, LoaderInv, LoaderTypes, Pairs
    <2>6. LoaderFlags'
      <3>1. /\ overlapped' = (overlapped \/ \E x \in Loaders : lpc[x] # "idle")
            /\ UNCHANGED <<event, timer, stopped, watching, newFailed, heard>>
        BY <1>10 DEF LoadTLS, BeginLoad
      <3>2. overlapped' \in BOOLEAN
        BY <3>1
      <3> QED
        BY <1>1, <3>1, <3>2, Zenon DEF LoaderInv, LoaderFlags
    <2>7. Certified'
      <3>1. phase' = "tls" /\ lpc'["new"] = "cert"
        BY <1>1, <1>10, ContentsFacts DEF LoadTLS, BeginLoad, LoaderGoto, LoaderInv, LoaderTypes
      <3> QED
        BY <3>1 DEF Certified, Running, Deferred, Exits
    <2> QED
      BY <2>1, <2>2, <2>3, <2>4, <2>5, <2>6, <2>7 DEF MainInv, LoaderInv
  <1> QED
    BY <1>2, <1>3, <1>4, <1>5, <1>6, <1>7, <1>8, <1>9, <1>10

\* Run and what is deferred in it.
LEMMA RunStepInv ==
    ASSUME MainInv,
           SelectError \/ SelectDone \/ Drained \/ DrainTimesOut \/ StopCerts \/ CloseLimiter
           \/ JoinJanitor \/ StopReloader \/ Return
    PROVE  MainInv'
  <1> USE DEF inputVars, serverVars, partVars
  <1>1. MainTypes /\ MainFlags /\ Inputs /\ Behind /\ Certified /\ LoaderInv
    BY DEF MainInv
  <1>2. CASE SelectError
    <2>1. MainTypes'
      BY <1>1, <1>2 DEF SelectError, MainTypes, Phases, Running, Deferred, Exits
    <2>2. MainFlags'
      BY <1>1, <1>2, FlagsMoved DEF SelectError
    <2>3. Inputs'
      BY <1>1, <1>2, InputsDropped DEF SelectError
    <2>4. Behind'
      BY <1>1, <1>2 DEF SelectError, Behind, Stopping, Deferred, Exits
    <2>5. LoaderInv' /\ Certified'
      <3>1. UNCHANGED loaderVars
        BY <1>2 DEF SelectError
      <3>2. LoaderInv'
        BY <1>1, <3>1, LoaderStepInv
      <3>3. Certified'
        BY <1>1, <1>2, <3>1 DEF SelectError, loaderVars, Certified, Running, Deferred, Exits
      <3> QED
        BY <3>2, <3>3
    <2> QED
      BY <2>1, <2>2, <2>3, <2>4, <2>5 DEF MainInv
  <1>3. CASE SelectDone
    <2>1. MainTypes'
      BY <1>1, <1>3 DEF SelectDone, MainTypes, Phases, Running, Deferred, Exits
    <2>2. MainFlags'
      BY <1>1, <1>3, FlagsMoved DEF SelectDone
    <2>3. Inputs'
      BY <1>1, <1>3, InputsDropped DEF SelectDone
    <2>4. Behind'
      BY <1>1, <1>3 DEF SelectDone, Behind, Stopping, Deferred, Exits
    <2>5. LoaderInv' /\ Certified'
      <3>1. UNCHANGED loaderVars
        BY <1>3 DEF SelectDone
      <3>2. LoaderInv'
        BY <1>1, <3>1, LoaderStepInv
      <3>3. Certified'
        BY <1>1, <1>3, <3>1 DEF SelectDone, loaderVars, Certified, Running, Deferred, Exits
      <3> QED
        BY <3>2, <3>3
    <2> QED
      BY <2>1, <2>2, <2>3, <2>4, <2>5 DEF MainInv
  <1>4. CASE Drained
    <2>1. MainTypes'
      BY <1>1, <1>4 DEF Drained, MainTypes, Phases, Running, Deferred, Exits
    <2>2. MainFlags'
      BY <1>1, <1>4, FlagsMoved DEF Drained
    <2>3. Inputs'
      BY <1>1, <1>4, InputsDropped DEF Drained
    <2>4. Behind'
      BY <1>1, <1>4 DEF Drained, Behind, Stopping, Deferred, Exits
    <2>5. LoaderInv' /\ Certified'
      <3>1. UNCHANGED loaderVars
        BY <1>4 DEF Drained
      <3>2. LoaderInv'
        BY <1>1, <3>1, LoaderStepInv
      <3>3. Certified'
        BY <1>1, <1>4, <3>1 DEF Drained, loaderVars, Certified, Running, Deferred, Exits
      <3> QED
        BY <3>2, <3>3
    <2> QED
      BY <2>1, <2>2, <2>3, <2>4, <2>5 DEF MainInv
  <1>5. CASE DrainTimesOut
    <2>1. MainTypes'
      BY <1>1, <1>5 DEF DrainTimesOut, MainTypes, Phases, Running, Deferred, Exits
    <2>2. MainFlags'
      BY <1>1, <1>5, FlagsMoved DEF DrainTimesOut
    <2>3. Inputs'
      BY <1>1, <1>5, InputsDropped DEF DrainTimesOut
    <2>4. Behind'
      BY <1>1, <1>5 DEF DrainTimesOut, Behind, Stopping, Deferred, Exits
    <2>5. LoaderInv' /\ Certified'
      <3>1. UNCHANGED loaderVars
        BY <1>5 DEF DrainTimesOut
      <3>2. LoaderInv'
        BY <1>1, <3>1, LoaderStepInv
      <3>3. Certified'
        BY <1>1, <1>5, <3>1 DEF DrainTimesOut, loaderVars, Certified, Running, Deferred, Exits
      <3> QED
        BY <3>2, <3>3
    <2> QED
      BY <2>1, <2>2, <2>3, <2>4, <2>5 DEF MainInv
  <1>6. CASE CloseLimiter
    <2>1. MainTypes'
      BY <1>1, <1>6 DEF CloseLimiter, MainTypes, Phases, Running, Deferred, Exits
    <2>2. MainFlags'
      BY <1>1, <1>6, FlagsMoved DEF CloseLimiter
    <2>3. Inputs'
      BY <1>1, <1>6, InputsDropped DEF CloseLimiter
    <2>4. Behind'
      BY <1>1, <1>6 DEF CloseLimiter, Behind, Stopping, Deferred, Exits
    <2>5. LoaderInv' /\ Certified'
      <3>1. UNCHANGED loaderVars
        BY <1>6 DEF CloseLimiter
      <3>2. LoaderInv'
        BY <1>1, <3>1, LoaderStepInv
      <3>3. Certified'
        BY <1>1, <1>6, <3>1 DEF CloseLimiter, loaderVars, Certified, Running, Deferred, Exits
      <3> QED
        BY <3>2, <3>3
    <2> QED
      BY <2>1, <2>2, <2>3, <2>4, <2>5 DEF MainInv
  <1>7. CASE JoinJanitor
    <2>1. MainTypes'
      BY <1>1, <1>7 DEF JoinJanitor, MainTypes, Phases, Running, Deferred, Exits
    <2>2. MainFlags'
      BY <1>1, <1>7, FlagsMoved DEF JoinJanitor
    <2>3. Inputs'
      BY <1>1, <1>7, InputsDropped DEF JoinJanitor
    <2>4. Behind'
      BY <1>1, <1>7 DEF JoinJanitor, Behind, Stopping, Deferred, Exits
    <2>5. LoaderInv' /\ Certified'
      <3>1. UNCHANGED loaderVars
        BY <1>7 DEF JoinJanitor
      <3>2. LoaderInv'
        BY <1>1, <3>1, LoaderStepInv
      <3>3. Certified'
        BY <1>1, <1>7, <3>1 DEF JoinJanitor, loaderVars, Certified, Running, Deferred, Exits
      <3> QED
        BY <3>2, <3>3
    <2> QED
      BY <2>1, <2>2, <2>3, <2>4, <2>5 DEF MainInv
  <1>8. CASE StopReloader
    <2>1. MainTypes'
      BY <1>1, <1>8 DEF StopReloader, MainTypes, Phases, Running, Deferred, Exits
    <2>2. MainFlags'
      BY <1>1, <1>8, FlagsMoved DEF StopReloader
    <2>3. Inputs'
      BY <1>1, <1>8, InputsDropped DEF StopReloader
    <2>4. Behind'
      BY <1>1, <1>8 DEF StopReloader, Behind, Stopping, Deferred, Exits
    <2>5. LoaderInv' /\ Certified'
      <3>1. UNCHANGED loaderVars
        BY <1>8 DEF StopReloader
      <3>2. LoaderInv'
        BY <1>1, <3>1, LoaderStepInv
      <3>3. Certified'
        BY <1>1, <1>8, <3>1 DEF StopReloader, loaderVars, Certified, Running, Deferred, Exits
      <3> QED
        BY <3>2, <3>3
    <2> QED
      BY <2>1, <2>2, <2>3, <2>4, <2>5 DEF MainInv
  <1>9. CASE Return
    <2>1. MainTypes'
      BY <1>1, <1>9 DEF Return, MainTypes, Phases, Running, Deferred, Exits
    <2>2. MainFlags'
      BY <1>1, <1>9, FlagsMoved DEF Return
    <2>3. Inputs'
      BY <1>1, <1>9, InputsDropped DEF Return
    <2>4. Behind'
      BY <1>1, <1>9 DEF Return, Behind, Stopping, Deferred, Exits
    <2>5. LoaderInv' /\ Certified'
      <3>1. UNCHANGED loaderVars
        BY <1>9 DEF Return
      <3>2. LoaderInv'
        BY <1>1, <3>1, LoaderStepInv
      <3>3. Certified'
        BY <1>1, <1>9, <3>1 DEF Return, loaderVars, Certified, Running, Deferred, Exits
      <3> QED
        BY <3>2, <3>3
    <2> QED
      BY <2>1, <2>2, <2>3, <2>4, <2>5 DEF MainInv
  <1>10. CASE StopCerts
    <2>1. MainTypes'
      BY <1>1, <1>10 DEF StopCerts, MainTypes, Phases, Running, Deferred, Exits
    <2>2. MainFlags'
      BY <1>1, <1>10, FlagsMoved DEF StopCerts
    <2>3. Inputs'
      BY <1>1, <1>10, InputsDropped DEF StopCerts
    <2>4. Behind'
      BY <1>1, <1>10 DEF StopCerts, Behind, Stopping, Deferred, Exits
    <2>5. LoaderInv'
      <3>1. LoaderStop \/ UNCHANGED loaderVars
        BY <1>10 DEF StopCerts
      <3> QED
        BY <1>1, <3>1, LoaderStepInv
    <2>6. Certified'
      BY <1>1, <1>10 DEF StopCerts, LoaderStop, loaderVars, Certified, Running, Deferred, Exits
    <2> QED
      BY <2>1, <2>2, <2>3, <2>4, <2>5, <2>6 DEF MainInv
  <1> QED
    BY <1>2, <1>3, <1>4, <1>5, <1>6, <1>7, <1>8, <1>9, <1>10

\* The server's goroutine, the janitor and the one who sends the signal.
LEMMA ServerStepInv ==
    ASSUME MainInv, phase \notin Exits, ServerStep \/ JanitorReturns \/ Signal \/ CleanupPanics
    PROVE  MainInv'
  <1> USE DEF inputVars, serverVars, partVars
  <1>1. MainTypes /\ MainFlags /\ Inputs /\ Behind /\ Certified /\ LoaderInv
    BY DEF MainInv
  <1>2. CASE Bound
    <2>1. MainTypes'
      BY <1>1, <1>2 DEF Bound, MainTypes, Phases, Running, Deferred, Exits
    <2>2. MainFlags'
      BY <1>1, <1>2, FlagsMoved DEF Bound
    <2>3. Inputs'
      BY <1>1, <1>2, InputsDropped DEF Bound
    <2>4. Behind'
      BY <1>1, <1>2 DEF Bound, Behind, Stopping, Deferred, Exits
    <2>5. LoaderInv' /\ Certified'
      <3>1. UNCHANGED loaderVars
        BY <1>2 DEF Bound
      <3>2. LoaderInv'
        BY <1>1, <3>1, LoaderStepInv
      <3>3. Certified'
        BY <1>1, <1>2, <3>1 DEF Bound, loaderVars, Certified, Running, Deferred, Exits
      <3> QED
        BY <3>2, <3>3
    <2> QED
      BY <2>1, <2>2, <2>3, <2>4, <2>5 DEF MainInv
  <1>3. CASE ServeFails
    <2>1. MainTypes'
      BY <1>1, <1>3 DEF ServeFails, MainTypes, Phases, Running, Deferred, Exits
    <2>2. MainFlags'
      BY <1>1, <1>3, FlagsMoved DEF ServeFails
    <2>3. Inputs'
      BY <1>1, <1>3, InputsDropped DEF ServeFails
    <2>4. Behind'
      BY <1>1, <1>3 DEF ServeFails, Behind, Stopping, Deferred, Exits
    <2>5. LoaderInv' /\ Certified'
      <3>1. UNCHANGED loaderVars
        BY <1>3 DEF ServeFails
      <3>2. LoaderInv'
        BY <1>1, <3>1, LoaderStepInv
      <3>3. Certified'
        BY <1>1, <1>3, <3>1 DEF ServeFails, loaderVars, Certified, Running, Deferred, Exits
      <3> QED
        BY <3>2, <3>3
    <2> QED
      BY <2>1, <2>2, <2>3, <2>4, <2>5 DEF MainInv
  <1>4. CASE ServeCloses
    <2>1. MainTypes'
      BY <1>1, <1>4 DEF ServeCloses, MainTypes, Phases, Running, Deferred, Exits
    <2>2. MainFlags'
      BY <1>1, <1>4, FlagsMoved DEF ServeCloses
    <2>3. Inputs'
      BY <1>1, <1>4, InputsDropped DEF ServeCloses
    <2>4. Behind'
      BY <1>1, <1>4 DEF ServeCloses, Behind, Stopping, Deferred, Exits
    <2>5. LoaderInv' /\ Certified'
      <3>1. UNCHANGED loaderVars
        BY <1>4 DEF ServeCloses
      <3>2. LoaderInv'
        BY <1>1, <3>1, LoaderStepInv
      <3>3. Certified'
        BY <1>1, <1>4, <3>1 DEF ServeCloses, loaderVars, Certified, Running, Deferred, Exits
      <3> QED
        BY <3>2, <3>3
    <2> QED
      BY <2>1, <2>2, <2>3, <2>4, <2>5 DEF MainInv
  <1>5. CASE JanitorReturns
    <2>1. MainTypes'
      BY <1>1, <1>5 DEF JanitorReturns, MainTypes, Phases, Running, Deferred, Exits
    <2>2. MainFlags'
      BY <1>1, <1>5, FlagsMoved DEF JanitorReturns
    <2>3. Inputs'
      BY <1>1, <1>5, InputsDropped DEF JanitorReturns
    <2>4. Behind'
      BY <1>1, <1>5 DEF JanitorReturns, Behind, Stopping, Deferred, Exits
    <2>5. LoaderInv' /\ Certified'
      <3>1. UNCHANGED loaderVars
        BY <1>5 DEF JanitorReturns
      <3>2. LoaderInv'
        BY <1>1, <3>1, LoaderStepInv
      <3>3. Certified'
        BY <1>1, <1>5, <3>1 DEF JanitorReturns, loaderVars, Certified, Running, Deferred, Exits
      <3> QED
        BY <3>2, <3>3
    <2> QED
      BY <2>1, <2>2, <2>3, <2>4, <2>5 DEF MainInv
  <1>6. CASE Signal
    <2>1. MainTypes'
      BY <1>1, <1>6 DEF Signal, MainTypes, Phases, Running, Deferred, Exits
    <2>2. MainFlags'
      BY <1>1, <1>6, FlagsMoved DEF Signal
    <2>3. Inputs'
      BY <1>1, <1>6, InputsDropped DEF Signal
    <2>4. Behind'
      BY <1>1, <1>6 DEF Signal, Behind, Stopping, Deferred, Exits
    <2>5. LoaderInv' /\ Certified'
      <3>1. UNCHANGED loaderVars
        BY <1>6 DEF Signal
      <3>2. LoaderInv'
        BY <1>1, <3>1, LoaderStepInv
      <3>3. Certified'
        BY <1>1, <1>6, <3>1 DEF Signal, loaderVars, Certified, Running, Deferred, Exits
      <3> QED
        BY <3>2, <3>3
    <2> QED
      BY <2>1, <2>2, <2>3, <2>4, <2>5 DEF MainInv
  <1>7. CASE CleanupPanics
    <2>1. MainTypes'
      BY <1>1, <1>7 DEF CleanupPanics, MainTypes, Phases, Running, Deferred, Exits
    <2>2. MainFlags'
      BY <1>1, <1>7, FlagsMoved DEF CleanupPanics
    <2>3. Inputs'
      BY <1>1, <1>7, InputsDropped DEF CleanupPanics
    <2>4. Behind'
      BY <1>1, <1>7 DEF CleanupPanics, Behind, Stopping, Deferred, Exits
    <2>5. LoaderInv' /\ Certified'
      <3>1. UNCHANGED loaderVars
        BY <1>7 DEF CleanupPanics
      <3>2. LoaderInv'
        BY <1>1, <3>1, LoaderStepInv
      <3>3. Certified'
        BY <1>1, <1>7, <3>1 DEF CleanupPanics, loaderVars, Certified, Running, Deferred, Exits
      <3> QED
        BY <3>2, <3>3
    <2> QED
      BY <2>1, <2>2, <2>3, <2>4, <2>5 DEF MainInv
  <1> QED
    BY <1>2, <1>3, <1>4, <1>5, <1>6, <1>7 DEF ServerStep

\* A request comes or is answered.
LEMMA RequestStepInv ==
    ASSUME MainInv, NEW q \in Requests, Arrive(q) \/ Finish(q)
    PROVE  MainInv'
  <1> USE DEF inputVars, serverVars, partVars
  <1>1. MainTypes /\ MainFlags /\ Inputs /\ Behind /\ Certified /\ LoaderInv
    BY DEF MainInv
  <1>2. CASE Arrive(q)
    <2>1. MainTypes'
      BY <1>1, <1>2 DEF Arrive, MainTypes, Phases, Running, Deferred, Exits
    <2>2. MainFlags'
      BY <1>1, <1>2, FlagsMoved DEF Arrive
    <2>3. Inputs'
      BY <1>1, <1>2, InputsDropped DEF Arrive
    <2>4. Behind'
      BY <1>1, <1>2 DEF Arrive, Behind, Stopping, Deferred, Exits
    <2>5. LoaderInv' /\ Certified'
      <3>1. UNCHANGED loaderVars
        BY <1>2 DEF Arrive
      <3>2. LoaderInv'
        BY <1>1, <3>1, LoaderStepInv
      <3>3. Certified'
        BY <1>1, <1>2, <3>1 DEF Arrive, loaderVars, Certified, Running, Deferred, Exits
      <3> QED
        BY <3>2, <3>3
    <2> QED
      BY <2>1, <2>2, <2>3, <2>4, <2>5 DEF MainInv
  <1>3. CASE Finish(q)
    <2>1. MainTypes'
      BY <1>1, <1>3 DEF Finish, MainTypes, Phases, Running, Deferred, Exits
    <2>2. MainFlags'
      BY <1>1, <1>3, FlagsMoved DEF Finish
    <2>3. Inputs'
      BY <1>1, <1>3, InputsDropped DEF Finish
    <2>4. Behind'
      BY <1>1, <1>3 DEF Finish, Behind, Stopping, Deferred, Exits
    <2>5. LoaderInv' /\ Certified'
      <3>1. UNCHANGED loaderVars
        BY <1>3 DEF Finish
      <3>2. LoaderInv'
        BY <1>1, <3>1, LoaderStepInv
      <3>3. Certified'
        BY <1>1, <1>3, <3>1 DEF Finish, loaderVars, Certified, Running, Deferred, Exits
      <3> QED
        BY <3>2, <3>3
    <2> QED
      BY <2>1, <2>2, <2>3, <2>4, <2>5 DEF MainInv
  <1> QED
    BY <1>2, <1>3

\* The certificate loader and those who change its files.
LEMMA CertStepInv ==
    ASSUME MainInv, CertsMatter, Alone,
           (\E w \in Loaders : Load(w)) \/ AddWatch \/ WatchWork \/ FileWork \/ UNCHANGED loaderVars
    PROVE  MainInv'
  <1> USE DEF Alone, inputVars, serverVars, partVars
  <1>1. MainTypes /\ MainFlags /\ Inputs /\ Behind /\ Certified /\ LoaderInv
    BY DEF MainInv
  <1>2. LoaderInv' /\ Loading
    BY <1>1, LoadStepInv, LoaderStepInv
  <1>3. MainTypes' /\ Behind'
    BY <1>1 DEF MainTypes, Behind
  <1>4. MainFlags'
    BY <1>1, FlagsMoved
  <1>5. Inputs'
    BY <1>1, InputsDropped
  <1>6. Certified'
    BY <1>1, <1>2 DEF Certified, Loading
  <1> QED
    BY <1>2, <1>3, <1>4, <1>5, <1>6 DEF MainInv

\* Every step.
LEMMA MainStepInv == MainInv /\ [Next]_vars => MainInv'
  <1> SUFFICES ASSUME MainInv, [Next]_vars PROVE MainInv'
    OBVIOUS
  <1>1. CASE MainStep
    BY <1>1, StartupStepInv, RunStepInv DEF MainStep
  <1>2. CASE phase \notin Exits /\ (ServerStep \/ JanitorReturns \/ Signal \/ CleanupPanics)
    BY <1>2, ServerStepInv
  <1>3. CASE \E q \in Requests : Arrive(q) \/ Finish(q)
    BY <1>3, RequestStepInv
  <1>4. CASE NewStep \/ WatchStep \/ (\E w \in Timers : LoadStep(w)) \/ (CertsMatter /\ FileWork /\ Alone)
    <2>1. /\ CertsMatter /\ Alone
          /\ (\E w \in Loaders : Load(w)) \/ AddWatch \/ WatchWork \/ FileWork \/ UNCHANGED loaderVars
      BY <1>4 DEF NewStep, WatchStep, LoadStep, Loaders
    <2> QED
      BY <2>1, CertStepInv
  <1>5. CASE UNCHANGED vars
    <2> USE DEF vars, inputVars, serverVars, partVars
    <2>1. MainTypes /\ MainFlags /\ Inputs /\ Behind /\ Certified /\ LoaderInv
      BY DEF MainInv
    <2>2. LoaderInv'
      BY <1>5, <2>1, LoaderStepInv
    <2>3. MainTypes' /\ Behind' /\ Certified'
      BY <1>5, <2>1 DEF MainTypes, Behind, Certified, loaderVars
    <2>4. MainFlags'
      BY <1>5, <2>1, FlagsMoved
    <2>5. Inputs'
      BY <1>5, <2>1, InputsDropped
    <2> QED
      BY <2>2, <2>3, <2>4, <2>5 DEF MainInv
  <1> QED
    BY <1>1, <1>2, <1>3, <1>4, <1>5 DEF Next

\* The inductive invariant.
THEOREM LifecycleInvariant == Spec => []MainInv
  BY MainInit, MainStepInv, PTL DEF Spec

\* Sets of at most one.
LEMMA AtMostOne ==
    ASSUME NEW S, Single(S)
    PROVE  Cardinality(S) <= 1
  <1>1. CASE S = {}
    BY <1>1, FS_EmptySet
  <1>2. ASSUME NEW x \in S PROVE Cardinality(S) <= 1
    <2>1. S = {x}
      BY DEF Single
    <2> QED
      BY <2>1, FS_Singleton
  <1> QED
    BY <1>1, <1>2

\* Exit status 0 means a graceful stop, and a handshake finds a whole certificate (main.go,
\* Gateway.Run, tlsutil.CertLoader).
THEOREM LifecycleCleanExit == Spec => []CleanExit
  <1>1. MainInv => CleanExit
    <2> SUFFICES ASSUME MainInv PROVE CleanExit
      OBVIOUS
    <2>1. MainTypes /\ MainFlags /\ Inputs /\ Behind /\ Certified /\ LoaderTypes /\ LoaderFlags /\ Pairs
      BY DEF MainInv, LoaderInv
    <2>2. Cardinality(raw) <= 1 /\ Cardinality(cfg) <= 1 /\ Cardinality(table) <= 1
      BY <2>1, AtMostOne DEF Inputs
    <2>3. TypeOK
      BY <2>1, <2>2 DEF TypeOK, MainTypes, MainFlags, LoaderTypes, LoaderFlags
    <2>4. phase = "exit0" =>
            /\ signalled /\ inflight = {} /\ spc # "serving"
            /\ janitor = "done" /\ reloader = "stopped" /\ log \notin {"file", "doomed"}
            /\ tls => stopped
      BY <2>1 DEF Behind, Certified
    <2>5. tls /\ phase \in Running => served # -1 /\ Whole(served)
      BY <2>1 DEF Certified, Pairs
    <2> QED
      BY <2>3, <2>4, <2>5 DEF CleanExit
  <1> QED
    BY <1>1, LifecycleInvariant, PTL

\* What AcceptedIsSound asks of the configuration c read from r.
Sound(r, c) ==
    /\ PartPanics(c) => BadMetricsPattern(c) \/ BadBackups(c)
    /\ applyDefaults(c) = {c}
    /\ c.idleTTL > 0 /\ c.cleanup > 0
    /\ r.idleTTL <= 0 /\ "rps" \notin c.nan /\ 10 * ((c.burst * 1000) \div c.rps) <= MaxDuration
        => c.idleTTL * c.rps >= c.burst * 1000

LEMMA AcceptedSound ==
    ASSUME NEW r \in ParsedConfig, NEW c \in applyDefaults(r), validate(c)
    PROVE  Sound(r, c)
  <1>1. Defaulted(r, c)
    BY DefaultsApplied
  <1> DEFINE p == plainDefaults(r)
  <1>2. p.rps \in Int /\ p.burst \in Int /\ p.window \in Int
    BY NumbersStay
  <1>3. {"rps", "burst", "window", "nan"} \subseteq DOMAIN r /\ r.idleTTL \in Int
    BY SMT DEF ParsedConfig
  <1> HIDE DEF p
  <1>4. /\ c["rps"] = p["rps"] /\ c["burst"] = p["burst"] /\ c["window"] = p["window"] /\ c["nan"] = p["nan"]
        /\ c.idleTTL \in IF r.idleTTL > 0 THEN {r.idleTTL} ELSE DefaultTTLs(p)
    BY <1>1, <1>3 DEF Defaulted, p
  <1>5. c.rps = p.rps /\ c.burst = p.burst /\ c.window = p.window /\ c.nan = p.nan
    BY <1>4
  <1>6. ~AtMost(c, "rps", 0) /\ c.burst > 0 /\ c.window >= 1
    BY DEF validate, validRateLimit, validBreaker
  <1>7. PartPanics(c) => BadMetricsPattern(c) \/ BadBackups(c)
    BY <1>2, <1>5, <1>6 DEF PartPanics
  <1>8. ASSUME r.idleTTL <= 0, "rps" \notin c.nan, 10 * ((c.burst * 1000) \div c.rps) <= MaxDuration
        PROVE  c.idleTTL * c.rps >= c.burst * 1000
    <2>1. c.idleTTL \in DefaultTTLs(p)
      BY <1>3, <1>4, <1>8
    <2>2. 10 * ((p.burst * 1000) \div p.rps) <= MaxDuration
      BY <1>5, <1>8
    <2>3. Above(p, "rps", 0)
      BY <1>2, <1>5, <1>6, <1>8 DEF AtMost, Above
    <2>4. c.idleTTL * p.rps >= p.burst * 1000
      BY <1>2, <1>5, <1>6, <2>1, <2>2, <2>3, TTLCoversRefill
    <2> QED
      BY <1>5, <2>4
  <1>9. c.idleTTL > 0 /\ c.cleanup > 0
    BY <1>1 DEF Defaulted
  <1> QED
    BY <1>7, <1>8, <1>9, DefaultsIdempotent DEF Sound

\* applyDefaults and validate: no part panics on a configuration that config.Load accepts, but
\* for its metrics path or its negative max_backups; defaults are stable, the janitor's times
\* positive, and a derived idle_ttl is long enough for the bucket to refill.
THEOREM LifecycleAcceptedIsSound == Spec => []AcceptedIsSound
  <1>1. MainInv => AcceptedIsSound
    <2> SUFFICES ASSUME MainInv, NEW r \in raw, NEW c \in cfg
                 PROVE  Sound(r, c)
      BY DEF AcceptedIsSound, Sound
    <2>1. r \in ParsedConfig /\ c \in applyDefaults(r) /\ validate(c)
      BY LifecycleAssumption DEF MainInv, Inputs
    <2> QED
      BY <2>1, AcceptedSound
  <1> QED
    BY <1>1, LifecycleInvariant, PTL

-----------------------------------------------------------------------------
\* A set of natural numbers that is not empty has a least one.
LEMMA Least ==
    ASSUME NEW S \in SUBSET Nat, S # {}
    PROVE  \E m \in S : \A x \in S : m <= x
  <1> DEFINE R == OpToRel(<, Nat)
  <1>1. IsWellFoundedOn(R, Nat)
    BY NatLessThanWellFounded
  <1>2. \A x, y \in Nat : <<y, x>> \in R <=> y < x
    BY DEF OpToRel
  <1> HIDE DEF R
  <1>3. PICK m \in S : \A x \in S : ~(<<x, m>> \in R)
    BY <1>1, WFMin
  <1>4. ASSUME NEW x \in S PROVE m <= x
    <2>1. m \in Nat /\ x \in Nat /\ ~(<<x, m>> \in R)
      BY <1>3
    <2> QED
      BY <2>1, <1>2
  <1> QED
    BY <1>4

\* The test of routing.MatchesPrefix is the reference's: the prefix is a beginning of the
\* path that ends where a segment does.
LEMMA MatchIsBeginning ==
    ASSUME NEW path \in Seq(STRING), NEW prefix \in Seq(STRING)
    PROVE  MatchesPrefix(path, prefix) <=> prefix \in Beginnings(path)
  <1>1. ASSUME MatchesPrefix(path, prefix) PROVE prefix \in Beginnings(path)
    <2> DEFINE n == Len(prefix)
    <2>1. /\ n \in 1..Len(path) /\ \A i \in 1..n : path[i] = prefix[i]
          /\ n = Len(path) \/ path[n] = "/" \/ path[n + 1] = "/"
      BY <1>1 DEF MatchesPrefix, HasPrefix
    <2>2. prefix = SubSeq(path, 1, n)
      BY <2>1
    <2> QED
      BY <2>1, <2>2 DEF Beginnings
  <1>2. ASSUME prefix \in Beginnings(path) PROVE MatchesPrefix(path, prefix)
    <2>1. PICK n \in 1..Len(path) : /\ n = Len(path) \/ path[n] = "/" \/ path[n + 1] = "/"
                                    /\ prefix = SubSeq(path, 1, n)
      BY <1>2 DEF Beginnings
    <2>2. Len(prefix) = n /\ prefix # <<>> /\ \A i \in 1..n : prefix[i] = path[i]
      BY <2>1
    <2> QED
      BY <2>1, <2>2 DEF MatchesPrefix, HasPrefix
  <1> QED
    BY <1>1, <1>2

\* Two prefixes of a path that are equally long are the same.
LEMMA EquallyLong ==
    ASSUME NEW path \in Seq(STRING), NEW p \in Seq(STRING), NEW q \in Seq(STRING),
           MatchesPrefix(path, p), MatchesPrefix(path, q), Len(p) = Len(q)
    PROVE  p = q
  <1>1. \A i \in 1..Len(p) : p[i] = q[i]
    BY DEF MatchesPrefix, HasPrefix
  <1> QED
    BY <1>1

\* A table that validRoutes accepts: no two routes have the same prefix.
Table(R) ==
    /\ Len(R) \in Nat /\ DOMAIN R = 1..Len(R)
    /\ \A i \in 1..Len(R) : R[i].PathPrefix \in Seq(STRING)
    /\ \A i, j \in 1..Len(R) : R[i].PathPrefix = R[j].PathPrefix => i = j

Hits(R, path, n) == {k \in 1..n : MatchesPrefix(path, R[k].PathPrefix)}

\* k is the best of the first n routes.
BestOf(R, path, n, k) ==
    k \in Hits(R, path, n) /\ \A j \in Hits(R, path, n) : Len(R[j].PathPrefix) <= Len(R[k].PathPrefix)

\* The loops of limitsForPath and of routeLogLevel after their turns.
LimitScan(R, path, n, f) ==
    f = [i \in 0..n |-> IF i = 0 THEN [prefix |-> <<>>, override |-> {}]
                        ELSE limitTurn(path, f[i - 1], R[i])]

LevelScan(R, path, n, f) ==
    f = [i \in 0..n |-> IF i = 0 THEN [prefix |-> <<>>, of |-> {}]
                        ELSE levelTurn(path, f[i - 1], R[i])]

\* The recursion of limitsForPath defines a function.
LEMMA LimitScanExists ==
    ASSUME NEW R, NEW path, NEW n \in Nat
    PROVE  \E f : LimitScan(R, path, n, f)
  <1> DEFINE B == {k \in Nat : ~\E f : LimitScan(R, path, k, f)}
  <1>1. SUFFICES ASSUME B # {} PROVE FALSE
    OBVIOUS
  <1>2. PICK m \in B : \A x \in B : m <= x
    <2>1. B \in SUBSET Nat
      OBVIOUS
    <2> HIDE DEF B
    <2> QED
      BY <2>1, <1>1, Least
  <1>3. CASE m = 0
    <2>1. LimitScan(R, path, m, [i \in 0..0 |-> [prefix |-> <<>>, override |-> {}]])
      BY <1>3 DEF LimitScan
    <2> QED
      BY <2>1
  <1>4. CASE m # 0
    <2>1. m \in Nat /\ m - 1 \in Nat /\ ~(m <= m - 1)
      BY <1>4
    <2>2. PICK f : LimitScan(R, path, m - 1, f)
      BY <1>2, <2>1
    <2> DEFINE g == [i \in 0..m |-> IF i = m THEN limitTurn(path, f[i - 1], R[i]) ELSE f[i]]
    <2>3. ASSUME NEW i \in 0..m
          PROVE  g[i] = IF i = 0 THEN [prefix |-> <<>>, override |-> {}]
                        ELSE limitTurn(path, g[i - 1], R[i])
      <3>1. i # 0 => i - 1 \in 0..m /\ i - 1 # m
        BY <2>1
      <3>2. i # 0 => g[i - 1] = f[i - 1]
        BY <3>1
      <3>3. i # m => i \in 0..(m - 1)
        BY <2>1
      <3>4. i # m => f[i] = IF i = 0 THEN [prefix |-> <<>>, override |-> {}]
                            ELSE limitTurn(path, f[i - 1], R[i])
        BY <2>2, <3>3 DEF LimitScan
      <3> QED
        BY <1>4, <3>2, <3>4
    <2>4. LimitScan(R, path, m, g)
      <3>1. g = [i \in 0..m |-> g[i]]
        OBVIOUS
      <3> HIDE DEF g
      <3> QED
        BY <3>1, <2>3, Zenon DEF LimitScan
    <2> QED
      BY <2>4
  <1> QED
    BY <1>3, <1>4

\* The recursion of routeLogLevel defines a function.
LEMMA LevelScanExists ==
    ASSUME NEW R, NEW path, NEW n \in Nat
    PROVE  \E f : LevelScan(R, path, n, f)
  <1> DEFINE B == {k \in Nat : ~\E f : LevelScan(R, path, k, f)}
  <1>1. SUFFICES ASSUME B # {} PROVE FALSE
    OBVIOUS
  <1>2. PICK m \in B : \A x \in B : m <= x
    <2>1. B \in SUBSET Nat
      OBVIOUS
    <2> HIDE DEF B
    <2> QED
      BY <2>1, <1>1, Least
  <1>3. CASE m = 0
    <2>1. LevelScan(R, path, m, [i \in 0..0 |-> [prefix |-> <<>>, of |-> {}]])
      BY <1>3 DEF LevelScan
    <2> QED
      BY <2>1
  <1>4. CASE m # 0
    <2>1. m \in Nat /\ m - 1 \in Nat /\ ~(m <= m - 1)
      BY <1>4
    <2>2. PICK f : LevelScan(R, path, m - 1, f)
      BY <1>2, <2>1
    <2> DEFINE g == [i \in 0..m |-> IF i = m THEN levelTurn(path, f[i - 1], R[i]) ELSE f[i]]
    <2>3. ASSUME NEW i \in 0..m
          PROVE  g[i] = IF i = 0 THEN [prefix |-> <<>>, of |-> {}]
                        ELSE levelTurn(path, g[i - 1], R[i])
      <3>1. i # 0 => i - 1 \in 0..m /\ i - 1 # m
        BY <2>1
      <3>2. i # 0 => g[i - 1] = f[i - 1]
        BY <3>1
      <3>3. i # m => i \in 0..(m - 1)
        BY <2>1
      <3>4. i # m => f[i] = IF i = 0 THEN [prefix |-> <<>>, of |-> {}]
                            ELSE levelTurn(path, f[i - 1], R[i])
        BY <2>2, <3>3 DEF LevelScan
      <3> QED
        BY <1>4, <3>2, <3>4
    <2>4. LevelScan(R, path, m, g)
      <3>1. g = [i \in 0..m |-> g[i]]
        OBVIOUS
      <3> HIDE DEF g
      <3> QED
        BY <3>1, <2>3, Zenon DEF LevelScan
    <2> QED
      BY <2>4
  <1> QED
    BY <1>3, <1>4

\* The best of one more route.
LEMMA OneMore ==
    ASSUME NEW R, Table(R), NEW path \in Seq(STRING), NEW n \in 1..Len(R), NEW prefix,
           \/ prefix = <<>> /\ Hits(R, path, n - 1) = {}
           \/ \E k \in 1..Len(R) : BestOf(R, path, n - 1, k) /\ prefix = R[k].PathPrefix
    PROVE  /\ Better(path, R[n], prefix) => BestOf(R, path, n, n)
           /\ ~Better(path, R[n], prefix) /\ Hits(R, path, n - 1) = {} => Hits(R, path, n) = {}
           /\ ~Better(path, R[n], prefix) =>
                \A k \in 1..Len(R) : BestOf(R, path, n - 1, k) => BestOf(R, path, n, k)
  <1>1. /\ \A i \in 1..Len(R) : R[i].PathPrefix \in Seq(STRING) /\ Len(R[i].PathPrefix) \in Nat
        /\ Len(R) \in Nat
    BY DEF Table
  <1> DEFINE hit(k) == MatchesPrefix(path, R[k].PathPrefix)
             len(k) == Len(R[k].PathPrefix)
  <1>2. \A k \in 1..Len(R) : hit(k) => len(k) > 0
    BY <1>1 DEF MatchesPrefix
  <1>3. Better(path, R[n], prefix) <=> hit(n) /\ len(n) > Len(prefix)
    BY DEF Better
  <1>4. Hits(R, path, n) = Hits(R, path, n - 1) \cup (IF hit(n) THEN {n} ELSE {})
    BY <1>1 DEF Hits
  <1>5. \A k \in Hits(R, path, n - 1) : k \in 1..Len(R)
    BY <1>1 DEF Hits
  <1>6. \A k \in 1..Len(R) : BestOf(R, path, n - 1, k) /\ prefix = R[k].PathPrefix => Len(prefix) = len(k)
    OBVIOUS
  <1>7. Len(<<>>) = 0
    OBVIOUS
  <1>8. \A i \in 1..Len(R) : len(i) \in Nat
    BY <1>1
  <1> HIDE DEF hit, len
  <1>9. \A k, m \in 1..Len(R) : BestOf(R, path, n - 1, k) /\ BestOf(R, path, n - 1, m) => len(k) = len(m)
    BY <1>8 DEF BestOf, len
  <1>10. CASE prefix = <<>> /\ Hits(R, path, n - 1) = {}
    BY <1>2, <1>3, <1>4, <1>7, <1>8, <1>10 DEF BestOf, len
  <1>11. CASE \E k \in 1..Len(R) : BestOf(R, path, n - 1, k) /\ prefix = R[k].PathPrefix
    <2>1. PICK k \in 1..Len(R) : BestOf(R, path, n - 1, k) /\ prefix = R[k].PathPrefix
      BY <1>11
    <2>2. k \in Hits(R, path, n - 1) /\ \A j \in Hits(R, path, n - 1) : len(j) <= len(k)
      BY <2>1 DEF BestOf, len
    <2>3. Better(path, R[n], prefix) <=> hit(n) /\ len(n) > len(k)
      BY <1>3, <1>6, <2>1
    <2>4. ASSUME Better(path, R[n], prefix) PROVE BestOf(R, path, n, n)
      <3>1. n \in Hits(R, path, n)
        BY <1>4, <2>3, <2>4
      <3>2. \A j \in Hits(R, path, n) : len(j) <= len(n)
        BY <1>4, <1>5, <1>8, <2>2, <2>3, <2>4
      <3> QED
        BY <3>1, <3>2 DEF BestOf, len
    <2>5. ASSUME ~Better(path, R[n], prefix), NEW m \in 1..Len(R), BestOf(R, path, n - 1, m)
          PROVE  BestOf(R, path, n, m)
      <3>1. m \in Hits(R, path, n - 1) /\ len(m) = len(k)
        BY <1>9, <2>1, <2>5 DEF BestOf
      <3>2. \A j \in Hits(R, path, n) : len(j) <= len(m)
        BY <1>4, <1>5, <1>8, <2>2, <2>3, <2>5, <3>1
      <3> QED
        BY <1>4, <3>1, <3>2 DEF BestOf, len
    <2> QED
      BY <2>2, <2>4, <2>5
  <1> QED
    BY <1>10, <1>11

\* What the limiter's loop knows after n turns, and the one of the access log.
Limited(R, path, n, best) ==
    /\ \/ best.prefix = <<>> /\ Hits(R, path, n) = {}
       \/ \E k \in 1..Len(R) : /\ BestOf(R, path, n, k) /\ best.prefix = R[k].PathPrefix
                               /\ R[k].RateOverride # {} => best.override = R[k].RateOverride
    /\ best.override # {} => \E j \in Hits(R, path, n) : R[j].RateOverride = best.override

Levelled(R, path, n, best) ==
    \/ best.prefix = <<>> /\ Hits(R, path, n) = {} /\ best.of = {}
    \/ \E k \in 1..Len(R) : BestOf(R, path, n, k) /\ best.prefix = R[k].PathPrefix /\ best.of = {R[k]}

\* One turn.
LEMMA LimitTurn ==
    ASSUME NEW R, Table(R), NEW path \in Seq(STRING), NEW n \in 1..Len(R), NEW best,
           Limited(R, path, n - 1, best)
    PROVE  Limited(R, path, n, limitTurn(path, best, R[n]))
  <1> DEFINE next == limitTurn(path, best, R[n])
  <1>0. \/ best.prefix = <<>> /\ Hits(R, path, n - 1) = {}
        \/ \E k \in 1..Len(R) : BestOf(R, path, n - 1, k) /\ best.prefix = R[k].PathPrefix
    BY DEF Limited
  <1>1. /\ Better(path, R[n], best.prefix) => BestOf(R, path, n, n)
        /\ ~Better(path, R[n], best.prefix) /\ Hits(R, path, n - 1) = {} => Hits(R, path, n) = {}
        /\ ~Better(path, R[n], best.prefix) =>
             \A k \in 1..Len(R) : BestOf(R, path, n - 1, k) => BestOf(R, path, n, k)
    BY <1>0, OneMore
  <1>2. Hits(R, path, n - 1) \subseteq Hits(R, path, n)
    BY DEF Hits, Table
  <1>3. CASE Better(path, R[n], best.prefix)
    <2>1. /\ next.prefix = R[n].PathPrefix
          /\ next.override = IF R[n].RateOverride # {} THEN R[n].RateOverride ELSE best.override
      BY <1>3 DEF limitTurn
    <2>2. n \in Hits(R, path, n) /\ BestOf(R, path, n, n)
      BY <1>1, <1>3 DEF BestOf
    <2> HIDE DEF next
    <2>3. Limited(R, path, n, next)
      BY <1>2, <2>1, <2>2 DEF Limited
    <2> QED
      BY <2>3 DEF next
  <1>4. CASE ~Better(path, R[n], best.prefix)
    <2>1. next = best
      BY <1>4 DEF limitTurn
    <2> HIDE DEF next
    <2>2. Limited(R, path, n, best)
      BY <1>1, <1>2, <1>4 DEF Limited
    <2> QED
      BY <2>1, <2>2 DEF next
  <1> QED
    BY <1>3, <1>4

\* One turn of the access log's.
LEMMA LevelTurn ==
    ASSUME NEW R, Table(R), NEW path \in Seq(STRING), NEW n \in 1..Len(R), NEW best,
           Levelled(R, path, n - 1, best)
    PROVE  Levelled(R, path, n, levelTurn(path, best, R[n]))
  <1> DEFINE next == levelTurn(path, best, R[n])
  <1>0. \/ best.prefix = <<>> /\ Hits(R, path, n - 1) = {}
        \/ \E k \in 1..Len(R) : BestOf(R, path, n - 1, k) /\ best.prefix = R[k].PathPrefix
    BY DEF Levelled
  <1>1. /\ Better(path, R[n], best.prefix) => BestOf(R, path, n, n)
        /\ ~Better(path, R[n], best.prefix) /\ Hits(R, path, n - 1) = {} => Hits(R, path, n) = {}
        /\ ~Better(path, R[n], best.prefix) =>
             \A k \in 1..Len(R) : BestOf(R, path, n - 1, k) => BestOf(R, path, n, k)
    BY <1>0, OneMore
  <1>2. CASE Better(path, R[n], best.prefix)
    <2>1. next.prefix = R[n].PathPrefix /\ next.of = {R[n]}
      BY <1>2 DEF levelTurn
    <2> HIDE DEF next
    <2>2. Levelled(R, path, n, next)
      BY <1>1, <1>2, <2>1 DEF Levelled
    <2> QED
      BY <2>2 DEF next
  <1>3. CASE ~Better(path, R[n], best.prefix)
    <2>1. next = best
      BY <1>3 DEF levelTurn
    <2> HIDE DEF next
    <2>2. Levelled(R, path, n, best)
      BY <1>1, <1>3 DEF Levelled
    <2> QED
      BY <2>1, <2>2 DEF next
  <1> QED
    BY <1>2, <1>3

\* All turns, by a least counterexample.
LEMMA LimitsFound ==
    ASSUME NEW R, Table(R), NEW path \in Seq(STRING)
    PROVE  Limited(R, path, Len(R), limitsForPath(R, path))
  <1> DEFINE f == CHOOSE f : LimitScan(R, path, Len(R), f)
             B == {i \in 0..Len(R) : ~Limited(R, path, i, f[i])}
  <1>1. Len(R) \in Nat
    BY DEF Table
  <1>2. LimitScan(R, path, Len(R), f)
    BY <1>1, LimitScanExists
  <1>3. limitsForPath(R, path) = f[Len(R)]
    BY DEF limitsForPath, LimitScan
  <1> HIDE DEF f
  <1>4. ASSUME NEW i \in 0..Len(R)
        PROVE  f[i] = IF i = 0 THEN [prefix |-> <<>>, override |-> {}] ELSE limitTurn(path, f[i - 1], R[i])
    BY <1>2 DEF LimitScan
  <1>5. ASSUME B # {} PROVE FALSE
    <2>1. B \in SUBSET Nat
      BY <1>1
    <2>2. PICK m \in B : \A x \in B : m <= x
      <3> HIDE DEF B
      <3> QED
        BY <1>5, <2>1, Least
    <2>3. CASE m = 0
      <3>1. Hits(R, path, 0) = {}
        BY DEF Hits
      <3>2. f[0].prefix = <<>> /\ f[0].override = {}
        BY <1>1, <1>4
      <3> QED
        BY <2>2, <2>3, <3>1, <3>2 DEF Limited
    <2>4. CASE m # 0
      <3>1. m \in 1..Len(R) /\ m - 1 \in 0..Len(R) /\ ~(m <= m - 1)
        BY <1>1, <2>4
      <3>2. Limited(R, path, m - 1, f[m - 1])
        BY <2>2, <3>1
      <3>3. Limited(R, path, m, limitTurn(path, f[m - 1], R[m]))
        BY <3>1, <3>2, LimitTurn
      <3> QED
        BY <1>4, <2>4, <3>3
    <2> QED
      BY <2>3, <2>4
  <1> QED
    BY <1>1, <1>3, <1>5

\* The last turn of the access log's.
LevelLast(R, path) == (CHOOSE f : LevelScan(R, path, Len(R), f))[Len(R)]

\* All turns of the access log's.
LEMMA LevelFound ==
    ASSUME NEW R, Table(R), NEW path \in Seq(STRING)
    PROVE  Levelled(R, path, Len(R), LevelLast(R, path))
  <1> DEFINE f == CHOOSE f : LevelScan(R, path, Len(R), f)
             B == {i \in 0..Len(R) : ~Levelled(R, path, i, f[i])}
  <1>1. Len(R) \in Nat
    BY DEF Table
  <1>2. LevelScan(R, path, Len(R), f)
    BY <1>1, LevelScanExists
  <1>3. LevelLast(R, path) = f[Len(R)]
    BY DEF LevelLast
  <1> HIDE DEF f
  <1>4. ASSUME NEW i \in 0..Len(R)
        PROVE  f[i] = IF i = 0 THEN [prefix |-> <<>>, of |-> {}] ELSE levelTurn(path, f[i - 1], R[i])
    BY <1>2 DEF LevelScan
  <1>5. ASSUME B # {} PROVE FALSE
    <2>1. B \in SUBSET Nat
      BY <1>1
    <2>2. PICK m \in B : \A x \in B : m <= x
      <3> HIDE DEF B
      <3> QED
        BY <1>5, <2>1, Least
    <2>3. CASE m = 0
      <3>1. Hits(R, path, 0) = {}
        BY DEF Hits
      <3>2. f[0].prefix = <<>> /\ f[0].of = {}
        BY <1>1, <1>4
      <3> QED
        BY <2>2, <2>3, <3>1, <3>2 DEF Levelled
    <2>4. CASE m # 0
      <3>1. m \in 1..Len(R) /\ m - 1 \in 0..Len(R) /\ ~(m <= m - 1)
        BY <1>1, <2>4
      <3>2. Levelled(R, path, m - 1, f[m - 1])
        BY <2>2, <3>1
      <3>3. Levelled(R, path, m, levelTurn(path, f[m - 1], R[m]))
        BY <3>1, <3>2, LevelTurn
      <3> QED
        BY <1>4, <2>4, <3>3
    <2> QED
      BY <2>3, <2>4
  <1> QED
    BY <1>1, <1>3, <1>5

\* The reference names the best route, and no other.
LEMMA LongestIsBest ==
    ASSUME NEW R, Table(R), NEW path \in Seq(STRING)
    PROVE  /\ Hits(R, path, Len(R)) = {} => Longest(R, path) = {}
           /\ \A k \in 1..Len(R) : BestOf(R, path, Len(R), k) => Longest(R, path) = {R[k]}
           /\ \A j \in Hits(R, path, Len(R)) : R[j] \in Matching(R, path)
  <1> DEFINE n == Len(R)
             H == Hits(R, path, n)
  <1>1. /\ n \in Nat /\ DOMAIN R = 1..n
        /\ \A i \in 1..n : R[i].PathPrefix \in Seq(STRING) /\ Len(R[i].PathPrefix) \in Nat
        /\ \A i, j \in 1..n : R[i].PathPrefix = R[j].PathPrefix => i = j
    BY DEF Table
  <1>2. H \subseteq 1..n /\ \A j \in 1..n : j \in H <=> MatchesPrefix(path, R[j].PathPrefix)
    BY DEF Hits
  <1>3. \A j \in 1..n : j \in H <=> R[j].PathPrefix \in Beginnings(path)
    BY <1>1, <1>2, MatchIsBeginning
  <1> HIDE DEF n, H
  <1>4. Matching(R, path) = {R[j] : j \in H}
    BY <1>1, <1>2, <1>3 DEF Matching, ToSet
  <1>5. H = {} => Longest(R, path) = {}
    BY <1>4 DEF Longest
  <1>6. ASSUME NEW k \in 1..n, BestOf(R, path, n, k) PROVE Longest(R, path) = {R[k]}
    <2>1. k \in H /\ \A j \in H : Len(R[j].PathPrefix) <= Len(R[k].PathPrefix)
      BY <1>6 DEF BestOf, H
    <2>2. R[k] \in Longest(R, path)
      BY <1>4, <2>1 DEF Longest
    <2>3. ASSUME NEW r \in Longest(R, path) PROVE r = R[k]
      <3>1. PICK j \in H : r = R[j]
        BY <1>4 DEF Longest
      <3>2. Len(R[k].PathPrefix) <= Len(R[j].PathPrefix) /\ Len(R[j].PathPrefix) <= Len(R[k].PathPrefix)
        BY <1>4, <2>1, <3>1 DEF Longest
      <3>3. Len(R[j].PathPrefix) = Len(R[k].PathPrefix)
        BY <1>1, <1>2, <3>2
      <3>4. R[j].PathPrefix = R[k].PathPrefix
        BY <1>1, <1>2, <2>1, <3>3, EquallyLong
      <3> QED
        BY <1>1, <1>2, <3>1, <3>4
    <2> QED
      BY <2>2, <2>3
  <1> QED
    BY <1>4, <1>5, <1>6 DEF n, H

\* A permutation has every route.
LEMMA PermutationHasAll ==
    ASSUME NEW S, IsFiniteSet(S), NEW s \in SetToSeqs(S)
    PROVE  /\ DOMAIN s = 1..Cardinality(S) /\ Cardinality(S) \in Nat
           /\ S = {s[i] : i \in 1..Cardinality(S)}
  <1> DEFINE N == Cardinality(S)
  <1>1. N \in Nat
    BY FS_CardinalityType
  <1>2. s \in [1..N -> S] /\ \A i, j \in 1..N : i # j => s[i] # s[j]
    BY DEF SetToSeqs
  <1>3. IsFiniteSet(1..N) /\ Cardinality(1..N) = N
    BY <1>1, FS_Interval
  <1>4. s \in Injection(1..N, S)
    BY <1>2 DEF Injection, IsInjective
  <1>5. s \in Surjection(1..N, S)
    BY <1>3, <1>4, FS_Injection
  <1>6. \A x \in S : \E i \in 1..N : s[i] = x
    BY <1>5 DEF Surjection
  <1> QED
    BY <1>1, <1>2, <1>6

\* The router takes the first match of the sorted table, which is the longest.
LEMMA FirstIsLongest ==
    ASSUME NEW R, Table(R), NEW path \in Seq(STRING), NEW s \in Orders(R)
    PROVE  matchRoute(s, path) = Longest(R, path)
  <1> DEFINE S == ToSet(R)
             N == Cardinality(S)
  <1>1. /\ Len(R) \in Nat /\ S = {R[i] : i \in 1..Len(R)}
        /\ \A r \in S : r.PathPrefix \in Seq(STRING) /\ Len(r.PathPrefix) \in Nat
    BY DEF Table, ToSet
  <1>2. IsFiniteSet(S)
    <2> DEFINE g == [i \in 1..Len(R) |-> R[i]]
    <2>1. g \in Surjection(1..Len(R), S)
      BY <1>1 DEF Surjection
    <2>2. IsFiniteSet(1..Len(R))
      BY <1>1, FS_Interval
    <2> HIDE DEF g, S
    <2> QED
      BY <2>1, <2>2, FS_Surjection
  <1>3. s \in SetToSeqs(S) /\ Sorted(s)
    BY DEF Orders
  <1> HIDE DEF S
  <1>4. DOMAIN s = 1..N /\ N \in Nat /\ S = {s[i] : i \in 1..N}
    BY <1>2, <1>3, PermutationHasAll
  <1> HIDE DEF N
  <1>5. \A r \in S : MatchesPrefix(path, r.PathPrefix) <=> r \in Matching(R, path)
    BY <1>1, MatchIsBeginning DEF Matching, S
  <1>6. Matching(R, path) \subseteq S
    BY DEF Matching, S
  <1> DEFINE M == {i \in 1..N : MatchesPrefix(path, s[i].PathPrefix)}
  <1>7. CASE M = {}
    <2>1. matchRoute(s, path) = {}
      BY <1>4, <1>7 DEF matchRoute
    <2>2. Matching(R, path) = {}
      BY <1>4, <1>5, <1>6, <1>7
    <2> QED
      BY <2>1, <2>2 DEF Longest
  <1>8. CASE M # {}
    <2>1. M \in SUBSET Nat
      BY <1>4
    <2>2. PICK m \in M : \A x \in M : m <= x
      <3> HIDE DEF M
      <3> QED
        BY <1>8, <2>1, Least
    <2>3. m \in 1..N /\ MatchesPrefix(path, s[m].PathPrefix) /\ s[m] \in S /\ s[m] \in Matching(R, path)
      BY <1>4, <1>5, <2>2
    <2>4. \A j \in 1..(m - 1) : ~MatchesPrefix(path, s[j].PathPrefix)
      BY <1>4, <2>2, <2>3
    <2>5. matchRoute(s, path) = {s[m]}
      <3>1. ASSUME NEW i \in 1..N, MatchesPrefix(path, s[i].PathPrefix),
                   \A j \in 1..(i - 1) : ~MatchesPrefix(path, s[j].PathPrefix)
            PROVE  i = m
        <4>1. m <= i /\ m \in Nat /\ i \in Nat
          BY <2>2, <2>3, <3>1
        <4>2. ~(m \in 1..(i - 1))
          BY <2>3, <3>1
        <4> QED
          BY <2>3, <4>1, <4>2
      <3> QED
        BY <1>4, <2>3, <2>4, <3>1 DEF matchRoute
    <2>6. ASSUME NEW r \in Matching(R, path) PROVE Len(r.PathPrefix) <= Len(s[m].PathPrefix)
      <3>1. PICK i \in 1..N : r = s[i]
        BY <1>4, <1>6
      <3>2. i \in M
        BY <1>5, <1>6, <3>1
      <3>3. i = m \/ m < i
        BY <1>4, <2>2, <3>2
      <3>4. Len(r.PathPrefix) \in Nat /\ Len(s[m].PathPrefix) \in Nat
        BY <1>1, <1>6, <2>3
      <3>5. m < i => Len(s[m].PathPrefix) >= Len(s[i].PathPrefix)
        BY <1>3, <1>4, <2>3 DEF Sorted
      <3> QED
        BY <3>1, <3>3, <3>4, <3>5
    <2>7. s[m] \in Longest(R, path)
      BY <2>3, <2>6 DEF Longest
    <2>8. \A r \in Longest(R, path) : r = s[m]
      <3>1. PICK k \in 1..Len(R) : s[m] = R[k]
        BY <1>1, <2>3
      <3>2. BestOf(R, path, Len(R), k)
        <4>1. k \in Hits(R, path, Len(R))
          BY <2>3, <3>1 DEF Hits
        <4>2. \A j \in Hits(R, path, Len(R)) : R[j] \in Matching(R, path)
          BY LongestIsBest
        <4> QED
          BY <2>6, <3>1, <4>1, <4>2 DEF BestOf
      <3>3. Longest(R, path) = {R[k]}
        BY <3>2, LongestIsBest
      <3> QED
        BY <3>1, <3>3
    <2> QED
      BY <2>5, <2>7, <2>8
  <1> QED
    BY <1>7, <1>8

\* The table of an accepted configuration.
LEMMA AcceptedTable ==
    ASSUME NEW r \in ParsedConfig, NEW c \in applyDefaults(r), validate(c)
    PROVE  Table(c.routes)
  <1>1. Defaulted(r, c)
    BY DefaultsApplied
  <1>2. "routes" \in DOMAIN r /\ r.routes \in Seq(RouteConfig)
    BY SMT DEF ParsedConfig
  <1> DEFINE p == plainDefaults(r)
  <1>3. c["routes"] = p["routes"]
    BY <1>1, <1>2 DEF Defaulted
  <1>4. p["routes"] = [i \in DOMAIN r["routes"] |-> DefaultRoute(r["routes"][i])]
    <2>1. /\ "routes" \notin Unused(r) /\ "routes" \notin DOMAIN DefaultNumbers
          /\ "routes" \notin DOMAIN DefaultStrings
      BY UnusedFacts, SMT DEF DefaultNumbers, DefaultStrings
    <2> QED
      BY <1>2, <2>1 DEF plainDefaults
  <1> HIDE DEF p
  <1>5. c.routes = [i \in 1..Len(r.routes) |-> DefaultRoute(r.routes[i])]
    BY <1>2, <1>3, <1>4
  <1>6. ASSUME NEW i \in 1..Len(r.routes) PROVE DefaultRoute(r.routes[i]).PathPrefix \in Seq(STRING)
    <2>1. r.routes[i] \in RouteConfig
      BY <1>2
    <2>2. r.routes[i].PathPrefix \in Seq(STRING) /\ "PathPrefix" \in DOMAIN r.routes[i]
      BY <2>1, SMT DEF RouteConfig
    <2>3. DefaultRoute(r.routes[i]).PathPrefix = r.routes[i].PathPrefix
      BY <2>1, <2>2, SMT DEF DefaultRoute, RouteConfig
    <2> QED
      BY <2>2, <2>3
  <1>7. Len(c.routes) = Len(r.routes) /\ DOMAIN c.routes = 1..Len(r.routes) /\ Len(r.routes) \in Nat
    BY <1>2, <1>5
  <1>8. \A i, j \in DOMAIN c.routes : i # j => c.routes[i].PathPrefix # c.routes[j].PathPrefix
    BY DEF validate, validRoutes
  <1> QED
    BY <1>5, <1>6, <1>7, <1>8 DEF Table

\* The three scans of one table.
LEMMA ScansAgree ==
    ASSUME NEW R, Table(R), NEW path \in Seq(STRING), NEW s \in Orders(R)
    PROVE  LET best  == Longest(R, path)
               limit == limitsForPath(R, path)
           IN  /\ matchRoute(s, path) = best
               /\ routeLogLevel(R, path) = best
               /\ limit.prefix = IF best = {} THEN <<>> ELSE (CHOOSE r \in best : TRUE).PathPrefix
               /\ \A r \in best : r.RateOverride # {} => limit.override = r.RateOverride
               /\ limit.override # {} => \E r \in Matching(R, path) : r.RateOverride = limit.override
  <1> DEFINE best  == Longest(R, path)
             limit == limitsForPath(R, path)
             level == LevelLast(R, path)
  <1>1. matchRoute(s, path) = best
    BY FirstIsLongest
  <1>2. /\ Hits(R, path, Len(R)) = {} => best = {}
        /\ \A k \in 1..Len(R) : BestOf(R, path, Len(R), k) => best = {R[k]}
        /\ \A j \in Hits(R, path, Len(R)) : R[j] \in Matching(R, path)
    BY LongestIsBest
  <1>3. Limited(R, path, Len(R), limit)
    BY LimitsFound
  <1>4. routeLogLevel(R, path) = level.of
    BY DEF routeLogLevel, LevelLast, LevelScan
  <1>5. Levelled(R, path, Len(R), level)
    BY LevelFound
  <1> HIDE DEF best, limit, level
  <1>6. routeLogLevel(R, path) = best
    BY <1>2, <1>4, <1>5 DEF Levelled
  <1>7. /\ limit.prefix = IF best = {} THEN <<>> ELSE (CHOOSE r \in best : TRUE).PathPrefix
        /\ \A r \in best : r.RateOverride # {} => limit.override = r.RateOverride
    <2>1. CASE limit.prefix = <<>> /\ Hits(R, path, Len(R)) = {}
      BY <1>2, <2>1
    <2>2. ASSUME NEW k \in 1..Len(R), BestOf(R, path, Len(R), k), limit.prefix = R[k].PathPrefix,
                 R[k].RateOverride # {} => limit.override = R[k].RateOverride
          PROVE  /\ limit.prefix = IF best = {} THEN <<>> ELSE (CHOOSE r \in best : TRUE).PathPrefix
                 /\ \A r \in best : r.RateOverride # {} => limit.override = r.RateOverride
      <3>1. best = {R[k]}
        BY <1>2, <2>2
      <3>2. (CHOOSE r \in best : TRUE) = R[k]
        BY <3>1
      <3> QED
        BY <2>2, <3>1, <3>2
    <2> QED
      BY <1>3, <2>1, <2>2 DEF Limited
  <1>8. limit.override # {} => \E r \in Matching(R, path) : r.RateOverride = limit.override
    BY <1>2, <1>3 DEF Limited
  <1> QED
    BY <1>1, <1>6, <1>7, <1>8 DEF best, limit

\* The router, the access log and the rate limiter agree on the route of every path
\* (routing.MatchesPrefix, Router.matchRoute, routeLogLevel, Limiter.limitsForPath).
THEOREM LifecycleRoutesResolve == Spec => []RoutesResolve
  <1>1. MainInv => RoutesResolve
    <2> SUFFICES ASSUME MainInv PROVE RoutesResolve
      OBVIOUS
    <2>1. ASSUME NEW s \in table, NEW c \in cfg, NEW p \in Paths
          PROVE  LET best  == Longest(c.routes, p)
                     limit == limitsForPath(c.routes, p)
                 IN  /\ matchRoute(s, p) = best
                     /\ routeLogLevel(c.routes, p) = best
                     /\ limit.prefix = IF best = {} THEN <<>> ELSE (CHOOSE r \in best : TRUE).PathPrefix
                     /\ \A r \in best : r.RateOverride # {} => limit.override = r.RateOverride
                     /\ limit.override # {} => \E r \in Matching(c.routes, p) : r.RateOverride = limit.override
      <3>1. s \in Orders(c.routes) /\ validate(c) /\ \E r \in RawConfigs : c \in applyDefaults(r)
        BY <2>1 DEF MainInv, Inputs
      <3>2. Table(c.routes)
        BY <3>1, AcceptedTable, LifecycleAssumption
      <3>3. p \in Seq(STRING)
        BY LifecycleAssumption
      <3> QED
        BY <3>1, <3>2, <3>3, ScansAgree
    <2> QED
      BY <2>1 DEF RoutesResolve
  <1> QED
    BY <1>1, LifecycleInvariant, PTL
=============================================================================
