----------------------------- MODULE Readiness -----------------------------
(***************************************************************************)
(* internal/health/health.go: GET /ready with its cache.                   *)
(*                                                                         *)
(* A poll that finds no fresh answer asks every route's backend from a     *)
(* goroutine of its own (probe[p][b]), waits for all of them and stores    *)
(* the verdict; several polls may do so at once.  Circuits and backends    *)
(* change under them.  A route is represented by its backend.              *)
(***************************************************************************)
EXTENDS Integers, FiniteSets

CONSTANTS
    Pollers,        \* goroutines that serve /ready
    Backends,
    TTL,            \* readinessCacheTTL
    MaxPoll         \* bound on the time one poll takes

ASSUME ReadinessAssumption == TTL \in Nat \ {0} /\ MaxPoll \in Nat

VARIABLES
    up,             \* backend -> does it accept connections?
    circuit,        \* backend -> EffectiveState of its breaker
    ppc,            \* poller -> "idle" or "probe"
    probe,          \* poller -> backend -> "start", "dial", "ok", "down"
    cancelled,      \* poller -> r.Context() is done
    elapsed,        \* poller -> time since its poll began
    cached,         \* the stored status, 0: none
    cachedAt,       \* its age
    evidence,       \* age of the oldest probe it may rest on
    sawDown,        \* poller -> was a backend really down or its circuit open when probed?
    cachedSawDown,  \* the same for the stored answer
    cachedCut,      \* was the poll of the stored answer cancelled?
    answer          \* poller -> status of its last answer

world == <<up, circuit>>
cache == <<cached, cachedAt, evidence, cachedSawDown, cachedCut>>
poll  == <<ppc, probe, cancelled, elapsed, sawDown>>
readyVars  == <<world, cache, poll, answer>>

NotAsked == [b \in Backends |-> "start"]

ReadyInit ==
    /\ up \in [Backends -> BOOLEAN]
    /\ circuit = [b \in Backends |-> "Closed"]
    /\ ppc = [p \in Pollers |-> "idle"]
    /\ probe = [p \in Pollers |-> NotAsked]
    /\ cancelled = [p \in Pollers |-> FALSE]
    /\ elapsed = [p \in Pollers |-> 0]
    /\ sawDown = [p \in Pollers |-> FALSE]
    /\ cached = 0 /\ cachedAt = 0 /\ evidence = 0 /\ cachedSawDown = FALSE
    /\ cachedCut = FALSE
    /\ answer = [p \in Pollers |-> 0]

-----------------------------------------------------------------------------
\* Backends and breakers live their own lives.  Open stands for a saturated
\* bulkhead too: EffectiveState reports it so.
Flip(b) ==
    /\ up' = [up EXCEPT ![b] = ~@]
    /\ UNCHANGED <<circuit, cache, poll, answer>>

Trip(b) ==
    /\ \E s \in {"Closed", "Open", "HalfOpen"} \ {circuit[b]} : circuit' = [circuit EXCEPT ![b] = s]
    /\ UNCHANGED <<up, cache, poll, answer>>

\* Fault: a stored answer is fresh for ever.
FreshForever == cached # 0

\* There is a stored answer younger than the TTL.
Fresh == cached # 0 /\ cachedAt < TTL

\* Fault: a hit makes the stored answer young again.
ServeCachedSliding(p) ==
    /\ ppc[p] = "idle" /\ Fresh
    /\ answer' = [answer EXCEPT ![p] = cached]
    /\ cachedAt' = 0
    /\ UNCHANGED <<world, cached, evidence, cachedSawDown, cachedCut, poll>>

\* A fresh stored answer, under the read lock.
ServeCached(p) ==
    /\ ppc[p] = "idle" /\ Fresh
    /\ answer' = [answer EXCEPT ![p] = cached]
    /\ UNCHANGED <<world, cache, poll>>

\* No fresh answer: one goroutine per route.
Ask(p) ==
    /\ ppc[p] = "idle" /\ ~Fresh
    /\ ppc' = [ppc EXCEPT ![p] = "probe"]
    /\ probe' = [probe EXCEPT ![p] = NotAsked]
    /\ elapsed' = [elapsed EXCEPT ![p] = 0]
    /\ sawDown' = [sawDown EXCEPT ![p] = FALSE]
    /\ UNCHANGED <<world, cache, cancelled, answer>>

Saw(p, b, result) == probe' = [probe EXCEPT ![p][b] = result]

\* Fault: a half-open circuit counts as down.
InspectHalfOpenDown(p, b) ==
    /\ ppc[p] = "probe" /\ probe[p][b] = "start"
    /\ Saw(p, b, IF circuit[b] = "Closed" THEN "dial" ELSE "down")
    /\ sawDown' = [sawDown EXCEPT ![p] = @ \/ circuit[b] = "Open"]
    /\ UNCHANGED <<world, cache, ppc, cancelled, elapsed, answer>>

\* The breaker decides, unless it is closed.
Inspect(p, b) ==
    /\ ppc[p] = "probe" /\ probe[p][b] = "start"
    /\ Saw(p, b, CASE circuit[b] = "Open" -> "down"
                   [] circuit[b] = "HalfOpen" -> "ok"
                   [] OTHER -> "dial")
    /\ sawDown' = [sawDown EXCEPT ![p] = @ \/ circuit[b] = "Open"]
    /\ UNCHANGED <<world, cache, ppc, cancelled, elapsed, answer>>

\* DialContext, under the client's context and a timeout of its own.
Dial(p, b) ==
    /\ ppc[p] = "probe" /\ probe[p][b] = "dial"
    /\ Saw(p, b, IF up[b] /\ ~cancelled[p] THEN "ok" ELSE "down")
    /\ sawDown' = [sawDown EXCEPT ![p] = @ \/ ~up[b]]
    /\ UNCHANGED <<world, cache, ppc, cancelled, elapsed, answer>>

Verdict(p) == IF \E b \in Backends : probe[p][b] = "down" THEN 503 ELSE 200

\* All results are in: the verdict is stored with the time of now and answered.
Store(p) ==
    /\ ppc[p] = "probe"
    /\ \A b \in Backends : probe[p][b] \in {"ok", "down"}
    /\ cached' = Verdict(p)
    /\ cachedAt' = 0
    /\ evidence' = elapsed[p]
    /\ cachedSawDown' = sawDown[p]
    /\ cachedCut' = cancelled[p]
    /\ answer' = [answer EXCEPT ![p] = cached']
    /\ ppc' = [ppc EXCEPT ![p] = "idle"]
    /\ cancelled' = [cancelled EXCEPT ![p] = FALSE]
    /\ probe' = [probe EXCEPT ![p] = NotAsked]
    /\ elapsed' = [elapsed EXCEPT ![p] = 0]
    /\ sawDown' = [sawDown EXCEPT ![p] = FALSE]
    /\ UNCHANGED world

\* The client closes its connection while the poll is under way.
Cancel(p) ==
    /\ ppc[p] = "probe" /\ ~cancelled[p]
    /\ cancelled' = [cancelled EXCEPT ![p] = TRUE]
    /\ UNCHANGED <<world, cache, ppc, probe, elapsed, sawDown, answer>>

\* Time passes; a poll takes at most MaxPoll.
ReadyTick ==
    /\ \A p \in Pollers : ppc[p] = "probe" => elapsed[p] < MaxPoll
    /\ elapsed' = [p \in Pollers |-> IF ppc[p] = "probe" THEN elapsed[p] + 1 ELSE elapsed[p]]
    /\ cachedAt' = IF cachedAt < TTL THEN cachedAt + 1 ELSE cachedAt
    /\ evidence' = IF evidence < TTL + MaxPoll THEN evidence + 1 ELSE evidence
    /\ UNCHANGED <<world, cached, cachedSawDown, cachedCut, ppc, probe, cancelled, sawDown, answer>>

-----------------------------------------------------------------------------
Work(p) == Store(p) \/ \E b \in Backends : Inspect(p, b) \/ Dial(p, b)

ReadyNext ==
    \/ \E b \in Backends : Flip(b) \/ Trip(b)
    \/ \E p \in Pollers : ServeCached(p) \/ Ask(p) \/ Work(p) \/ Cancel(p)
    \/ ReadyTick

ReadySpec == ReadyInit /\ [][ReadyNext]_readyVars

\* Time passes, probes end (they have a timeout), and monitors keep polling.
FairReadySpec ==
    /\ ReadySpec
    /\ WF_readyVars(ReadyTick)
    /\ \A p \in Pollers : WF_readyVars(Work(p)) /\ SF_readyVars(ServeCached(p)) /\ SF_readyVars(Ask(p))

-----------------------------------------------------------------------------
\* Every variable has its type.
ReadyTypeOK ==
    /\ up \in [Backends -> BOOLEAN]
    /\ circuit \in [Backends -> {"Closed", "Open", "HalfOpen"}]
    /\ ppc \in [Pollers -> {"idle", "probe"}]
    /\ probe \in [Pollers -> [Backends -> {"start", "dial", "ok", "down"}]]
    /\ \A p \in Pollers : ppc[p] = "idle" => probe[p] = NotAsked
    /\ elapsed \in [Pollers -> 0..MaxPoll]
    /\ cached \in {0, 200, 503} /\ cachedAt \in 0..TTL /\ evidence \in 0..(TTL + MaxPoll)

\* A stored answer that a poll would be given rests on no probe older than a poll
\* and the life of a stored answer together, although polls overlap, a slow one may
\* store its verdict over a newer one, and the stored time is that of the store
\* and not of the probes.
AnswerIsRecent == ReadyTypeOK /\ (Fresh => evidence < TTL + MaxPoll)

\* health.go:134, "503 only when ALL backends for any given route are down": the
\* verdict that is stored, for everybody to see, is 503 exactly if one of the
\* probes it rests on met a backend that was down or whose circuit was open.  A
\* poll whose client went away may store a 503 without such a probe, but never a
\* 200 against one.
VerdictTruthful ==
    /\ cached = 200 => ~cachedSawDown
    /\ cached = 503 => cachedSawDown \/ cachedCut

AllWell == \A b \in Backends : up[b] /\ circuit[b] = "Closed"

\* Once all is well and stays so, and clients wait for their answers, monitors
\* that keep polling are told so in the end: no overlap of polls and no verdict
\* of a cancelled poll lives on.
RecoveryShows ==
    (<>[]AllWell /\ <>[][\A p \in Pollers : ~Cancel(p)]_readyVars)
    => <>[](\A p \in Pollers : answer[p] = 200)
=============================================================================
