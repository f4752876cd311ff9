------------------------- MODULE CompositeBreaker -------------------------
(***************************************************************************)
(* internal/circuitbreaker/{composite,bulkhead,timeout,adaptive}.go: the   *)
(* breaker stack FailureRate -> Adaptive -> Timeout -> Bulkhead as         *)
(* concurrent callers use it (Allow, then any number of recorded outcomes, *)
(* then Release).                                                          *)
(*                                                                         *)
(* The failure-rate breaker and the adaptive layer have a mutex each and   *)
(* the bulkhead is a channel, so the stack's own methods are not atomic:   *)
(* pc[c] is where caller c stands between them.                            *)
(*    "idle"      outside the stack                                        *)
(*    "slot"      holds a bulkhead slot, inner.Allow not called yet        *)
(*    "refused"   holds a slot, inner.Allow returned false                 *)
(*    "in"        Allow returned true, Release not called yet              *)
(*    "adapt"     outcome recorded, updateThreshold not called yet         *)
(*    "out"       Allow returned false                                     *)
(***************************************************************************)
EXTENDS Integers, Sequences, FiniteSets

CONSTANTS
    Callers,
    Configs, InitialConfig, Scale, MaxElapsed,  \* see FailureRateBreaker
    MaxConcurrent,      \* capacity of the bulkhead, 0: no bulkhead layer
    SlowThreshold,      \* of the timeout layer, 0: no timeout layer
    Adaptive,           \* is there an adaptive layer?
    LatencyCeiling, MinThreshold,   \* of the adaptive layer
    Latencies           \* the latencies a caller may report

ASSUME LayerAssumption ==
    /\ MaxConcurrent \in Nat /\ SlowThreshold \in Nat /\ Adaptive \in BOOLEAN
    /\ LatencyCeiling \in Nat \ {0} /\ Latencies \subseteq Nat \ {0}
    /\ MinThreshold \in 1..(InitialConfig.FailureThreshold - 1)

VARIABLES
    state, window, head, count, failures, halfOpenSuccess, sinceOpened,
    windowSize, failureThreshold, resetTimeout, halfOpenMax,
    sem,            \* len(b.sem): slots taken
    ewmaLatency,    \* 0 until the first outcome
    resetting,      \* AdaptiveBreaker.Reset is between its two locks
    pc,
    latency         \* the latency caller c still has to report

breakerVars == <<state, halfOpenSuccess, sinceOpened, window, head, count,
                 failures, windowSize, failureThreshold, resetTimeout, halfOpenMax>>
callerVars  == <<pc, latency>>
vars == <<breakerVars, sem, ewmaLatency, resetting, callerVars>>

\* baseThreshold is copied from the configuration the stack is built from.
BaseThreshold == InitialConfig.FailureThreshold

FR == INSTANCE FailureRateBreaker WITH Thresholds <- MinThreshold..BaseThreshold

ASSUME BreakerAssumption == FR!ConfigAssumption /\ FR!ScaleAssumption

Bulkhead == MaxConcurrent > 0

Goto(c, label) == pc' = [pc EXCEPT ![c] = label]

-----------------------------------------------------------------------------
\* NewComposite
Init ==
    /\ FR!NewFailureRateBreaker(InitialConfig)
    /\ sem = 0
    /\ ewmaLatency = 0
    /\ resetting = FALSE
    /\ pc = [c \in Callers |-> "idle"]
    /\ latency = [c \in Callers |-> 0]

-----------------------------------------------------------------------------
\* BulkheadBreaker.Allow, up to the call of inner.Allow: a free slot is taken
\* without blocking.
TakeSlot(c) ==
    /\ Bulkhead /\ pc[c] = "idle"
    /\ sem < MaxConcurrent
    /\ sem' = sem + 1
    /\ Goto(c, "slot")
    /\ UNCHANGED <<breakerVars, ewmaLatency, resetting, latency>>

\* The default branch of the select: the bulkhead is full, Allow is false.
NoSlot(c) ==
    /\ Bulkhead /\ pc[c] = "idle"
    /\ sem = MaxConcurrent
    /\ Goto(c, "out")
    /\ UNCHANGED <<breakerVars, sem, ewmaLatency, resetting, latency>>

\* The call of the failure-rate breaker's Allow, which the adaptive and timeout
\* layers pass through.
InnerAllow(c, ok) ==
    /\ pc[c] = IF Bulkhead THEN "slot" ELSE "idle"
    /\ FR!Allow(ok)
    /\ Goto(c, CASE ok -> "in" [] ~ok /\ Bulkhead -> "refused" [] OTHER -> "out")
    /\ UNCHANGED <<sem, ewmaLatency, resetting, latency>>

\* Fault: the slot of a request the inner breaker refused is not given back.
GiveBackLeaks(c) ==
    /\ pc[c] = "refused"
    /\ Goto(c, "out")
    /\ UNCHANGED <<breakerVars, sem, ewmaLatency, resetting, latency>>

\* The inner breaker refused: the slot is given back and Allow is false.
GiveBack(c) ==
    /\ pc[c] = "refused"
    /\ sem' = sem - 1
    /\ Goto(c, "out")
    /\ UNCHANGED <<breakerVars, ewmaLatency, resetting, latency>>

\* The caller has seen Allow return false.
Leave(c) ==
    /\ pc[c] = "out"
    /\ Goto(c, "idle")
    /\ UNCHANGED <<breakerVars, sem, ewmaLatency, resetting, latency>>

-----------------------------------------------------------------------------
\* What the layers under the bulkhead do first when an outcome is reported: the
\* timeout layer turns a slow success into a failure, the adaptive layer passes
\* it on and remembers the latency for updateThreshold.
Report(c, failed, l) ==
    /\ pc[c] = "in"
    /\ IF failed \/ (SlowThreshold > 0 /\ l > SlowThreshold)
       THEN FR!RecordFailure
       ELSE FR!RecordSuccess
    /\ IF Adaptive
       THEN Goto(c, "adapt") /\ latency' = [latency EXCEPT ![c] = l]
       ELSE UNCHANGED <<pc, latency>>
    /\ UNCHANGED <<sem, ewmaLatency, resetting>>

RecordSuccess(c, l) == Report(c, FALSE, l)
RecordFailure(c, l) == Report(c, TRUE, l)

\* Fault: the average keeps the worst latency it has seen.
EwmaWorst(l) == IF l > ewmaLatency THEN l ELSE ewmaLatency

\* alpha = 0.3, truncated to whole units of latency.
Ewma(l) == IF ewmaLatency = 0 THEN l ELSE (3 * l + 7 * ewmaLatency) \div 10

\* Fault: the interpolation ratio is not capped at 1.
ThresholdForUncapped(e) ==
    IF e <= LatencyCeiling
    THEN BaseThreshold
    ELSE BaseThreshold - ((e - LatencyCeiling) * (BaseThreshold - MinThreshold))
                         \div LatencyCeiling

\* The base threshold up to the ceiling, then down in a straight line to
\* MinThreshold at twice the ceiling and beyond.
ThresholdFor(e) ==
    LET excess == IF e > 2 * LatencyCeiling THEN LatencyCeiling ELSE e - LatencyCeiling
    IN  IF e <= LatencyCeiling
        THEN BaseThreshold
        ELSE BaseThreshold - (excess * (BaseThreshold - MinThreshold)) \div LatencyCeiling

\* updateThreshold, under the adaptive layer's mutex.
UpdateThreshold(c) ==
    /\ pc[c] = "adapt"
    /\ ewmaLatency' = Ewma(latency[c])
    /\ FR!SetFailureThreshold(ThresholdFor(ewmaLatency'))
    /\ Goto(c, "in")
    /\ latency' = [latency EXCEPT ![c] = 0]
    /\ UNCHANGED <<sem, resetting>>

Release(c) ==
    /\ pc[c] = "in"
    /\ IF Bulkhead THEN sem > 0 /\ sem' = sem - 1 ELSE UNCHANGED sem
    /\ Goto(c, "idle")
    /\ UNCHANGED <<breakerVars, ewmaLatency, resetting, latency>>

-----------------------------------------------------------------------------
\* Reset reaches the failure-rate breaker first, under its mutex, and then the
\* adaptive layer's state, under the other one.
Reset ==
    /\ ~resetting
    /\ FR!Reset
    /\ resetting' = Adaptive
    /\ UNCHANGED <<sem, ewmaLatency, callerVars>>

ResetAdaptive ==
    /\ resetting
    /\ ewmaLatency' = 0
    /\ FR!SetFailureThreshold(BaseThreshold)
    /\ resetting' = FALSE
    /\ UNCHANGED <<sem, callerVars>>

\* UpdateConfig changes the failure-rate breaker alone: baseThreshold and the
\* other layers' settings stay as they were built.
UpdateConfig(cfg) ==
    /\ FR!UpdateConfig(cfg)
    /\ UNCHANGED <<sem, ewmaLatency, resetting, callerVars>>

Tick == FR!Tick /\ UNCHANGED <<sem, ewmaLatency, resetting, callerVars>>

-----------------------------------------------------------------------------
CallerStep(c) ==
    \/ TakeSlot(c) \/ NoSlot(c) \/ GiveBack(c) \/ Leave(c)
    \/ \E ok \in BOOLEAN : InnerAllow(c, ok)
    \/ \E l \in Latencies : RecordSuccess(c, l) \/ RecordFailure(c, l)
    \/ UpdateThreshold(c)
    \/ Release(c)

\* What the gateway does with the stack; Reset is called by nothing but tests.
Serving ==
    \/ \E c \in Callers : CallerStep(c)
    \/ \E cfg \in Configs : UpdateConfig(cfg)
    \/ Tick

Next == Serving \/ Reset \/ ResetAdaptive

Spec == Init /\ [][Next]_vars

ServingSpec == Init /\ [][Serving]_vars

\* Callers of the adaptive layer keep reporting outcomes and finish what they
\* started; a pending Reset is finished.
Progress ==
    /\ \A c \in Callers : /\ WF_vars(\E ok \in BOOLEAN : InnerAllow(c, ok))
                          /\ WF_vars(TakeSlot(c))
                          /\ WF_vars(GiveBack(c) \/ Leave(c) \/ UpdateThreshold(c))
                          /\ SF_vars(\E l \in Latencies : RecordSuccess(c, l))
                          /\ SF_vars(Release(c))
    /\ WF_vars(ResetAdaptive)
    /\ WF_vars(Tick)

FairSpec == Spec /\ Progress

-----------------------------------------------------------------------------
Holding == {c \in Callers : pc[c] \in {"slot", "refused", "in", "adapt"}}

\* The callers' positions, the channel length and the pending latencies are of
\* their type, and the failure-rate breaker underneath is well typed.
TypeOK ==
    /\ FR!TypeOK
    /\ sem \in 0..MaxConcurrent
    /\ ewmaLatency \in Nat
    /\ resetting \in BOOLEAN
    /\ pc \in [Callers -> {"idle", "slot", "refused", "in", "adapt", "out"}]
    /\ latency \in [Callers -> Nat]

\* bulkhead.go:60-65: Release is called exactly once per admission, so the channel
\* always holds one element per caller inside the stack: no slot leaks, no receive
\* ever blocks, and never more than MaxConcurrent callers are admitted at once,
\* whatever the inner circuit does meanwhile.
SlotAccounting ==
    /\ TypeOK
    /\ Bulkhead => /\ sem = Cardinality(Holding)
                   /\ Cardinality({c \in Callers : pc[c] \in {"in", "adapt"}}) <= MaxConcurrent

\* Under all layers and all interleavings of callers, reloads and resets, the
\* failure-rate breaker takes only its own steps, and the adaptive layer sets
\* only thresholds between min_threshold and the base threshold.
ImplementsFailureRate == FR!Spec

\* A reload sets these three fields and nothing else does.
InForce(cfg) ==
    windowSize = cfg.WindowSize /\ resetTimeout = cfg.ResetTimeout /\ halfOpenMax = cfg.HalfOpenMax

\* adaptive.go:69-83: while the configuration in force asks for the threshold the
\* stack was built with, whatever was in force before, the outcomes reported after
\* latencies are back to normal bring the threshold back to that value.  Nothing is
\* said of a reload that changes the threshold: baseThreshold does not follow it, and
\* the next outcome undoes it.
ThresholdRelaxes ==
    /\ <>[](\A cfg \in Configs : InForce(cfg) => cfg.FailureThreshold = BaseThreshold)
    /\ <>[][\A c \in Callers, l \in Latencies :
              l > LatencyCeiling => ~RecordSuccess(c, l) /\ ~RecordFailure(c, l)]_vars
    => []<>(failureThreshold = BaseThreshold)

=============================================================================
