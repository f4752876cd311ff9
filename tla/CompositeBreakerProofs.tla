----------------------- MODULE CompositeBreakerProofs -----------------------
(***************************************************************************)
(* The breaker stack, for any number of callers, any capacity and any      *)
(* configuration: bulkhead slots are never lost nor given back twice, and  *)
(* under every interleaving the failure-rate breaker takes steps of its    *)
(* own only, so what FailureRateBreakerProofs proves of it holds inside    *)
(* the stack.                                                              *)
(*                                                                         *)
(* The number of callers need not be finite: only those inside the stack   *)
(* are counted, and that they are finitely many is part of the invariant.  *)
(***************************************************************************)
EXTENDS CompositeBreaker, FiniteSetTheorems, TLAPS

FRP == INSTANCE FailureRateBreakerProofs WITH Thresholds <- MinThreshold..BaseThreshold

Labels == {"idle", "slot", "refused", "in", "adapt", "out"}
Inside == {"slot", "refused", "in", "adapt"}

\* The stack's own part of the invariant.  Without a bulkhead layer nobody is ever
\* between its two calls and the channel does not exist.
StackInv ==
    /\ sem \in 0..MaxConcurrent /\ ewmaLatency \in Nat /\ resetting \in BOOLEAN
    /\ pc \in [Callers -> Labels] /\ latency \in [Callers -> Nat]
    /\ IsFiniteSet(Holding)
    /\ Bulkhead => sem = Cardinality(Holding)
    /\ ~Bulkhead => sem = 0 /\ \A c \in Callers : pc[c] \notin {"slot", "refused"}

Inv == FRP!Inv /\ StackInv

-----------------------------------------------------------------------------
\* What a quotient of a product is bounded by.
LEMMA QuotientBound ==
    ASSUME NEW a \in Nat, NEW b \in Nat, NEW n \in Nat \ {0}, a <= n
    PROVE  (a * b) \div n \in 0..b
  <1> DEFINE q == (a * b) \div n
  <1>1. a * b \in Nat /\ a * b <= n * b
    BY SMT
  <1>2. q \in Nat /\ n * q <= a * b
    BY <1>1, SMT
  <1>3. n * q <= n * b
    BY <1>1, <1>2
  <1>4. q <= b
    BY <1>2, <1>3, SMT
  <1> QED
    BY <1>2, <1>4

\* adaptive.go: the threshold never leaves [min_threshold, base].
LEMMA ThresholdRange ==
    ASSUME NEW e \in Nat
    PROVE  ThresholdFor(e) \in MinThreshold..BaseThreshold
  <1>1. /\ LatencyCeiling \in Nat \ {0}
        /\ BaseThreshold \in Nat /\ MinThreshold \in 1..(BaseThreshold - 1)
    BY LayerAssumption, BreakerAssumption DEF BaseThreshold, FR!ConfigAssumption
  <1>2. CASE e <= LatencyCeiling
    BY <1>1, <1>2 DEF ThresholdFor
  <1>3. CASE e > LatencyCeiling
    <2> DEFINE x == IF e > 2 * LatencyCeiling THEN LatencyCeiling ELSE e - LatencyCeiling
               d == BaseThreshold - MinThreshold
    <2>1. x \in Nat /\ x <= LatencyCeiling /\ d \in Nat
      BY <1>1, <1>3
    <2>2. ThresholdFor(e) = BaseThreshold - (x * d) \div LatencyCeiling
      BY <1>1, <1>3 DEF ThresholdFor
    <2> HIDE DEF x
    <2>3. (x * d) \div LatencyCeiling \in 0..d
      <3> HIDE DEF d
      <3> QED
        BY <1>1, <2>1, QuotientBound
    <2> QED
      BY <1>1, <2>2, <2>3
  <1> QED
    BY <1>1, <1>2, <1>3

\* The moving average of latencies is a latency.
LEMMA EwmaType ==
    ASSUME ewmaLatency \in Nat, NEW l \in Nat
    PROVE  Ewma(l) \in Nat
  BY SMT DEF Ewma

-----------------------------------------------------------------------------
\* The proofs' instance of the failure-rate breaker is the stack's.
LEMMA SameBreaker ==
    /\ FR!Init <=> FRP!Init
    /\ FR!Next <=> FRP!Next
    /\ FRP!Inv => FR!TypeOK
    /\ FRP!ConfigAssumption /\ FRP!ScaleAssumption
  <1>1. FR!Init <=> FRP!Init
    BY DEF FR!Init, FR!NewFailureRateBreaker, FR!EmptyWindow, FR!Slots,
           FRP!Init, FRP!NewFailureRateBreaker, FRP!EmptyWindow, FRP!Slots
  <1>2. FR!Next <=> FRP!Next
    BY DEF FR!Next, FR!Allow, FR!RecordSuccess, FR!RecordFailure, FR!Reset, FR!SetFailureThreshold,
           FR!UpdateConfig, FR!Tick, FR!recordOutcome, FR!Tripped, FR!transitionTo, FR!enterState,
           FR!emptyWindow, FR!ring, FR!fsm, FR!params, FR!EmptyWindow, FR!Slots,
           FRP!Next, FRP!Allow, FRP!RecordSuccess, FRP!RecordFailure, FRP!Reset, FRP!SetFailureThreshold,
           FRP!UpdateConfig, FRP!Tick, FRP!recordOutcome, FRP!Tripped, FRP!transitionTo, FRP!enterState,
           FRP!emptyWindow, FRP!ring, FRP!fsm, FRP!params, FRP!EmptyWindow, FRP!Slots
  <1>3. FRP!Inv => FR!TypeOK
    BY DEF FRP!Inv, FRP!TypeOK, FR!TypeOK, FR!Slots, FRP!Slots
  <1>4. FRP!ConfigAssumption /\ FRP!ScaleAssumption
    BY BreakerAssumption DEF FR!ConfigAssumption, FR!ScaleAssumption, FRP!ConfigAssumption, FRP!ScaleAssumption
  <1> QED
    BY <1>1, <1>2, <1>3, <1>4

\* A caller's step changes who is inside the stack by that caller at most.
LEMMA HoldingStep ==
    ASSUME pc \in [Callers -> Labels], NEW c \in Callers, NEW label \in Labels, Goto(c, label)
    PROVE  /\ pc' \in [Callers -> Labels]
           /\ \A d \in Callers : pc'[d] = IF d = c THEN label ELSE pc[d]
           /\ Holding' = IF label \in Inside THEN Holding \cup {c} ELSE Holding \ {c}
  <1>1. /\ pc' \in [Callers -> Labels]
        /\ \A d \in Callers : pc'[d] = IF d = c THEN label ELSE pc[d]
    BY DEF Goto
  <1>2. Holding' = {d \in Callers : pc'[d] \in Inside}
    BY DEF Holding, Inside
  <1>3. Holding = {d \in Callers : pc[d] \in Inside}
    BY DEF Holding, Inside
  <1> QED
    BY <1>1, <1>2, <1>3

\* Every step of the stack is a step of the failure-rate breaker or leaves it alone.
LEMMA StackStepRefines ==
    ASSUME StackInv, [Next]_vars
    PROVE  [FR!Next]_FR!breakerVars
  <1> USE DEF FR!breakerVars, breakerVars
  <1>1. ASSUME NEW c \in Callers, CallerStep(c)
        PROVE  [FR!Next]_FR!breakerVars
    <2>1. CASE TakeSlot(c) \/ NoSlot(c) \/ GiveBack(c) \/ Leave(c) \/ Release(c)
      BY <2>1 DEF TakeSlot, NoSlot, GiveBack, Leave, Release
    <2>2. CASE \E ok \in BOOLEAN : InnerAllow(c, ok)
      BY <2>2 DEF InnerAllow, FR!Next
    <2>3. CASE \E l \in Latencies : RecordSuccess(c, l) \/ RecordFailure(c, l)
      BY <2>3 DEF RecordSuccess, RecordFailure, Report, FR!Next
    <2>4. CASE UpdateThreshold(c)
      <3>1. ewmaLatency' \in Nat
        BY <2>4, EwmaType DEF UpdateThreshold, StackInv
      <3>2. ThresholdFor(ewmaLatency') \in MinThreshold..BaseThreshold
        BY <3>1, ThresholdRange
      <3>3. FR!SetFailureThreshold(ThresholdFor(ewmaLatency'))
        BY <2>4 DEF UpdateThreshold
      <3> QED
        BY <3>2, <3>3 DEF FR!Next
    <2> QED
      BY <1>1, <2>1, <2>2, <2>3, <2>4 DEF CallerStep
  <1>2. CASE \E cfg \in Configs : UpdateConfig(cfg)
    BY <1>2 DEF UpdateConfig, FR!Next
  <1>3. CASE Tick
    BY <1>3 DEF Tick, FR!Next
  <1>4. CASE Reset
    BY <1>4 DEF Reset, FR!Next
  <1>5. CASE ResetAdaptive
    <2>1. BaseThreshold \in MinThreshold..BaseThreshold
      BY LayerAssumption, BreakerAssumption DEF BaseThreshold, FR!ConfigAssumption
    <2> QED
      BY <1>5, <2>1 DEF ResetAdaptive, FR!Next
  <1>6. CASE UNCHANGED vars
    BY <1>6 DEF vars
  <1> QED
    BY <1>1, <1>2, <1>3, <1>4, <1>5, <1>6 DEF Next, Serving

\* Every step of the stack keeps the slots accounted for.
LEMMA StackStepInv ==
    ASSUME StackInv, [Next]_vars
    PROVE  StackInv'
  <1>0. MaxConcurrent \in Nat /\ (Bulkhead <=> MaxConcurrent > 0)
    BY LayerAssumption DEF Bulkhead
  <1>1. ASSUME NEW c \in Callers, CallerStep(c)
        PROVE  StackInv'
    <2>0. /\ pc \in [Callers -> Labels] /\ IsFiniteSet(Holding) /\ Cardinality(Holding) \in Nat
          /\ (c \in Holding) <=> pc[c] \in Inside
      BY FS_CardinalityType DEF StackInv, Holding, Inside
    <2>1. IsFiniteSet(Holding \cup {c}) /\ IsFiniteSet(Holding \ {c})
      BY <2>0, FS_AddElement, FS_RemoveElement
    <2>2. /\ pc[c] \notin Inside => Cardinality(Holding \cup {c}) = Cardinality(Holding) + 1
          /\ pc[c] \in Inside => Cardinality(Holding \ {c}) = Cardinality(Holding) - 1
      BY <2>0, FS_AddElement, FS_RemoveElement
    <2>3. CASE TakeSlot(c)
      <3>1. pc'[c] = "slot" /\ Holding' = Holding \cup {c} /\ pc' \in [Callers -> Labels]
        BY <2>0, <2>3, HoldingStep DEF TakeSlot, Labels, Inside
      <3> QED
        BY <1>0, <2>0, <2>1, <2>2, <2>3, <3>1 DEF TakeSlot, StackInv, Inside
    <2>4. CASE NoSlot(c) \/ Leave(c)
      <3>1. \E label \in {"out", "idle"} : Goto(c, label)
        BY <2>4 DEF NoSlot, Leave
      <3>2. /\ Holding' = Holding /\ pc' \in [Callers -> Labels]
            /\ \A d \in Callers : pc'[d] \in {"slot", "refused"} => pc[d] \in {"slot", "refused"}
        <4>1. pc[c] \notin Inside
          BY <2>4 DEF NoSlot, Leave, Inside
        <4> QED
          BY <2>0, <3>1, <4>1, HoldingStep DEF Labels, Inside
      <3> QED
        BY <2>4, <3>2 DEF NoSlot, Leave, StackInv
    <2>5. CASE GiveBack(c)
      <3>1. /\ Holding' = Holding \ {c} /\ pc' \in [Callers -> Labels]
            /\ pc[c] = "refused" /\ pc[c] \in Inside
        BY <2>0, <2>5, HoldingStep DEF GiveBack, Labels, Inside
      <3>2. Bulkhead
        BY <3>1 DEF StackInv
      <3>3. sem' \in 0..MaxConcurrent /\ sem' = Cardinality(Holding')
        BY <1>0, <2>0, <2>1, <2>2, <2>5, <3>1, <3>2, FS_CardinalityType DEF GiveBack, StackInv
      <3> QED
        BY <2>1, <2>5, <3>1, <3>2, <3>3 DEF GiveBack, StackInv
    <2>6. CASE Release(c)
      <3>1. /\ Holding' = Holding \ {c} /\ pc' \in [Callers -> Labels]
            /\ \A d \in Callers : pc'[d] \in {"slot", "refused"} => pc[d] \in {"slot", "refused"}
            /\ pc[c] \in Inside
        BY <2>0, <2>6, HoldingStep DEF Release, Labels, Inside
      <3>2. sem' \in 0..MaxConcurrent /\ (Bulkhead => sem' = Cardinality(Holding'))
        BY <1>0, <2>0, <2>2, <2>6, <3>1 DEF Release, StackInv
      <3>3. ~Bulkhead => sem' = 0
        BY <2>6 DEF Release, StackInv
      <3> QED
        BY <2>1, <2>6, <3>1, <3>2, <3>3 DEF Release, StackInv
    <2>7. ASSUME NEW ok \in BOOLEAN, InnerAllow(c, ok)
          PROVE  StackInv'
      <3> DEFINE label == CASE ok -> "in" [] ~ok /\ Bulkhead -> "refused" [] OTHER -> "out"
      <3>1. label \in {"in", "refused", "out"} /\ (Bulkhead => label \in Inside)
                /\ (~Bulkhead => label # "refused")
        BY DEF Inside
      <3>2. Goto(c, label) /\ pc[c] = (IF Bulkhead THEN "slot" ELSE "idle")
                /\ UNCHANGED <<sem, ewmaLatency, resetting, latency>>
        BY <2>7 DEF InnerAllow
      <3> HIDE DEF label
      <3>3. /\ pc' \in [Callers -> Labels]
            /\ Holding' = IF label \in Inside THEN Holding \cup {c} ELSE Holding \ {c}
            /\ \A d \in Callers : pc'[d] = IF d = c THEN label ELSE pc[d]
        BY <2>0, <3>1, <3>2, HoldingStep DEF Labels
      <3>4. IsFiniteSet(Holding') /\ (Bulkhead => Holding' = Holding)
        BY <2>0, <2>1, <3>1, <3>2, <3>3 DEF Inside
      <3> QED
        BY <3>1, <3>2, <3>3, <3>4 DEF StackInv
    <2>8. ASSUME NEW l \in Latencies, NEW failed \in BOOLEAN, Report(c, failed, l)
          PROVE  StackInv'
      <3>1. l \in Nat
        BY LayerAssumption
      <3>2. CASE Adaptive
        <4>1. /\ Holding' = Holding /\ pc' \in [Callers -> Labels] /\ pc[c] = "in"
              /\ \A d \in Callers : pc'[d] \in {"slot", "refused"} => pc[d] \in {"slot", "refused"}
          BY SMTT(30), <2>0, <2>8, <3>2, HoldingStep DEF Report, Labels, Inside
        <4> QED
          BY <2>8, <3>1, <3>2, <4>1 DEF Report, StackInv
      <3>3. CASE ~Adaptive
        BY <2>8, <3>3 DEF Report, StackInv, Holding
      <3> QED
        BY <3>2, <3>3
    <2>9. CASE UpdateThreshold(c)
      <3>1. /\ Holding' = Holding /\ pc' \in [Callers -> Labels]
            /\ \A d \in Callers : pc'[d] \in {"slot", "refused"} => pc[d] \in {"slot", "refused"}
        BY <2>0, <2>9, HoldingStep DEF UpdateThreshold, Labels, Inside
      <3>2. ewmaLatency' \in Nat
        BY <2>9, EwmaType DEF UpdateThreshold, StackInv
      <3> QED
        BY <2>9, <3>1, <3>2 DEF UpdateThreshold, StackInv
    <2> QED
      BY <1>1, <2>3, <2>4, <2>5, <2>6, <2>7, <2>8, <2>9 DEF CallerStep, RecordSuccess, RecordFailure
  <1>2. CASE UNCHANGED <<sem, ewmaLatency, resetting, callerVars>>
    BY <1>2 DEF StackInv, Holding, callerVars
  <1>3. CASE Reset
    BY <1>3, LayerAssumption DEF Reset, StackInv, Holding, callerVars
  <1>4. CASE ResetAdaptive
    <2>1. resetting' \in BOOLEAN
      BY <1>4, Zenon DEF ResetAdaptive
    <2> QED
      BY <1>4, <2>1 DEF ResetAdaptive, StackInv, Holding, callerVars
  <1> QED
    BY <1>1, <1>2, <1>3, <1>4 DEF Next, Serving, UpdateConfig, Tick, vars

\* A new stack is empty and its breaker new.
LEMMA StackInit == Init => Inv /\ FR!Init
  <1> SUFFICES ASSUME Init PROVE Inv /\ FR!Init
    OBVIOUS
  <1>1. FR!Init
    BY DEF Init, FR!Init
  <1>2. FRP!Inv
    BY <1>1, SameBreaker, FRP!InitInv
  <1>3. Holding = {}
    BY DEF Init, Holding
  <1>4. StackInv
    <2>1. resetting \in BOOLEAN
      BY Zenon DEF Init
    <2> QED
      BY <1>3, <2>1, FS_EmptySet, LayerAssumption DEF Init, StackInv, Labels, Bulkhead
  <1> QED
    BY <1>1, <1>2, <1>4 DEF Inv

\* The invariant holds always, and the breaker takes its own steps only.
LEMMA StackSafe == Spec => []Inv /\ [][FR!Next]_FR!breakerVars /\ [][FRP!Next]_FRP!breakerVars
  <1>1. ASSUME Inv, [Next]_vars
        PROVE  Inv' /\ [FR!Next]_FR!breakerVars /\ [FRP!Next]_FRP!breakerVars
    <2>1. StackInv' /\ [FR!Next]_FR!breakerVars
      BY <1>1, StackStepInv, StackStepRefines DEF Inv
    <2>2. [FRP!Next]_FRP!breakerVars
      BY <2>1, SameBreaker DEF FR!breakerVars, FRP!breakerVars
    <2>3. FRP!Inv'
      BY <1>1, <2>2, SameBreaker, FRP!StepInv DEF Inv
    <2> QED
      BY <2>1, <2>2, <2>3 DEF Inv
  <1> QED
    BY <1>1, StackInit, PTL DEF Spec

-----------------------------------------------------------------------------
\* bulkhead.go: the channel holds one element per caller inside the stack, so no slot
\* leaks, no receive blocks and the limit is never exceeded.
THEOREM StackSlotAccounting == Spec => []SlotAccounting
  <1>1. Inv => SlotAccounting
    <2> SUFFICES ASSUME Inv PROVE SlotAccounting
      OBVIOUS
    <2>1. TypeOK
      BY SameBreaker DEF Inv, StackInv, TypeOK, Labels
    <2>2. ASSUME Bulkhead
          PROVE  /\ sem = Cardinality(Holding)
                 /\ Cardinality({c \in Callers : pc[c] \in {"in", "adapt"}}) <= MaxConcurrent
      <3> DEFINE Admitted == {c \in Callers : pc[c] \in {"in", "adapt"}}
      <3>1. /\ IsFiniteSet(Holding) /\ sem = Cardinality(Holding)
            /\ sem \in 0..MaxConcurrent /\ MaxConcurrent \in Nat
        BY <2>2, LayerAssumption DEF Inv, StackInv
      <3>2. Admitted \in SUBSET Holding
        BY DEF Holding
      <3>3. IsFiniteSet(Admitted) /\ Cardinality(Admitted) <= Cardinality(Holding)
        BY <3>1, <3>2, FS_Subset
      <3>4. Cardinality(Admitted) \in Nat
        BY <3>3, FS_CardinalityType
      <3> QED
        BY <3>1, <3>3, <3>4
    <2> QED
      BY <2>1, <2>2 DEF SlotAccounting
  <1> QED
    BY <1>1, StackSafe, PTL

\* composite.go: whatever the layers, the callers and the reloads do, the failure-rate
\* breaker inside takes its own steps only, with thresholds the adaptive layer may set.
THEOREM StackImplementsBreaker == Spec => ImplementsFailureRate
  BY StackSafe, StackInit, PTL DEF Spec, ImplementsFailureRate, FR!Spec

\* And so the whole stack decides on the sliding window of its outcomes: the refinement of
\* failure_rate.go, proved there for a breaker on its own, holds inside every stack.
THEOREM StackImplementsWindow == Spec => FRP!ImplementsSlidingWindow
  <1>1. FRP!Spec => FRP!ImplementsSlidingWindow
    BY SameBreaker, FRP!RingImplementsWindow
  <1>2. Init => FRP!Init
    BY StackInit, SameBreaker
  <1> QED
    BY <1>1, <1>2, StackSafe, PTL DEF Spec, FRP!Spec
=============================================================================
