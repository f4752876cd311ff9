---------------------- MODULE FailureRateBreakerProofs ----------------------
(***************************************************************************)
(* The ring buffer of failure_rate.go never drifts, for every window size, *)
(* threshold, timeout and sequence of calls, reloads included.             *)
(*                                                                         *)
(* RingCoherent is inductive only together with TypeOK: the eviction step  *)
(* needs head to be a slot of the window, and the write into a window that *)
(* is not full needs head = count, the first conjunct of RingCoherent.     *)
(*                                                                         *)
(* With it the ring implements the sliding window of SlidingWindowBreaker: *)
(* every step maps to a step or a stutter of the abstract breaker.         *)
(***************************************************************************)
EXTENDS FailureRateBreaker, FiniteSetTheorems, SequenceTheorems, TLAPS

Inv == TypeOK /\ RingCoherent

\* The ring index (head + 1) % windowSize stays a slot and wraps only at the
\* last one.
LEMMA RingStep ==
    ASSUME NEW w \in Nat \ {0}, NEW h \in 0..(w - 1)
    PROVE  /\ h + 1 < w => (h + 1) % w = h + 1
           /\ h + 1 = w => (h + 1) % w = 0
           /\ (h + 1) % w \in 0..(w - 1)
  BY SMT

\* The set of failed slots is finite, as every window is.
LEMMA FailedSlotsFinite ==
    ASSUME TypeOK
    PROVE  /\ IsFiniteSet(FailedSlots)
           /\ Cardinality(FailedSlots) \in Nat
  <1>1. IsFiniteSet(0..(count - 1))
    BY FS_Interval DEF TypeOK
  <1>2. FailedSlots \subseteq 0..(count - 1)
    BY DEF FailedSlots, Slots
  <1>3. IsFiniteSet(FailedSlots)
    BY <1>1, <1>2, FS_Subset
  <1> QED
    BY <1>3, FS_CardinalityType

\* One recorded outcome keeps the ring well formed and its count exact: what
\* recordOutcome promises to RecordSuccess and RecordFailure.
LEMMA RecordOutcomeInv ==
    ASSUME Inv, NEW failed \in BOOLEAN, recordOutcome(failed), UNCHANGED windowSize
    PROVE  /\ window' \in [Slots(windowSize) -> BOOLEAN]
           /\ head' \in Slots(windowSize)
           /\ count' \in 0..windowSize
           /\ failures' \in Nat
           /\ RingCoherent'
  <1> DEFINE F == FailedSlots
             G == F \ {head}
             evicted == count = windowSize /\ window[head]
  <1>1. /\ windowSize \in Nat \ {0}
        /\ window \in [Slots(windowSize) -> BOOLEAN]
        /\ head \in 0..(windowSize - 1)
        /\ count \in 0..windowSize
        /\ failures = Cardinality(F)
        /\ count < windowSize => head = count
    BY DEF Inv, TypeOK, RingCoherent, Slots
  <1>2. /\ window' = [window EXCEPT ![head] = failed]
        /\ count' = IF count = windowSize THEN count ELSE count + 1
        /\ failures' = (failures - (IF evicted THEN 1 ELSE 0)) + (IF failed THEN 1 ELSE 0)
        /\ head' = (head + 1) % windowSize
    BY DEF recordOutcome
  <1>3. /\ window' \in [Slots(windowSize) -> BOOLEAN]
        /\ head' \in Slots(windowSize)
        /\ count' \in 0..windowSize
    BY <1>1, <1>2, RingStep DEF Slots
  <1>4. /\ IsFiniteSet(F) /\ Cardinality(F) \in Nat
        /\ IsFiniteSet(G) /\ Cardinality(G) \in Nat
    BY FailedSlotsFinite, FS_RemoveElement, FS_CardinalityType DEF Inv
  <1>5. head \in F <=> evicted
    BY <1>1 DEF FailedSlots, Slots
  <1>6. Cardinality(G) = failures - (IF evicted THEN 1 ELSE 0)
    <2>1. Cardinality(G) = IF head \in F THEN Cardinality(F) - 1 ELSE Cardinality(F)
      BY <1>4, FS_RemoveElement
    <2> QED
      BY <2>1, <1>5, <1>1, <1>4
  <1>7. FailedSlots' = IF failed THEN G \cup {head} ELSE G
    BY <1>1, <1>2 DEF FailedSlots, Slots
  <1>8. Cardinality(G \cup {head}) = Cardinality(G) + 1
    <2>1. head \notin G
      OBVIOUS
    <2> QED
      BY <2>1, <1>4, FS_AddElement
  <1>9. failures' = Cardinality(FailedSlots') /\ failures' \in Nat
    <2>1. CASE failed
      BY <2>1, <1>2, <1>4, <1>6, <1>7, <1>8, <1>1
    <2>2. CASE ~failed
      BY <2>2, <1>2, <1>4, <1>6, <1>7, <1>1
    <2> QED
      BY <2>1, <2>2
  <1>10. count' < windowSize => head' = count'
    BY <1>1, <1>2, RingStep
  <1> QED
    BY <1>3, <1>9, <1>10 DEF RingCoherent

\* A window whose counters are zero is coherent, whatever its slots hold.
LEMMA EmptyCoherent ==
    ASSUME head' = 0, count' = 0, failures' = 0
    PROVE  RingCoherent'
  <1>1. FailedSlots' = {}
    BY SMT DEF FailedSlots, Slots
  <1> QED
    BY <1>1, FS_EmptySet DEF RingCoherent

\* An unchanged ring in an unchanged window stays coherent.
LEMMA UnchangedCoherent ==
    ASSUME RingCoherent, UNCHANGED <<window, head, count, failures, windowSize>>
    PROVE  RingCoherent'
  BY DEF RingCoherent, FailedSlots, Slots

\* transitionTo keeps the invariant in every state it may be called with.
LEMMA TransitionInv ==
    ASSUME Inv, NEW s \in {"Closed", "Open", "HalfOpen"}, transitionTo(s), UNCHANGED params
    PROVE  Inv'
  <1>1. RingCoherent'
    <2>1. CASE s = "Closed" /\ state # "Closed"
      BY <2>1, EmptyCoherent DEF transitionTo, emptyWindow
    <2>2. CASE ~(s = "Closed" /\ state # "Closed")
      BY <2>2, UnchangedCoherent DEF Inv, transitionTo, emptyWindow, params
    <2> QED
      BY <2>1, <2>2
  <1>2. TypeOK'
    BY ScaleAssumption DEF Inv, TypeOK, transitionTo, emptyWindow, enterState, params, Slots
  <1> QED
    BY <1>1, <1>2 DEF Inv

\* Every step of a breaker keeps the invariant.
LEMMA StepInv ==
    ASSUME Inv, [Next]_breakerVars
    PROVE  Inv'
  <1> USE DEF params, ring, fsm
  <1>1. CASE \E ok \in BOOLEAN : Allow(ok)
    <2>1. CASE transitionTo("HalfOpen") /\ UNCHANGED params
      BY <2>1, TransitionInv
    <2>2. CASE UNCHANGED <<ring, fsm, params>>
      BY <2>2, UnchangedCoherent DEF Inv, TypeOK
    <2> QED
      BY <1>1, <2>1, <2>2 DEF Allow
  <1>2. CASE RecordSuccess
    <2>1. CASE state = "Closed" /\ recordOutcome(FALSE) /\ UNCHANGED fsm
      BY <1>2, <2>1, RecordOutcomeInv DEF RecordSuccess, Inv, TypeOK
    <2>2. CASE transitionTo("Closed")
      BY <1>2, <2>2, TransitionInv DEF RecordSuccess
    <2>3. CASE halfOpenSuccess' = halfOpenSuccess + 1 /\ UNCHANGED <<ring, state, sinceOpened>>
      BY <1>2, <2>3, UnchangedCoherent DEF RecordSuccess, Inv, TypeOK
    <2>4. CASE UNCHANGED <<ring, fsm>>
      BY <1>2, <2>4, UnchangedCoherent DEF RecordSuccess, Inv, TypeOK
    <2> QED
      BY <1>2, <2>1, <2>2, <2>3, <2>4 DEF RecordSuccess
  <1>3. CASE RecordFailure
    <2>1. CASE recordOutcome(TRUE) /\ enterState("Open")
      <3>1. UNCHANGED params
        BY <1>3 DEF RecordFailure
      <3>2. /\ state' = "Open"
            /\ halfOpenSuccess' \in Nat
            /\ sinceOpened' \in 0..MaxElapsed
        BY <2>1, ScaleAssumption DEF enterState, Inv, TypeOK
      <3> QED
        BY <2>1, <3>1, <3>2, RecordOutcomeInv DEF Inv, TypeOK
    <2>2. CASE recordOutcome(TRUE) /\ UNCHANGED fsm
      BY <1>3, <2>2, RecordOutcomeInv DEF RecordFailure, Inv, TypeOK
    <2>3. CASE transitionTo("Open")
      BY <1>3, <2>3, TransitionInv DEF RecordFailure
    <2>4. CASE UNCHANGED <<ring, fsm>>
      BY <1>3, <2>4, UnchangedCoherent DEF RecordFailure, Inv, TypeOK
    <2> QED
      BY <1>3, <2>1, <2>2, <2>3, <2>4 DEF RecordFailure
  <1>4. CASE Reset
    BY <1>4, TransitionInv DEF Reset
  <1>5. CASE \E t \in Thresholds : SetFailureThreshold(t)
    BY <1>5, UnchangedCoherent, ConfigAssumption DEF SetFailureThreshold, Inv, TypeOK
  <1>6. ASSUME NEW cfg \in Configs, UpdateConfig(cfg)
        PROVE  Inv'
    <2>1. CASE cfg.WindowSize = windowSize
      BY <1>6, <2>1, UnchangedCoherent, ConfigAssumption DEF UpdateConfig, Inv, TypeOK
    <2>2. CASE cfg.WindowSize # windowSize
      <3>1. RingCoherent'
        BY <1>6, <2>2, EmptyCoherent DEF UpdateConfig
      <3>2. window' \in [Slots(windowSize') -> BOOLEAN]
        BY <1>6, <2>2 DEF UpdateConfig, EmptyWindow
      <3>3. TypeOK'
        BY <1>6, <2>2, <3>2, ConfigAssumption DEF UpdateConfig, Inv, TypeOK, Slots
      <3> QED
        BY <3>1, <3>3 DEF Inv
    <2> QED
      BY <2>1, <2>2
  <1>7. CASE Tick
    BY <1>7, UnchangedCoherent, ScaleAssumption DEF Tick, Inv, TypeOK
  <1>8. CASE UNCHANGED breakerVars
    BY <1>8, UnchangedCoherent DEF breakerVars, Inv, TypeOK
  <1> QED
    BY <1>1, <1>2, <1>3, <1>4, <1>5, <1>6, <1>7, <1>8 DEF Next

\* A new breaker has an empty, coherent window.
LEMMA InitInv == Init => Inv
  <1> SUFFICES ASSUME Init PROVE Inv
    OBVIOUS
  <1>1. TypeOK
    BY ConfigAssumption, ScaleAssumption
    DEF Init, NewFailureRateBreaker, TypeOK, EmptyWindow, Slots
  <1>2. FailedSlots = {}
    BY SMT DEF Init, NewFailureRateBreaker, FailedSlots, Slots
  <1> QED
    BY <1>1, <1>2, FS_EmptySet DEF Inv, RingCoherent, Init, NewFailureRateBreaker

\* Every reachable breaker is well typed: head, count and window belong
\* together after every resize, for every configuration that passes validation.
THEOREM BreakerTypeOK == Spec => []TypeOK
  <1>1. Spec => []Inv
    BY InitInv, StepInv, PTL DEF Spec
  <1> QED
    BY <1>1, PTL DEF Inv

\* The running failure count of the breaker is exact in every reachable state.
THEOREM BreakerRingCoherent == Spec => []RingCoherent
  <1>1. Spec => []Inv
    BY InitInv, StepInv, PTL DEF Spec
  <1> QED
    BY <1>1, PTL DEF Inv

-----------------------------------------------------------------------------
(***************************************************************************)
(* The refinement.  Recent reads the ring from its oldest slot on, so the  *)
(* argument is about slot numbers modulo the window size: a full window    *)
(* starts at head, any other at slot 0.                                    *)
(***************************************************************************)

\* The window size is always one that some configuration asks for.
Sized == windowSize \in {cfg.WindowSize : cfg \in Configs}

\* One lap around the ring.
LEMMA Lap ==
    ASSUME NEW w \in Nat \ {0}, NEW n \in 0..(2 * w - 1)
    PROVE  n % w = IF n < w THEN n ELSE n - w
  <1>1. CASE n < w
    BY <1>1, SMT
  <1>2. CASE n >= w
    <2>1. n - w \in 0..(w - 1) /\ n = w * 1 + (n - w)
      BY <1>2
    <2> QED
      BY <1>2, <2>1, SMT
  <1> QED
    BY <1>1, <1>2

\* The slot that holds the i-th oldest outcome.
RecentReads ==
    /\ Recent \in Seq(BOOLEAN) /\ Len(Recent) = count
    /\ \A i \in 1..count :
         Recent[i] = window[IF count < windowSize THEN i - 1
                            ELSE IF head + i - 1 < windowSize THEN head + i - 1
                            ELSE head + i - 1 - windowSize]

\* Recent is a sequence of count outcomes and reads them from those slots.
LEMMA RecentSlots == Inv => RecentReads
  <1> SUFFICES ASSUME Inv PROVE RecentReads
    OBVIOUS
  <1>1. /\ windowSize \in Nat \ {0} /\ head \in 0..(windowSize - 1) /\ count \in 0..windowSize
        /\ window \in [0..(windowSize - 1) -> BOOLEAN]
        /\ count < windowSize => head = count
    BY DEF Inv, TypeOK, RingCoherent, Slots
  <1>2. ASSUME NEW i \in 1..count
        PROVE  /\ Recent[i] = window[IF count < windowSize THEN i - 1
                                     ELSE IF head + i - 1 < windowSize THEN head + i - 1
                                     ELSE head + i - 1 - windowSize]
               /\ Recent[i] \in BOOLEAN
    <2> DEFINE n == head + windowSize - count + i - 1
    <2>1. n \in 0..(2 * windowSize - 1)
      BY <1>1
    <2>2. n % windowSize = IF n < windowSize THEN n ELSE n - windowSize
      <3> HIDE DEF n
      <3> QED
        BY <1>1, <2>1, Lap
    <2>3. (IF n < windowSize THEN n ELSE n - windowSize) =
             IF count < windowSize THEN i - 1
             ELSE IF head + i - 1 < windowSize THEN head + i - 1
             ELSE head + i - 1 - windowSize
      BY <1>1
    <2> QED
      BY <1>1, <2>2, <2>3 DEF Recent
  <1>3. Recent \in [1..count -> BOOLEAN]
    BY <1>2 DEF Recent
  <1> QED
    BY <1>1, <1>2, <1>3 DEF RecentReads

\* recordOutcome overwrites exactly the oldest outcome of a full window, and appends to
\* any other.
LEMMA SlideRecent ==
    ASSUME Inv, Inv', NEW failed \in BOOLEAN, recordOutcome(failed), UNCHANGED windowSize
    PROVE  Recent' = Abstract!Slide(Recent, failed)
  <1>1. /\ windowSize \in Nat \ {0} /\ head \in 0..(windowSize - 1) /\ count \in 0..windowSize
        /\ window \in [0..(windowSize - 1) -> BOOLEAN]
        /\ count < windowSize => head = count
    BY DEF Inv, TypeOK, RingCoherent, Slots
  <1>2. /\ window' = [window EXCEPT ![head] = failed]
        /\ count' = IF count = windowSize THEN count ELSE count + 1
        /\ head' = IF head + 1 < windowSize THEN head + 1 ELSE 0
    <2>1. /\ head + 1 < windowSize => (head + 1) % windowSize = head + 1
          /\ head + 1 = windowSize => (head + 1) % windowSize = 0
      BY <1>1, RingStep
    <2>2. head + 1 < windowSize \/ head + 1 = windowSize
      BY <1>1
    <2> QED
      BY <1>1, <2>1, <2>2 DEF recordOutcome
  <1>3. /\ Recent' \in Seq(BOOLEAN) /\ Len(Recent') = count'
        /\ \A i \in 1..count' :
             Recent'[i] = window'[IF count' < windowSize THEN i - 1
                                  ELSE IF head' + i - 1 < windowSize THEN head' + i - 1
                                  ELSE head' + i - 1 - windowSize]
    <2>1. RecentReads'
      BY RecentSlots, PTL
    <2> QED
      BY <2>1 DEF RecentReads
  <1> USE DEF RecentReads
  <1>4. CASE count < windowSize
    <2>1. /\ Append(Recent, failed) \in Seq(BOOLEAN) /\ Len(Append(Recent, failed)) = count'
          /\ \A i \in 1..count' : Append(Recent, failed)[i] = IF i <= count THEN Recent[i] ELSE failed
      BY <1>1, <1>2, <1>4, RecentSlots
    <2>2. \A i \in 1..count' : Recent'[i] = Append(Recent, failed)[i]
      BY <1>1, <1>2, <1>3, <1>4, <2>1, RecentSlots
    <2>3. Recent' = Append(Recent, failed)
      BY <1>3, <2>1, <2>2, SeqEqual
    <2> QED
      BY <1>1, <1>4, <2>3, RecentSlots DEF Abstract!Slide
  <1>5. CASE count = windowSize
    <2> DEFINE T == Tail(Recent)
    <2>1. /\ T \in Seq(BOOLEAN) /\ Len(T) = count - 1
          /\ \A i \in 1..(count - 1) : T[i] = Recent[i + 1]
      BY <1>1, <1>5, RecentSlots
    <2>2. /\ Append(T, failed) \in Seq(BOOLEAN) /\ Len(Append(T, failed)) = count'
          /\ \A i \in 1..count' : Append(T, failed)[i] = IF i < count THEN Recent[i + 1] ELSE failed
      <3> HIDE DEF T
      <3> QED
        BY <1>1, <1>2, <1>5, <2>1
    <2>3. \A i \in 1..count' : Recent'[i] = Append(T, failed)[i]
      <3> HIDE DEF T
      <3> QED
        BY <1>1, <1>2, <1>3, <1>5, <2>2, RecentSlots
    <2>4. Recent' = Append(T, failed)
      BY <1>3, <2>2, <2>3, SeqEqual
    <2> QED
      BY <1>5, <2>4, RecentSlots DEF Abstract!Slide
  <1> QED
    BY <1>1, <1>4, <1>5

\* An emptied window is the empty sequence.
LEMMA EmptyRecent ==
    ASSUME Inv', count' = 0
    PROVE  Recent' = <<>>
  <1>1. RecentReads'
    BY RecentSlots, PTL
  <1> QED
    BY <1>1, EmptySeq DEF RecentReads

\* A ring that is left alone reads the same.
LEMMA SameRecent ==
    ASSUME UNCHANGED <<window, head, count, windowSize>>
    PROVE  Recent' = Recent
  BY DEF Recent

\* In a full window the outcomes of the sequence and the slots of the ring correspond one
\* to one, so both count the same failures.
Counted == count = windowSize => Abstract!FailedIn(Recent) = failures

\* The running count is the number of failures in the sequence.
LEMMA RecentCounted == Inv => Counted
  <1> SUFFICES ASSUME Inv, count = windowSize
               PROVE  Abstract!FailedIn(Recent) = failures
    BY DEF Counted
  <1>1. /\ windowSize \in Nat \ {0} /\ head \in 0..(windowSize - 1)
        /\ window \in [0..(windowSize - 1) -> BOOLEAN]
        /\ failures = Cardinality(FailedSlots)
    BY DEF Inv, TypeOK, RingCoherent, Slots
  <1> DEFINE slot(i) == IF head + i - 1 < windowSize THEN head + i - 1 ELSE head + i - 1 - windowSize
             A == {i \in 1..windowSize : Recent[i]}
             f == [i \in A |-> slot(i)]
  <1>2. \A i \in 1..windowSize : slot(i) \in 0..(windowSize - 1) /\ Recent[i] = window[slot(i)]
    BY <1>1, RecentSlots DEF RecentReads
  <1>3. Abstract!FailedIn(Recent) = Cardinality(A)
    <2>1. Len(Recent) = windowSize
      BY RecentSlots DEF RecentReads
    <2>2. Abstract!FailedIn(Recent) = Cardinality({i \in 1..Len(Recent) : Recent[i]})
      BY DEF Abstract!FailedIn, Abstract!Cardinality, Cardinality
    <2> QED
      BY <2>1, <2>2
  <1>4. f \in [A -> FailedSlots]
    BY <1>2 DEF FailedSlots, Slots
  <1>5. \A i, j \in A : f[i] = f[j] => i = j
    BY <1>1
  <1>6. ASSUME NEW k \in FailedSlots PROVE \E i \in A : f[i] = k
    <2>1. k \in 0..(windowSize - 1) /\ window[k]
      BY DEF FailedSlots, Slots
    <2> DEFINE i == IF k >= head THEN k - head + 1 ELSE k - head + 1 + windowSize
    <2>2. i \in 1..windowSize /\ slot(i) = k
      BY <1>1, <2>1
    <2> HIDE DEF i
    <2>3. i \in A
      BY <1>2, <2>1, <2>2
    <2> QED
      BY <2>2, <2>3
  <1>7. f \in Bijection(A, FailedSlots)
    <2> HIDE DEF f, A
    <2> QED
      BY <1>4, <1>5, <1>6 DEF Bijection, Injection, Surjection, IsInjective
  <1>8. IsFiniteSet(A)
    <2>1. IsFiniteSet(1..windowSize)
      BY <1>1, FS_Interval
    <2>2. A \in SUBSET (1..windowSize)
      OBVIOUS
    <2> QED
      BY <2>1, <2>2, FS_Subset
  <1>9. Cardinality(FailedSlots) = Cardinality(A)
    <2> HIDE DEF f, A
    <2> QED
      BY <1>7, <1>8, FS_Bijection DEF ExistsBijection
  <1> QED
    BY <1>1, <1>3, <1>9

\* The code's test, after the failure was recorded, is the abstract one.
LEMMA TrippedMustOpen ==
    ASSUME Inv', UNCHANGED <<windowSize, failureThreshold>>
    PROVE  Tripped' <=> Abstract!MustOpen(Recent')
  <1>1. RecentReads' /\ Counted'
    BY RecentSlots, RecentCounted, PTL
  <1>2. windowSize \in Nat \ {0} /\ count' \in 0..windowSize
    BY DEF Inv, TypeOK
  <1>3. Len(Recent') = count'
    BY <1>1 DEF RecentReads
  <1>4. CASE count' = windowSize
    <2>1. Abstract!FailedIn(Recent') = failures'
      BY <1>1, <1>4 DEF Counted, Abstract!FailedIn
    <2> QED
      BY <1>2, <1>3, <1>4, <2>1 DEF Tripped, Abstract!MustOpen
  <1>5. CASE count' < windowSize
    BY <1>2, <1>3, <1>5 DEF Tripped, Abstract!MustOpen
  <1> QED
    BY <1>2, <1>4, <1>5

\* Every step of the code is a step of the abstract breaker or leaves it as it is.
LEMMA StepRefines ==
    ASSUME Inv, Inv', Sized, Next
    PROVE  Sized' /\ (Abstract!Next \/ UNCHANGED Abstract!vars)
  <1> USE DEF params, ring, fsm
  <1> DEFINE Goal == Sized' /\ (Abstract!Next \/ UNCHANGED Abstract!vars)
  <1>1. ASSUME NEW ok \in BOOLEAN, Allow(ok) PROVE Goal
    <2>1. UNCHANGED <<window, head, count, windowSize, failureThreshold>> /\ Sized'
      BY <1>1 DEF Allow, transitionTo, emptyWindow, Sized
    <2>2. state' = state \/ (state = "Open" /\ state' = "HalfOpen")
      BY <1>1 DEF Allow, transitionTo, enterState
    <2> QED
      BY <2>1, <2>2, SameRecent DEF Abstract!Next, Abstract!Probe, Abstract!vars
  <1>2. CASE RecordSuccess
    <2>0. UNCHANGED <<windowSize, failureThreshold>> /\ Sized'
      BY <1>2 DEF RecordSuccess, Sized
    <2>1. CASE state = "Closed" /\ recordOutcome(FALSE) /\ UNCHANGED fsm
      <3>1. Recent' = Abstract!Slide(Recent, FALSE)
        BY <2>0, <2>1, SlideRecent
      <3> QED
        BY <2>0, <2>1, <3>1 DEF Abstract!Next, Abstract!Succeed
    <2>2. CASE state = "HalfOpen" /\ transitionTo("Closed")
      <3>1. Recent' = <<>>
        BY <2>2, EmptyRecent DEF transitionTo, emptyWindow
      <3> QED
        BY <2>0, <2>2, <3>1 DEF Abstract!Next, Abstract!Succeed, transitionTo, enterState
    <2>3. CASE UNCHANGED <<ring, state>>
      BY <2>0, <2>3, SameRecent DEF Abstract!vars
    <2> QED
      BY <1>2, <2>1, <2>2, <2>3 DEF RecordSuccess
  <1>3. CASE RecordFailure
    <2>0. UNCHANGED <<windowSize, failureThreshold>> /\ Sized'
      BY <1>3 DEF RecordFailure, Sized
    <2>1. CASE /\ state = "Closed" /\ recordOutcome(TRUE)
               /\ IF Tripped' THEN enterState("Open") ELSE UNCHANGED fsm
      <3>1. Recent' = Abstract!Slide(Recent, TRUE)
        BY <2>0, <2>1, SlideRecent
      <3>2. state' = IF Abstract!MustOpen(Recent') THEN "Open" ELSE "Closed"
        <4>1. Tripped' <=> Abstract!MustOpen(Recent')
          BY <2>0, TrippedMustOpen
        <4>2. Tripped' => state' = "Open"
          BY <2>1 DEF enterState
        <4>3. ~Tripped' => state' = "Closed"
          BY <2>1
        <4> QED
          BY <4>1, <4>2, <4>3, Zenon
      <3> QED
        BY <2>0, <2>1, <3>1, <3>2 DEF Abstract!Next, Abstract!Fail
    <2>2. CASE state = "HalfOpen" /\ transitionTo("Open")
      <3>1. Recent' = Recent /\ state' = "Open"
        BY <2>0, <2>2, SameRecent DEF transitionTo, emptyWindow, enterState
      <3> QED
        BY <2>0, <2>2, <3>1 DEF Abstract!Next, Abstract!Fail
    <2>3. CASE UNCHANGED <<ring, fsm>>
      BY <2>0, <2>3, SameRecent DEF Abstract!vars
    <2> QED
      BY <1>3, <2>1, <2>2, <2>3 DEF RecordFailure
  <1>4. CASE Reset
    <2>1. CASE state = "Closed"
      BY <1>4, <2>1, SameRecent DEF Reset, transitionTo, emptyWindow, enterState, Abstract!vars, Sized
    <2>2. CASE state # "Closed"
      <3>1. Recent' = <<>>
        BY <1>4, <2>2, EmptyRecent DEF Reset, transitionTo, emptyWindow
      <3> QED
        BY <1>4, <2>2, <3>1 DEF Reset, transitionTo, enterState, Abstract!Next, Abstract!ForceClosed, Sized
    <2> QED
      BY <2>1, <2>2
  <1>5. ASSUME NEW t \in Thresholds, SetFailureThreshold(t) PROVE Goal
    <2>1. Recent' = Recent /\ Sized'
      BY <1>5, SameRecent DEF SetFailureThreshold, Sized
    <2> QED
      BY <1>5, <2>1 DEF SetFailureThreshold, Abstract!Next, Abstract!Configure, Sized
  <1>6. ASSUME NEW cfg \in Configs, UpdateConfig(cfg) PROVE Goal
    <2>1. Recent' = IF windowSize' = windowSize THEN Recent ELSE <<>>
      <3>1. CASE cfg.WindowSize = windowSize
        BY <1>6, <3>1, SameRecent DEF UpdateConfig
      <3>2. CASE cfg.WindowSize # windowSize
        BY <1>6, <3>2, EmptyRecent DEF UpdateConfig
      <3> QED
        BY <1>6, <3>1, <3>2 DEF UpdateConfig
    <2>2. Sized' /\ failureThreshold' \in {c.FailureThreshold : c \in Configs} /\ state' = state
      BY <1>6 DEF UpdateConfig, Sized
    <2> QED
      BY <2>1, <2>2 DEF Abstract!Next, Abstract!Configure, Sized
  <1>7. CASE Tick
    BY <1>7, SameRecent DEF Tick, Abstract!vars, Sized
  <1> QED
    BY <1>1, <1>2, <1>3, <1>4, <1>5, <1>6, <1>7 DEF Next

\* failure_rate.go implements the sliding window: the ring buffer, the running count and
\* the clock take every decision the breaker over the sequence of outcomes takes.
THEOREM RingImplementsWindow == Spec => ImplementsSlidingWindow
  <1>1. Init => Abstract!Init /\ Sized
    <2> SUFFICES ASSUME Init PROVE Abstract!Init /\ Sized
      OBVIOUS
    <2>1. Recent = <<>>
      BY InitInv, RecentSlots, EmptySeq DEF RecentReads, Init, NewFailureRateBreaker
    <2> QED
      BY <2>1, ConfigAssumption DEF Init, NewFailureRateBreaker, Abstract!Init, Sized
  <1>2. ASSUME Inv, Inv', Sized, [Next]_breakerVars
        PROVE  Sized' /\ [Abstract!Next]_Abstract!vars
    <2>1. CASE Next
      BY <1>2, <2>1, StepRefines
    <2>2. CASE UNCHANGED breakerVars
      BY <2>2, <1>2, SameRecent DEF breakerVars, Abstract!vars, Sized
    <2> QED
      BY <1>2, <2>1, <2>2
  <1>3. Spec => []Inv
    BY InitInv, StepInv, PTL DEF Spec
  <1> QED
    BY <1>1, <1>2, <1>3, PTL DEF Spec, ImplementsSlidingWindow, Abstract!Spec
=============================================================================
