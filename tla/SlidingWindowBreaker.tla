----------------------- MODULE SlidingWindowBreaker -----------------------
(***************************************************************************)
(* What a failure-rate circuit breaker promises, without the ring buffer,  *)
(* the running counters, the probe counter and the clock of                *)
(* internal/circuitbreaker/failure_rate.go: the decision to open is taken  *)
(* on the outcome sequence itself.                                         *)
(*                                                                         *)
(* recent holds the outcomes (TRUE = failed), oldest first, since the      *)
(* window was last emptied, and never more than windowSize of them.        *)
(***************************************************************************)
EXTENDS Integers, Sequences, FiniteSets

CONSTANTS
    Scale,          \* ratios are counted in units of 1/Scale
    WindowSizes,    \* the window sizes a configuration may ask for
    Thresholds      \* the failure thresholds, in units of 1/Scale

VARIABLES
    state,              \* "Closed", "Open" or "HalfOpen"
    recent,             \* the outcomes of the sliding window, oldest first
    windowSize,
    failureThreshold

vars == <<state, recent, windowSize, failureThreshold>>

-----------------------------------------------------------------------------
\* The window w after one more outcome: the oldest one leaves a full window.
Slide(w, failed) ==
    IF Len(w) = windowSize THEN Append(Tail(w), failed) ELSE Append(w, failed)

FailedIn(w) == Cardinality({i \in 1..Len(w) : w[i]})

\* The window w is full and its failure ratio has reached the threshold.
MustOpen(w) ==
    /\ Len(w) = windowSize
    /\ FailedIn(w) * Scale >= failureThreshold * Len(w)

-----------------------------------------------------------------------------
Init ==
    /\ state = "Closed"
    /\ recent = <<>>
    /\ windowSize \in WindowSizes
    /\ failureThreshold \in Thresholds

\* A success never opens the circuit, whatever the ratio is.
Succeed ==
    /\ \/ /\ state = "Closed"
          /\ recent' = Slide(recent, FALSE)
          /\ state' = "Closed"
       \/ /\ state = "HalfOpen"     \* the last probe that was needed
          /\ recent' = <<>>
          /\ state' = "Closed"
    /\ UNCHANGED <<windowSize, failureThreshold>>

\* A failure opens a closed circuit exactly when the window that ends with it
\* is full and bad enough, and always re-opens a half-open one.
Fail ==
    /\ \/ /\ state = "Closed"
          /\ recent' = Slide(recent, TRUE)
          /\ state' = IF MustOpen(recent') THEN "Open" ELSE "Closed"
       \/ /\ state = "HalfOpen"
          /\ state' = "Open"
          /\ UNCHANGED recent
    /\ UNCHANGED <<windowSize, failureThreshold>>

\* An open circuit lets a first probe through.
Probe ==
    /\ state = "Open"
    /\ state' = "HalfOpen"
    /\ UNCHANGED <<recent, windowSize, failureThreshold>>

ForceClosed ==
    /\ state # "Closed"
    /\ state' = "Closed"
    /\ recent' = <<>>
    /\ UNCHANGED <<windowSize, failureThreshold>>

\* Changing the size empties the window; changing only the threshold keeps it.
Configure ==
    /\ windowSize' \in WindowSizes
    /\ failureThreshold' \in Thresholds
    /\ recent' = IF windowSize' = windowSize THEN recent ELSE <<>>
    /\ UNCHANGED state

Next == Succeed \/ Fail \/ Probe \/ ForceClosed \/ Configure

Spec == Init /\ [][Next]_vars
=============================================================================
