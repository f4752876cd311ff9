------------------------ MODULE FailureRateBreaker ------------------------
(***************************************************************************)
(* internal/circuitbreaker/failure_rate.go: the sliding-window breaker at  *)
(* the core of every breaker stack.  Every method holds b.mu from its      *)
(* first to its last line, so every method is one action.                  *)
(*                                                                         *)
(* The failure ratio is a float64 in the code.  Here thresholds are        *)
(* naturals in units of 1/Scale and the comparison of the ratio with the   *)
(* threshold is cross-multiplied.  openedAt is kept as the time elapsed    *)
(* since it was taken (time.Since(b.openedAt)), which stops growing at     *)
(* MaxElapsed, a value no reset timeout exceeds.                           *)
(***************************************************************************)
EXTENDS Integers, Sequences, FiniteSets

CONSTANTS
    Configs,        \* the circuit_breaker sections that pass validation
    InitialConfig,  \* the one the breaker is built from
    Thresholds,     \* what SetFailureThreshold may be given
    Scale,
    MaxElapsed

\* config.go validate: sizes, timeouts and probe counts are positive, the
\* threshold lies in (0, 1].
ASSUME ConfigAssumption ==
    /\ InitialConfig \in Configs
    /\ \A c \in Configs : /\ c.WindowSize \in Nat \ {0}
                          /\ c.FailureThreshold \in Nat
                          /\ c.ResetTimeout \in Nat
                          /\ c.HalfOpenMax \in Nat \ {0}
    /\ Thresholds \subseteq Nat

ASSUME ScaleAssumption == Scale \in Nat \ {0} /\ MaxElapsed \in Nat

VARIABLES
    state,              \* "Closed", "Open", "HalfOpen"
    window,             \* ring buffer: slot -> did the request fail
    head,               \* next write position
    count,              \* outcomes recorded, at most windowSize
    failures,           \* running count of failures in the window
    halfOpenSuccess,    \* probes that succeeded since the circuit half-opened
    sinceOpened,        \* time.Since(openedAt)
    windowSize, failureThreshold, resetTimeout, halfOpenMax

ring   == <<window, head, count, failures>>
fsm    == <<state, halfOpenSuccess, sinceOpened>>
params == <<windowSize, failureThreshold, resetTimeout, halfOpenMax>>
breakerVars == <<state, halfOpenSuccess, sinceOpened, window, head, count,
                 failures, windowSize, failureThreshold, resetTimeout, halfOpenMax>>

Slots(n) == 0..(n - 1)

\* make([]outcome, n)
EmptyWindow(n) == [i \in Slots(n) |-> FALSE]

-----------------------------------------------------------------------------
NewFailureRateBreaker(cfg) ==
    /\ state = "Closed"
    /\ window = EmptyWindow(cfg.WindowSize)
    /\ head = 0
    /\ count = 0
    /\ failures = 0
    /\ halfOpenSuccess = 0
    /\ sinceOpened = MaxElapsed         \* openedAt is the zero time
    /\ windowSize = cfg.WindowSize
    /\ failureThreshold = cfg.FailureThreshold
    /\ resetTimeout = cfg.ResetTimeout
    /\ halfOpenMax = cfg.HalfOpenMax

-----------------------------------------------------------------------------
\* Fault: the evicted outcome is not taken out of the running count.
recordOutcomeKeepsEvicted(failed) ==
    /\ window' = [window EXCEPT ![head] = failed]
    /\ count' = IF count = windowSize THEN count ELSE count + 1
    /\ failures' = IF failed THEN failures + 1 ELSE failures
    /\ head' = (head + 1) % windowSize

\* Overwrite the oldest slot of a full window, or the next free one, and keep
\* the running count of failures.
recordOutcome(failed) ==
    LET evicted == count = windowSize /\ window[head]
    IN  /\ window' = [window EXCEPT ![head] = failed]
        /\ count' = IF count = windowSize THEN count ELSE count + 1
        /\ failures' = (failures - (IF evicted THEN 1 ELSE 0))
                       + (IF failed THEN 1 ELSE 0)
        /\ head' = (head + 1) % windowSize

\* count >= windowSize && failureRate() >= failureThreshold
Tripped ==
    /\ count >= windowSize
    /\ failures * Scale >= failureThreshold * count

\* Fault: closing the circuit keeps the counters of the old window.
emptyWindowNot(newState) == UNCHANGED <<window, head, count, failures>>

\* Closing empties the window by its counters; the slots keep their contents.
emptyWindow(newState) ==
    /\ IF newState = "Closed" /\ state # "Closed"
       THEN head' = 0 /\ count' = 0 /\ failures' = 0
       ELSE UNCHANGED <<head, count, failures>>
    /\ UNCHANGED window

\* The rest of transitionTo; a transition to the current state does nothing.
enterState(newState) ==
    /\ state' = newState
    /\ halfOpenSuccess' = IF newState = state THEN halfOpenSuccess ELSE 0
    /\ sinceOpened' = IF newState = "Open" /\ state # "Open" THEN 0 ELSE sinceOpened

transitionTo(newState) == enterState(newState) /\ emptyWindow(newState)

-----------------------------------------------------------------------------
\* Fault: the timeout has passed but the circuit is not half-opened.
AllowStaysOpen(ok) ==
    /\ ok = (state # "Open" \/ sinceOpened >= resetTimeout)
    /\ UNCHANGED <<ring, fsm, params>>

\* Allow returns ok.  A half-open circuit admits every caller.
Allow(ok) ==
    /\ ok = (state # "Open" \/ sinceOpened >= resetTimeout)
    /\ IF state = "Open" /\ ok THEN transitionTo("HalfOpen") ELSE UNCHANGED <<ring, fsm>>
    /\ UNCHANGED params

RecordSuccess ==
    /\ \/ state = "Closed" /\ recordOutcome(FALSE) /\ UNCHANGED fsm
       \/ /\ state = "HalfOpen"
          /\ IF halfOpenSuccess + 1 >= halfOpenMax
             THEN transitionTo("Closed")
             ELSE /\ halfOpenSuccess' = halfOpenSuccess + 1
                  /\ UNCHANGED <<ring, state, sinceOpened>>
       \/ state = "Open" /\ UNCHANGED <<ring, fsm>>
    /\ UNCHANGED params

RecordFailure ==
    /\ UNCHANGED params
    /\ \/ /\ state = "Closed"
          /\ recordOutcome(TRUE)
          /\ IF Tripped' THEN enterState("Open") ELSE UNCHANGED fsm
       \/ state = "HalfOpen" /\ transitionTo("Open")
       \/ state = "Open" /\ UNCHANGED <<ring, fsm>>

\* On a closed breaker Reset changes nothing: the window is kept.
Reset == transitionTo("Closed") /\ UNCHANGED params

SetFailureThreshold(t) ==
    /\ failureThreshold' = t
    /\ UNCHANGED <<ring, fsm, windowSize, resetTimeout, halfOpenMax>>

\* Fault: the window is resized and its counters are kept.
UpdateConfigKeepsCounters(cfg) ==
    /\ failureThreshold' = cfg.FailureThreshold
    /\ resetTimeout' = cfg.ResetTimeout
    /\ halfOpenMax' = cfg.HalfOpenMax
    /\ windowSize' = cfg.WindowSize
    /\ window' = IF cfg.WindowSize = windowSize THEN window ELSE EmptyWindow(cfg.WindowSize)
    /\ UNCHANGED <<head, count, failures, fsm>>

\* CompositeBreaker.UpdateConfig, under the failure-rate breaker's mutex: a
\* reload replaces the parameters, and the window only if its size changed.
UpdateConfig(cfg) ==
    /\ failureThreshold' = cfg.FailureThreshold
    /\ resetTimeout' = cfg.ResetTimeout
    /\ halfOpenMax' = cfg.HalfOpenMax
    /\ windowSize' = cfg.WindowSize
    /\ IF cfg.WindowSize = windowSize
       THEN UNCHANGED ring
       ELSE /\ window' = EmptyWindow(cfg.WindowSize)
            /\ head' = 0 /\ count' = 0 /\ failures' = 0
    /\ UNCHANGED fsm

\* Time passes.
Tick ==
    /\ sinceOpened < MaxElapsed
    /\ sinceOpened' = sinceOpened + 1
    /\ UNCHANGED <<ring, state, halfOpenSuccess, params>>

-----------------------------------------------------------------------------
Init == NewFailureRateBreaker(InitialConfig)

\* A breaker on its own: its callers use its methods in any order.
Next ==
    \/ \E ok \in BOOLEAN : Allow(ok)
    \/ RecordSuccess
    \/ RecordFailure
    \/ Reset
    \/ \E t \in Thresholds : SetFailureThreshold(t)
    \/ \E cfg \in Configs : UpdateConfig(cfg)
    \/ Tick

Spec == Init /\ [][Next]_breakerVars

\* Time passes, and requests keep arriving and keep being answered well.
Traffic ==
    /\ WF_breakerVars(Tick)
    /\ WF_breakerVars(Allow(TRUE))
    /\ WF_breakerVars(RecordSuccess)

FairSpec == Spec /\ Traffic

-----------------------------------------------------------------------------
\* Every field keeps the range its Go code relies on; in particular head and
\* count always index the window they belong to, across resizes too.
TypeOK ==
    /\ state \in {"Closed", "Open", "HalfOpen"}
    /\ windowSize \in Nat \ {0}
    /\ window \in [Slots(windowSize) -> BOOLEAN]
    /\ head \in Slots(windowSize)
    /\ count \in 0..windowSize
    /\ failures \in Nat
    /\ halfOpenSuccess \in Nat
    /\ sinceOpened \in 0..MaxElapsed
    /\ failureThreshold \in Nat
    /\ resetTimeout \in Nat
    /\ halfOpenMax \in Nat \ {0}

\* The slots of the current window that hold a failure.  A window that is not
\* full has been filled from slot 0 on.
FailedSlots == {i \in Slots(count) : window[i]}

\* The running count equals the number of failures really in the window, after
\* any mix of evictions, transitions and resizes: failures++ and failures--
\* never drift from the slots, and head never leaves a hole between them.
RingCoherent ==
    /\ count < windowSize => head = count
    /\ failures = Cardinality(FailedSlots)

\* The window as the sequence of its outcomes, oldest first.
Recent == [i \in 1..count |-> window[(head + windowSize - count + i - 1) % windowSize]]

Abstract == INSTANCE SlidingWindowBreaker WITH
    recent <- Recent,
    WindowSizes <- {cfg.WindowSize : cfg \in Configs},
    Thresholds <- Thresholds \cup {cfg.FailureThreshold : cfg \in Configs}

\* The ring buffer with its counters takes every decision the abstract breaker
\* takes on the sequence of outcomes: it opens exactly on the failure that makes
\* the last windowSize outcomes bad enough, and forgets exactly on close and
\* resize.
ImplementsSlidingWindow == Abstract!Spec

\* Once failures stop, traffic closes the circuit again, whatever reloads and
\* resets do in between: no state is left from which probes cannot recover.
HealsWithTraffic ==
    (<>[][~RecordFailure]_breakerVars) => []<>(state = "Closed")

=============================================================================
