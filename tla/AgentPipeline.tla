--------------------------- MODULE AgentPipeline ---------------------------
(***************************************************************************)
(* internal/envelope/agent.go: Pipeline.Run with its error budget and the  *)
(* operator's Enable and Disable.  Several goroutines may run the pipeline *)
(* at once; they share the budget under p.mu and nothing else.             *)
(*                                                                         *)
(* Time is kept as distances: wait is how far enabledFrom lies ahead (0:   *)
(* none, or in the past) and age[r] how long ago run r read its "now".     *)
(* consecutiveErrors is only compared with MaxConsecutiveErrors, so it is  *)
(* counted up to that bound.                                               *)
(***************************************************************************)
EXTENDS Integers, FiniteSets

CONSTANTS
    Runs,                   \* goroutines that call Run
    Reviewers,              \* number of reviewers
    MaxConsecutiveErrors,   \* of the ErrorBudget
    Cooldowns,              \* what cooldown may be configured to, 0 for none
    MaxRunAge               \* runs longer than this count as this long

ASSUME PipelineAssumption ==
    /\ Reviewers \in Nat /\ MaxConsecutiveErrors \in Nat \ {0}
    /\ Cooldowns \subseteq Nat
    /\ MaxRunAge \in Nat /\ \A c \in Cooldowns : MaxRunAge >= c

VARIABLES
    Cooldown,           \* of the ErrorBudget, 0: stay disabled until Enable; never changes
    enabled,            \* operator flag
    consecutiveErrors,
    wait,
    stage,              \* run -> "idle", "plan", "review"
    next,               \* run -> index of the next reviewer
    age,
    cancelled,          \* run -> is its context done?
    out                 \* run -> the outcome it returned last

budget == <<Cooldown, enabled, consecutiveErrors, wait>>
pipelineVars == <<Cooldown, enabled, consecutiveErrors, wait, stage, next, age, cancelled, out>>

Forever == Cooldown + 1     \* farFuture: time does not bring it closer

With(f, r, v) == [f EXCEPT ![r] = v]

-----------------------------------------------------------------------------
PipelineInit ==
    /\ Cooldown \in Cooldowns
    /\ enabled = TRUE
    /\ consecutiveErrors = 0
    /\ wait = 0
    /\ stage = [r \in Runs |-> "idle"]
    /\ next = [r \in Runs |-> 0]
    /\ age = [r \in Runs |-> 0]
    /\ cancelled = [r \in Runs |-> FALSE]
    /\ out = [r \in Runs |-> "none"]

-----------------------------------------------------------------------------
\* Fault: the cooldown is not looked at.
isEnabledFlagOnly == enabled

isEnabled == enabled /\ wait = 0

Return(r, kind) ==
    /\ stage' = With(stage, r, "idle")
    /\ next' = With(next, r, 0)
    /\ age' = With(age, r, 0)
    /\ cancelled' = With(cancelled, r, FALSE)
    /\ out' = With(out, r, kind)

\* One more error; when the budget is spent, enabledFrom becomes cooldown after
\* the moment the caller passes as now, elapsed ago.
recordError(elapsed) ==
    LET errors == IF consecutiveErrors < MaxConsecutiveErrors
                  THEN consecutiveErrors + 1 ELSE consecutiveErrors
    IN  /\ consecutiveErrors' = errors
        /\ wait' = IF errors < MaxConsecutiveErrors THEN wait
                   ELSE IF Cooldown = 0 THEN Forever
                   ELSE IF elapsed < Cooldown THEN Cooldown - elapsed ELSE 0
        /\ UNCHANGED <<Cooldown, enabled>>

\* Fault: a success also ends the cooldown.
recordSuccessEnables ==
    /\ consecutiveErrors' = 0
    /\ wait' = 0
    /\ UNCHANGED <<Cooldown, enabled>>

recordSuccess == consecutiveErrors' = 0 /\ UNCHANGED <<Cooldown, enabled, wait>>

-----------------------------------------------------------------------------
\* Run, up to the planner: the context is looked at before the budget.
BeginCancelled(r) ==
    /\ stage[r] = "idle"
    /\ recordError(0)
    /\ Return(r, "error")

BeginDisabled(r) ==
    /\ stage[r] = "idle" /\ ~isEnabled
    /\ Return(r, "disabled")
    /\ UNCHANGED budget

Begin(r) ==
    /\ stage[r] = "idle" /\ isEnabled
    /\ stage' = With(stage, r, "plan")
    /\ UNCHANGED <<budget, next, age, cancelled, out>>

\* The planner fails; the error is dated back to the beginning of the run.
PlanError(r) ==
    /\ stage[r] = "plan"
    /\ recordError(age[r])
    /\ Return(r, "error")

PlanNothing(r) ==
    /\ stage[r] = "plan"
    /\ recordSuccess
    /\ Return(r, "no_proposal")

PlanProposal(r) ==
    /\ stage[r] = "plan"
    /\ stage' = With(stage, r, "review")
    /\ next' = With(next, r, 1)
    /\ UNCHANGED <<budget, age, cancelled, out>>

\* A reviewer fails, or the context is done before it is asked.  A reviewer is
\* asked only while the context is live.
ReviewError(r) ==
    /\ stage[r] = "review" /\ next[r] <= Reviewers
    /\ recordError(0)
    /\ Return(r, "error")

ReviewVeto(r) ==
    /\ stage[r] = "review" /\ next[r] <= Reviewers /\ ~cancelled[r]
    /\ recordSuccess
    /\ Return(r, "veto")

ReviewPass(r) ==
    /\ stage[r] = "review" /\ next[r] <= Reviewers /\ ~cancelled[r]
    /\ next' = With(next, r, next[r] + 1)
    /\ UNCHANGED <<budget, stage, age, cancelled, out>>

Emit(r) ==
    /\ stage[r] = "review" /\ next[r] > Reviewers
    /\ recordSuccess
    /\ Return(r, "emit")

Cancel(r) ==
    /\ stage[r] # "idle" /\ ~cancelled[r]
    /\ cancelled' = With(cancelled, r, TRUE)
    /\ UNCHANGED <<budget, stage, next, age, out>>

-----------------------------------------------------------------------------
Disable ==
    /\ enabled' = FALSE
    /\ UNCHANGED <<Cooldown, consecutiveErrors, wait, stage, next, age, cancelled, out>>

Enable ==
    /\ enabled' = TRUE
    /\ consecutiveErrors' = 0
    /\ wait' = 0
    /\ UNCHANGED <<Cooldown, stage, next, age, cancelled, out>>

PipelineTick ==
    /\ wait' = IF wait = Forever \/ wait = 0 THEN wait ELSE wait - 1
    /\ age' = [r \in Runs |-> IF stage[r] = "idle" \/ age[r] = MaxRunAge THEN age[r] ELSE age[r] + 1]
    /\ UNCHANGED <<Cooldown, enabled, consecutiveErrors, stage, next, cancelled, out>>

-----------------------------------------------------------------------------
RunStep(r) ==
    \/ PlanError(r) \/ PlanNothing(r) \/ PlanProposal(r)
    \/ ReviewError(r) \/ ReviewVeto(r) \/ ReviewPass(r) \/ Emit(r)

PipelineNext ==
    \/ \E r \in Runs : BeginCancelled(r) \/ BeginDisabled(r) \/ Begin(r) \/ RunStep(r) \/ Cancel(r)
    \/ Enable \/ Disable \/ PipelineTick

PipelineSpec == PipelineInit /\ [][PipelineNext]_pipelineVars

\* Time passes and agents return.
FairPipelineSpec == PipelineSpec /\ WF_pipelineVars(PipelineTick) /\ \A r \in Runs : WF_pipelineVars(RunStep(r))

-----------------------------------------------------------------------------
\* Every variable has its type.
PipelineTypeOK ==
    /\ Cooldown \in Cooldowns
    /\ enabled \in BOOLEAN
    /\ consecutiveErrors \in 0..MaxConsecutiveErrors
    /\ wait \in 0..Cooldown \cup (IF Cooldown = 0 THEN {Forever} ELSE {})
    /\ stage \in [Runs -> {"idle", "plan", "review"}]
    /\ next \in [Runs -> 0..(Reviewers + 1)]
    /\ age \in [Runs -> 0..MaxRunAge]
    /\ cancelled \in [Runs -> BOOLEAN]
    /\ out \in [Runs -> {"none", "error", "disabled", "no_proposal", "veto", "emit"}]

\* agent.go:242-245, "Zero means "stay disabled until Enable is called
\* explicitly"": with no cooldown, neither a late success of a concurrent run, nor
\* another error, nor time brings the pipeline back, only Enable does.
OnlyEnableRevives ==
    /\ []PipelineTypeOK
    /\ [][(Cooldown = 0 /\ wait = Forever /\ wait' # Forever) => (enabled' /\ consecutiveErrors' = 0 /\ stage' = stage)]_pipelineVars

\* agent.go:242-244, "The next Run after Cooldown elapses runs agents again": unless
\* callers keep coming with dead contexts, every cooldown ends, whatever runs were
\* still under way when the budget was spent.
CooldownEnds ==
    (<>[][\A r \in Runs : ~BeginCancelled(r)]_pipelineVars) => []<>(Cooldown = 0 \/ wait = 0)
=============================================================================
