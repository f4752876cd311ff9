----------------------------- MODULE Envelope -----------------------------
(***************************************************************************)
(* internal/envelope: Envelope.Submit and its stages constraints, bounds,  *)
(* dampener, shadow and fallback, used by several agents at once.          *)
(*                                                                         *)
(* A proposed value has a Go type and a number: t is "int" (int or int64), *)
(* "int32", "uint", "uint32", "uint64", "float" (float64) or "float32"     *)
(* (both with n in halves), "duration", "nan" (a float of either size) or  *)
(* "other".  A conversion that may fail yields the set of its result or    *)
(* the empty set.  int64 goes from -MaxInt - 1 to MaxInt, uint and uint64  *)
(* from 0 to 2 * MaxInt + 1.                                               *)
(*                                                                         *)
(* Time is kept as ages, counted up to MaxAge.  What is done with a        *)
(* proposal that every stage let pass is the caller's business (external): *)
(* here it may be applied and is then recorded, as RecordApplied asks.     *)
(***************************************************************************)
EXTENDS Integers, FiniteSets

CONSTANTS
    Agents,             \* goroutines that call Submit
    Proposals,          \* [Kind, Agent, Value]; one target per kind
    MaxInt,             \* math.MaxInt64
    Constraints,        \* is the constraints stage installed?
    Bounds,             \* kind -> [min, max], for the kinds with a bound
    Policies,           \* kind -> the dampener policies [Cooldown, Hysteresis] it may have
    ShadowKinds,        \* the kinds enabled for the shadow stage
    MaxDelay,           \* bound on the time from Submit's clock reading to the dampener
    MaxAge              \* changes older than this count as this old

Kinds    == {"rate_limit", "circuit_breaker", "route_weight", "cache_ttl"}
Dampened == DOMAIN Policies
Int64    == (-MaxInt - 1)..MaxInt
Uint64   == 0..(2 * MaxInt + 1)
Types    == {"int", "int32", "uint", "uint32", "uint64", "float", "float32", "duration", "nan", "other"}

ASSUME EnvelopeAssumption ==
    /\ MaxInt \in Nat /\ Constraints \in BOOLEAN /\ MaxDelay \in Nat /\ MaxAge \in Nat
    /\ DOMAIN Bounds \subseteq Kinds /\ ShadowKinds \subseteq Kinds
    /\ Dampened \subseteq {"rate_limit", "route_weight", "cache_ttl"}
    /\ \A k \in Dampened : \A d \in Policies[k] :
         d.Cooldown \in Nat /\ d.Cooldown + MaxDelay <= MaxAge /\ d.Hysteresis \in Int
    /\ \A p \in Proposals :
         /\ p.Agent \in BOOLEAN
         /\ p.Value \in [t : Types, n : Int]
         /\ p.Value.t \in {"int", "int32", "duration"} => p.Value.n \in Int64
         /\ p.Value.t = "uint32" => p.Value.n \in 0..MaxInt
         /\ p.Value.t \in {"uint", "uint64"} => p.Value.n \in Uint64

VARIABLES
    policy,         \* kind -> set of at most one dampener policy
    applied,        \* kind -> set of at most one [value, age]
    pc,             \* agent -> "idle", "damp", "shadow", "simulate", "passed"
    prop,           \* agent -> the proposal it has under way
    nowAge,         \* agent -> how long ago Submit read the clock
    cooldown,       \* agent -> the cooldown its proposal was held to
    raced,          \* agent -> was a change of its kind applied since the dampener let it pass?
    late,           \* agent -> the simulator's context is done
    decision        \* the decision Submit returned in the last step, [kind, stage, retry]

own  == <<prop, nowAge, cooldown, raced, late>>     \* the agents' own
vars == <<policy, applied, pc, own, decision>>

-----------------------------------------------------------------------------
\* Two's complement.
Wrap(x) == ((x + MaxInt + 1) % (2 * (MaxInt + 1))) - (MaxInt + 1)

\* constraints.go: conversions and the baseline constraints.  A uint is converted without a
\* check and wraps; a uint64 above 1<<62 is refused; a float64 is converted to int64 and back
\* to see whether it is an integer of that range.
asInt64(v) ==
    CASE v.t \in {"int", "int32", "uint32"} -> {v.n}
      [] v.t = "uint" -> {Wrap(v.n)}
      [] v.t = "uint64" /\ v.n <= (MaxInt + 1) \div 2 -> {v.n}
      [] v.t = "float" /\ v.n % 2 = 0 /\ v.n \div 2 \in Int64 -> {v.n \div 2}
      [] OTHER -> {}

asFloat64(v) ==
    CASE v.t \in {"float", "nan"} -> {v}
      [] v.t = "float32" -> {[v EXCEPT !.t = "float"]}
      [] v.t \in {"int", "int32"} -> {[t |-> "float", n |-> 2 * v.n]}
      [] OTHER -> {}

asDuration(v) == IF v.t \in {"duration", "int"} THEN {v.n} ELSE {}

\* Every comparison with NaN is false.
Less(f, halves)    == f.t # "nan" /\ f.n < halves
Greater(f, halves) == f.t # "nan" /\ f.n > halves

requireKnownKind(p) == p.Kind \in Kinds

requireAgent(p) == p.Agent

\* Fault: zero is let through.
rateLimitNotNegative(p) ==
    p.Kind = "rate_limit" => \E n \in asInt64(p.Value) : n >= 0

rateLimitPositive(p) ==
    p.Kind = "rate_limit" => \E n \in asInt64(p.Value) : n > 0

routeWeightUnitInterval(p) ==
    p.Kind = "route_weight" => \E f \in asFloat64(p.Value) : ~Less(f, 0) /\ ~Greater(f, 2)

cacheTTLNonNegative(p) ==
    p.Kind = "cache_ttl" => \E d \in asDuration(p.Value) : d >= 0

DefaultConstraints(p) ==
    /\ requireKnownKind(p) /\ requireAgent(p)
    /\ rateLimitPositive(p) /\ routeWeightUnitInterval(p) /\ cacheTTLNonNegative(p)

\* bounds.go: the absolute range of the kind, if it has one.
InBounds(p) ==
    p.Kind \in DOMAIN Bounds =>
        LET b == Bounds[p.Kind]
        IN  CASE p.Kind = "rate_limit" -> \E n \in asInt64(p.Value) : n \in b.min..b.max
              [] p.Kind = "route_weight" ->
                   \E f \in asFloat64(p.Value) : ~Less(f, b.min) /\ ~Greater(f, b.max)
              [] p.Kind = "cache_ttl" -> \E d \in asDuration(p.Value) : d \in b.min..b.max
              [] OTHER -> TRUE

-----------------------------------------------------------------------------
\* dampener.go
Abs(x) == IF x < 0 THEN -x ELSE x

\* Fault: the sign of the difference is not looked at.
SignedDiff(a, b) == Wrap(a - b)

\* diff := a - b; if diff < 0 { diff = -diff }
AbsDiff(a, b) == LET d == Wrap(a - b) IN IF d < 0 THEN Wrap(-d) ELSE d

\* How far the new value is from the last applied one; nothing if one of them
\* cannot be converted, or is NaN.
StepSize(k, old, new) ==
    CASE k = "rate_limit" -> {AbsDiff(a, b) : a \in asInt64(old), b \in asInt64(new)}
      [] k = "cache_ttl" -> {AbsDiff(a, b) : a \in asDuration(old), b \in asDuration(new)}
      [] k = "route_weight" ->
           {Abs(a.n - b.n) : a \in {f \in asFloat64(old) : f.t # "nan"},
                             b \in {f \in asFloat64(new) : f.t # "nan"}}
      [] OTHER -> {}

\* checkHysteresis fails.
BelowHysteresis(p, d, last) ==
    d.Hysteresis > 0 /\ \E step \in StepSize(p.Kind, last.value, p.Value) : step < d.Hysteresis

\* Fault: the time already waited is handed out as the time to wait.
RemainingSwapped(d, elapsed) == elapsed

Remaining(d, elapsed) == d.Cooldown - elapsed

\* Fault: the comparison is the wrong way round.
InCooldownInverted(d, elapsed) == d.Cooldown > 0 /\ elapsed > d.Cooldown

InCooldown(d, elapsed) == d.Cooldown > 0 /\ elapsed < d.Cooldown

Pass == [kind |-> "pass", stage |-> "none", retry |-> 0]

\* Evaluate(p, now), with now age ago: cooldown first, then hysteresis.  elapsed is
\* negative when a change was applied after now.
Evaluate(p, age) ==
    IF p.Kind \notin Dampened \/ policy[p.Kind] = {} \/ applied[p.Kind] = {}
    THEN Pass
    ELSE LET d == CHOOSE x \in policy[p.Kind] : TRUE
             last == CHOOSE x \in applied[p.Kind] : TRUE
             elapsed == last.age - age
         IN  IF InCooldown(d, elapsed)
             THEN [kind |-> "defer", stage |-> "dampener", retry |-> Remaining(d, elapsed)]
             ELSE IF BelowHysteresis(p, d, last)
             THEN [kind |-> "reject", stage |-> "dampener", retry |-> 0]
             ELSE Pass

-----------------------------------------------------------------------------
Goto(a, label) == pc' = [pc EXCEPT ![a] = label]
Set(f, a, v)   == [f EXCEPT ![a] = v]

Nothing == [Kind |-> "none", Agent |-> FALSE, Value |-> [t |-> "other", n |-> 0]]

Init ==
    /\ policy = [k \in Dampened |-> {}]
    /\ applied = [k \in Kinds |-> {}]
    /\ pc = [a \in Agents |-> "idle"]
    /\ prop = [a \in Agents |-> Nothing]
    /\ nowAge = [a \in Agents |-> 0]
    /\ cooldown = [a \in Agents |-> 0]
    /\ raced = [a \in Agents |-> FALSE]
    /\ late = [a \in Agents |-> FALSE]
    /\ decision = Pass

\* The agent is done with its proposal.
Leave(a) ==
    /\ Goto(a, "idle")
    /\ prop' = Set(prop, a, Nothing)
    /\ nowAge' = Set(nowAge, a, 0)
    /\ cooldown' = Set(cooldown, a, 0)
    /\ raced' = Set(raced, a, FALSE)
    /\ late' = Set(late, a, FALSE)

\* No Submit returns in this step.
Silent == decision' = Pass

\* Submit returns a decision of the stage s.
Decide(a, k, s, retry) ==
    /\ decision' = [kind |-> k, stage |-> s, retry |-> retry]
    /\ Leave(a)

\* Submit returns the fallback's rejection: no stage objected, and the caller may
\* apply the proposal all the same.
Fallback(a) ==
    /\ decision' = [kind |-> "reject", stage |-> "fallback", retry |-> 0]
    /\ Goto(a, "passed")
    /\ late' = Set(late, a, FALSE)
    /\ UNCHANGED <<prop, nowAge, cooldown, raced>>

\* Submit: clock, context, constraints and bounds (the last two are pure and their
\* registries do not change).
Submit(a, p) ==
    /\ pc[a] = "idle"
    /\ \/ Decide(a, "defer", "intake", 0)
       \/ /\ Constraints /\ ~DefaultConstraints(p)
          /\ Decide(a, "reject", "constraints", 0)
       \/ /\ Constraints => DefaultConstraints(p)
          /\ ~InBounds(p)
          /\ Decide(a, "reject", "bounds", 0)
       \/ /\ Constraints => DefaultConstraints(p)
          /\ InBounds(p)
          /\ Goto(a, "damp")
          /\ prop' = Set(prop, a, p)
          /\ UNCHANGED <<nowAge, cooldown, raced, late>> /\ Silent
    /\ UNCHANGED <<policy, applied>>

\* DampenerRegistry.Evaluate, under r.mu.
Dampen(a) ==
    /\ pc[a] = "damp"
    /\ LET o == Evaluate(prop[a], nowAge[a])
           k == prop[a].Kind
       IN  \/ o # Pass /\ Decide(a, o.kind, o.stage, o.retry)
           \/ /\ o = Pass
              /\ Goto(a, "shadow")
              /\ \/ /\ k \in Dampened
                    /\ \E d \in policy[k] : cooldown' = Set(cooldown, a, d.Cooldown)
                 \/ /\ k \in Dampened => policy[k] = {}
                    /\ UNCHANGED cooldown
              /\ nowAge' = Set(nowAge, a, 0)
              /\ UNCHANGED <<prop, raced, late>> /\ Silent
    /\ UNCHANGED <<policy, applied>>

\* ShadowRegistry.Evaluate: the simulator is called, or the stage has no opinion.
ShadowStart(a) ==
    /\ pc[a] = "shadow"
    /\ \/ /\ prop[a].Kind \in ShadowKinds
          /\ Goto(a, "simulate")
          /\ UNCHANGED own /\ Silent
       \/ prop[a].Kind \notin ShadowKinds /\ Fallback(a)
    /\ UNCHANGED <<policy, applied>>

\* The hard timeout expires, or the caller's context is cancelled.
Expire(a) ==
    /\ pc[a] = "simulate" /\ ~late[a]
    /\ late' = Set(late, a, TRUE)
    /\ UNCHANGED <<policy, applied, pc, prop, nowAge, cooldown, raced>> /\ Silent

\* Simulate (external) returns: a clean verdict, a regression, the context's error
\* or another one.  Only the error is looked at, not the context.  (The RetryAfter
\* of a timeout is the timeout itself, which is not modelled.)
Simulate(a) ==
    /\ pc[a] = "simulate"
    /\ \/ Fallback(a)
       \/ Decide(a, "reject", "shadow", 0)
       \/ late[a] /\ Decide(a, "defer", "shadow", 0)
    /\ UNCHANGED <<policy, applied>>

\* The agents whose proposals of kind k the dampener has let pass.
Past(k) == {b \in Agents : pc[b] \in {"shadow", "simulate", "passed"} /\ prop[b].Kind = k}

\* The caller of a is done with a proposal that passed and has remembered l for it.
Applied(a, l) ==
    /\ pc[a] = "passed"
    /\ applied' = Set(applied, prop[a].Kind, l)
    /\ Goto(a, "idle")
    /\ prop' = Set(prop, a, Nothing)
    /\ nowAge' = Set(nowAge, a, 0)
    /\ cooldown' = Set(cooldown, a, 0)
    /\ raced' = [b \in Agents |-> b # a /\ (raced[b] \/ b \in Past(prop[a].Kind))]
    /\ UNCHANGED <<policy, late>> /\ Silent

\* RecordApplied for a proposal that passed, at the time of now.
RecordApplied(a) == Applied(a, {[value |-> prop[a].Value, age |-> 0]})

\* The caller leaves it at the decision.
Ignore(a) ==
    /\ pc[a] = "passed"
    /\ Leave(a)
    /\ UNCHANGED <<policy, applied>> /\ Silent

\* SetRateLimit, SetRouteWeight, SetCacheTTL of the dampener.
SetPolicy(k) ==
    /\ \E d \in Policies[k] : policy' = [policy EXCEPT ![k] = {d}]
    /\ UNCHANGED <<applied, pc, own>> /\ Silent

\* Nobody asks for the age of a change whose kind has no dampener.
Older(k, age) == IF k \in Dampened /\ age < MaxAge THEN age + 1 ELSE age

\* Time passes; a submission reaches the dampener within MaxDelay.
Tick ==
    /\ applied' = [k \in Kinds |-> {[l EXCEPT !.age = Older(k, @)] : l \in applied[k]}]
    /\ \A a \in Agents : pc[a] = "damp" => nowAge[a] < MaxDelay
    /\ nowAge' = [a \in Agents |-> IF pc[a] = "damp" THEN nowAge[a] + 1 ELSE nowAge[a]]
    /\ UNCHANGED <<policy, pc, prop, cooldown, raced, late>> /\ Silent

-----------------------------------------------------------------------------
Work(a) == Dampen(a) \/ ShadowStart(a) \/ Simulate(a)

Next ==
    \/ \E a \in Agents : \/ \E p \in Proposals : Submit(a, p)
                         \/ Work(a) \/ Expire(a) \/ RecordApplied(a) \/ Ignore(a)
    \/ \E k \in Dampened : SetPolicy(k)
    \/ Tick

Spec == Init /\ [][Next]_vars

-----------------------------------------------------------------------------
\* Every variable has its type.
TypeOK ==
    /\ \A k \in Dampened : policy[k] \subseteq Policies[k] /\ Cardinality(policy[k]) <= 1
    /\ \A k \in Kinds : Cardinality(applied[k]) <= 1 /\ \A l \in applied[k] : l.age \in 0..MaxAge
    /\ pc \in [Agents -> {"idle", "damp", "shadow", "simulate", "passed"}]
    /\ prop \in [Agents -> Proposals \cup {Nothing}]
    /\ nowAge \in [Agents -> 0..MaxDelay]
    /\ decision.kind \in {"pass", "reject", "defer"} /\ decision.retry \in 0..MaxAge

\* The number a value stands for, in halves.
Halves(v) == IF v.t \in {"float", "float32"} THEN v.n ELSE 2 * v.n

\* constraints.go:147-152, the baseline: "KindRateLimit values must be positive
\* integers", "KindRouteWeight values must be in [0.0, 1.0]", "KindCacheTTL values
\* must be non-negative durations".  What is let through, and what the dampener remembers
\* as applied, is of a Go type that its kind can be converted from, and the number the
\* agent sent is of that range and not only what a conversion made of it: a uint that wraps,
\* a uint64 beyond 1<<62 and a fraction are not applied as rates.  The exception is
\* a NaN, which both comparisons of routeWeightUnitInterval let pass as a weight.
AppliedIsSane ==
    /\ TypeOK
    /\ \A k \in Kinds : \A l \in applied[k] :
        CASE k = "rate_limit" ->
               /\ l.value.t \in {"int", "int32", "uint", "uint32", "uint64", "float"}
               /\ Halves(l.value) \in {2 * n : n \in 1..MaxInt}
          [] k = "route_weight" ->
               \/ l.value.t = "nan"
               \/ l.value.t \in {"int", "int32", "float", "float32"} /\ Halves(l.value) \in 0..2
          [] k = "cache_ttl" -> l.value.t \in {"int", "duration"} /\ l.value.n >= 0
          [] OTHER -> TRUE

\* What HysteresisHonest asks of a step, for one agent.
HonestVerdict(a) ==
    \A d \in UNION {policy[k] : k \in Dampened \cap {prop[a].Kind}} :
        (Dampen(a) /\ prop[a].Kind # "route_weight" /\ applied[prop[a].Kind] # {}) =>
        LET last == CHOOSE l \in applied[prop[a].Kind] : TRUE
            near == 2 * d.Hysteresis > Abs(Halves(prop[a].Value) - Halves(last.value))
        IN  /\ pc'[a] = "shadow" => ~near
            /\ decision'.kind = "reject" /\ pc'[a] = "idle" => near

\* dampener.go:93-94, "a proposal passes when |new - last| >= H": for integers, and
\* whatever the width of the subtraction, the dampener lets a proposal through
\* only if it is really that far from the last applied value, and rejects it only
\* if it is not.
HysteresisHonest == [][\A a \in Agents : HonestVerdict(a)]_vars

\* What RetrySuffices asks of a step, for one agent.
SufficientRetry(a) ==
    (Dampen(a) /\ decision'.kind = "defer" /\ pc'[a] = "idle") =>
    \A l \in applied[prop[a].Kind] : \A d \in policy[prop[a].Kind] :
        /\ l.age + decision'.retry >= d.Cooldown
        /\ decision'.retry > 0

\* proposal.go:97-98, RetryAfter "is the minimum duration the agent must wait before
\* resubmitting": an agent told to wait finds the cooldown over when it comes back,
\* even if the change it collided with was applied while it was being decided.
RetrySuffices == [][\A a \in Agents : SufficientRetry(a)]_vars

\* What CooldownSpacing asks of a step, for one agent.
SpacedChange(a) ==
    (RecordApplied(a) /\ ~raced[a]) => \A l \in applied[prop[a].Kind] : l.age >= cooldown[a]

\* dampener.go:63-64, "Cooldown is the minimum interval between successive applied
\* changes for a given (Kind, Target)": a change is applied only when the last one is
\* as old as the cooldown its proposal was held to, unless that last one was applied
\* between the dampener's verdict and this one (Evaluate and RecordApplied are two
\* critical sections).
CooldownSpacing == [][\A a \in Agents : SpacedChange(a)]_vars
=============================================================================
