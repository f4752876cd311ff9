--------------------------- MODULE EnvelopeProofs ---------------------------
(***************************************************************************)
(* The envelope, for any number of agents, any proposals, bounds, policies *)
(* and any width of int64.                                                 *)
(*                                                                         *)
(* EnvelopeInv says where the values come from that the dampener remembers *)
(* (Vetted), and what an agent past the dampener may count on (Spaced).    *)
(*                                                                         *)
(* The pipeline in front of it, for any number of concurrent runs: its     *)
(* error budget.                                                           *)
(***************************************************************************)
EXTENDS Envelope, AgentPipeline, FiniteSetTheorems, TLAPS

Stages == {"idle", "damp", "shadow", "simulate", "passed"}

\* The values of kind k that Submit lets through to the dampener.
Vetted(k) == {p.Value : p \in {q \in Proposals : q.Kind = k /\ (Constraints => DefaultConstraints(q))}}

\* At most one policy for each kind, at most one remembered change.
Registries ==
    /\ DOMAIN policy = Dampened
    /\ \A k \in Dampened : /\ policy[k] \subseteq Policies[k]
                           /\ \A d, e \in policy[k] : d = e
    /\ DOMAIN applied = Kinds
    /\ \A k \in Kinds : /\ applied[k] \subseteq [value : Vetted(k), age : 0..MaxAge]
                        /\ \A l, m \in applied[k] : l = m

AgentsOK ==
    /\ pc \in [Agents -> Stages]
    /\ prop \in [Agents -> Proposals \cup {Nothing}]
    /\ nowAge \in [Agents -> 0..MaxDelay]
    /\ cooldown \in [Agents -> Nat] /\ raced \in [Agents -> BOOLEAN] /\ DOMAIN late = Agents

\* A proposal under way has been vetted.
Screened(a) ==
    pc[a] # "idle" => prop[a] \in Proposals /\ (Constraints => DefaultConstraints(prop[a]))

\* An agent past the dampener whose proposal nobody has overtaken can count on the age of the
\* last change of its kind.
Spaced(a) ==
    /\ pc[a] \in {"idle", "damp"} => cooldown[a] = 0 /\ ~raced[a]
    /\ (pc[a] \in {"shadow", "simulate", "passed"} /\ ~raced[a] /\ prop[a].Kind \in Kinds) =>
         \A l \in applied[prop[a].Kind] : l.age >= cooldown[a]

DecisionOK == decision.kind \in {"pass", "reject", "defer"} /\ decision.retry \in 0..MaxAge

EnvelopeInv ==
    /\ Registries /\ AgentsOK /\ DecisionOK
    /\ \A a \in Agents : Screened(a) /\ Spaced(a)

-----------------------------------------------------------------------------
\* An int64 is its own two's complement.
LEMMA WrapIsIdentity ==
    ASSUME NEW x \in Int64
    PROVE  Wrap(x) = x
  <1> DEFINE y == x + MaxInt + 1
             m == 2 * (MaxInt + 1)
  <1>1. MaxInt \in Nat /\ x \in Int
    BY EnvelopeAssumption DEF Int64
  <1>2. y \in Nat /\ m \in Nat \ {0} /\ y < m
    BY <1>1 DEF Int64
  <1> HIDE DEF y, m
  <1>3. y % m = y
    BY <1>2
  <1> QED
    BY <1>1, <1>3 DEF Wrap, y, m

\* A uint that is no int64 wraps to a negative number.
LEMMA WrapOfLarge ==
    ASSUME NEW x \in Uint64, x > MaxInt
    PROVE  Wrap(x) < 0
  <1> DEFINE y == x - MaxInt - 1
             m == 2 * (MaxInt + 1)
  <1>1. MaxInt \in Nat /\ x \in Int
    BY EnvelopeAssumption DEF Uint64
  <1>2. y \in Nat /\ m \in Nat \ {0} /\ y < m /\ y < MaxInt + 1
    BY <1>1 DEF Uint64
  <1>3. x + MaxInt + 1 = y + m
    BY <1>1
  <1> HIDE DEF y, m
  <1>4. (y + m) % m = y
    BY <1>2
  <1>5. Wrap(x) = y - (MaxInt + 1)
    BY <1>3, <1>4 DEF Wrap, m
  <1> QED
    BY <1>1, <1>2, <1>5

\* The subtraction of the dampener does not overflow for values that are not negative.
LEMMA AbsDiffHonest ==
    ASSUME NEW x \in 0..MaxInt, NEW y \in 0..MaxInt
    PROVE  AbsDiff(x, y) = Abs(x - y)
  <1>1. MaxInt \in Nat
    BY EnvelopeAssumption
  <1>2. x - y \in Int64 /\ (x - y < 0 => -(x - y) \in Int64)
    BY <1>1 DEF Int64
  <1>3. Wrap(x - y) = x - y /\ (x - y < 0 => Wrap(-(x - y)) = -(x - y))
    BY <1>2, WrapIsIdentity
  <1> QED
    BY <1>3 DEF AbsDiff, Abs

\* What the baseline constraints leave of a value, whatever its Go type.
LEMMA VettedRate ==
    ASSUME Constraints = TRUE, NEW v \in Vetted("rate_limit")
    PROVE  /\ v.t \in {"int", "int32", "uint", "uint32", "uint64", "float"}
           /\ \E n \in 1..MaxInt : asInt64(v) = {n} /\ Halves(v) = 2 * n
  <1>1. PICK p \in Proposals : p.Kind = "rate_limit" /\ DefaultConstraints(p) /\ v = p.Value
    BY DEF Vetted
  <1>2. /\ v.t \in Types /\ v.n \in Int
        /\ v.t \in {"int", "int32"} => v.n \in Int64
        /\ v.t = "uint32" => v.n \in 0..MaxInt
        /\ v.t \in {"uint", "uint64"} => v.n \in Uint64
        /\ MaxInt \in Nat
    BY <1>1, EnvelopeAssumption
  <1>3. \E n \in asInt64(v) : n > 0
    BY <1>1 DEF DefaultConstraints, rateLimitPositive
  <1>4. CASE v.t \in {"int", "int32", "uint32"}
    <2>1. asInt64(v) = {v.n}
      BY <1>4 DEF asInt64
    <2>2. v.n \in 1..MaxInt
      BY <1>2, <1>3, <1>4, <2>1 DEF Int64
    <2> QED
      BY <1>2, <1>4, <2>1, <2>2 DEF Halves
  <1>5. CASE v.t = "uint"
    <2>1. asInt64(v) = {Wrap(v.n)}
      BY <1>5 DEF asInt64
    <2>2. v.n \in 0..MaxInt
      <3>1. v.n \in Uint64 /\ Wrap(v.n) > 0 /\ Wrap(v.n) \in Int
        BY <1>2, <1>3, <1>5, <2>1 DEF Wrap
      <3>2. ~(v.n > MaxInt)
        BY <3>1, WrapOfLarge
      <3> QED
        BY <1>2, <3>1, <3>2 DEF Uint64
    <2>3. Wrap(v.n) = v.n
      BY <1>2, <2>2, WrapIsIdentity DEF Int64
    <2>4. v.n \in 1..MaxInt
      BY <1>2, <1>3, <2>1, <2>2, <2>3
    <2> QED
      BY <1>2, <1>5, <2>1, <2>3, <2>4 DEF Halves
  <1>6. CASE v.t = "uint64"
    <2>1. v.n <= (MaxInt + 1) \div 2 /\ asInt64(v) = {v.n}
      BY <1>3, <1>6 DEF asInt64
    <2>2. v.n \in 1..MaxInt
      BY <1>2, <1>3, <2>1
    <2> QED
      BY <1>2, <1>6, <2>1, <2>2 DEF Halves
  <1>7. CASE v.t = "float"
    <2>1. v.n % 2 = 0 /\ v.n \div 2 \in Int64 /\ asInt64(v) = {v.n \div 2}
      BY <1>3, <1>7 DEF asInt64
    <2>2. v.n \div 2 \in 1..MaxInt
      BY <1>2, <1>3, <2>1 DEF Int64
    <2>3. v.n = 2 * (v.n \div 2)
      BY <1>2, <2>1
    <2> QED
      BY <1>2, <1>7, <2>1, <2>2, <2>3 DEF Halves
  <1>8. asInt64(v) # {} => v.t \in {"int", "int32", "uint", "uint32", "uint64", "float"}
    BY DEF asInt64
  <1> QED
    BY <1>3, <1>4, <1>5, <1>6, <1>7, <1>8

\* The same for a cache TTL, which must be a duration that is not negative.
LEMMA VettedTTL ==
    ASSUME Constraints = TRUE, NEW v \in Vetted("cache_ttl")
    PROVE  v.t \in {"int", "duration"} /\ v.n \in 0..MaxInt /\ asDuration(v) = {v.n} /\ Halves(v) = 2 * v.n
  <1>1. PICK p \in Proposals : p.Kind = "cache_ttl" /\ DefaultConstraints(p) /\ v = p.Value
    BY DEF Vetted
  <1>2. v.n \in Int /\ MaxInt \in Nat /\ (v.t \in {"int", "duration"} => v.n \in Int64)
    BY <1>1, EnvelopeAssumption
  <1>3. \E n \in asDuration(v) : n >= 0
    BY <1>1 DEF DefaultConstraints, cacheTTLNonNegative
  <1>4. v.t \in {"int", "duration"} /\ asDuration(v) = {v.n}
    BY <1>3 DEF asDuration
  <1> QED
    BY <1>2, <1>3, <1>4 DEF Int64, Halves

\* The same for a route weight, which must lie between 0 and 1 unless it is NaN.
LEMMA VettedWeight ==
    ASSUME Constraints = TRUE, NEW v \in Vetted("route_weight")
    PROVE  \/ v.t = "nan"
           \/ v.t \in {"int", "int32", "float", "float32"} /\ Halves(v) \in 0..2
  <1>1. PICK p \in Proposals : p.Kind = "route_weight" /\ DefaultConstraints(p) /\ v = p.Value
    BY DEF Vetted
  <1>2. v \in [t : Types, n : Int]
    BY <1>1, EnvelopeAssumption
  <1>3. PICK f \in asFloat64(v) : ~Less(f, 0) /\ ~Greater(f, 2)
    BY <1>1 DEF DefaultConstraints, routeWeightUnitInterval
  <1>4. v.t \in {"nan", "int", "int32", "float", "float32"}
    BY <1>3 DEF asFloat64
  <1>5. v.t # "nan" => f.t = "float" /\ f.n = Halves(v)
    <2>1. CASE v.t = "float"
      BY <2>1, <1>3 DEF asFloat64, Halves
    <2>2. CASE v.t \in {"int", "int32"}
      BY <2>2, <1>3 DEF asFloat64, Halves
    <2>3. CASE v.t = "float32"
      BY <2>3, <1>2, <1>3 DEF asFloat64, Halves
    <2> QED
      BY <1>4, <2>1, <2>2, <2>3
  <1> QED
    BY <1>2, <1>3, <1>4, <1>5 DEF Less, Greater, Halves

-----------------------------------------------------------------------------
\* The dampener's verdict depends on the one policy and the one change of the kind.
LEMMA EvaluateFacts ==
    ASSUME Registries, NEW p, NEW ago \in 0..MaxDelay
    PROVE  \/ /\ Evaluate(p, ago) = Pass
              /\ p.Kind \in Dampened =>
                   \A d \in policy[p.Kind], l \in applied[p.Kind] :
                       ~InCooldown(d, l.age - ago) /\ ~BelowHysteresis(p, d, l)
           \/ /\ p.Kind \in Dampened
              /\ \E d \in policy[p.Kind], l \in applied[p.Kind] :
                   /\ InCooldown(d, l.age - ago)
                   /\ Evaluate(p, ago) = [kind |-> "defer", stage |-> "dampener", retry |-> Remaining(d, l.age - ago)]
           \/ /\ p.Kind \in Dampened
              /\ \E d \in policy[p.Kind], l \in applied[p.Kind] :
                   /\ BelowHysteresis(p, d, l)
                   /\ Evaluate(p, ago) = [kind |-> "reject", stage |-> "dampener", retry |-> 0]
  <1>1. CASE p.Kind \notin Dampened \/ policy[p.Kind] = {} \/ applied[p.Kind] = {}
    BY <1>1 DEF Evaluate
  <1>2. CASE p.Kind \in Dampened /\ policy[p.Kind] # {} /\ applied[p.Kind] # {}
    <2> DEFINE d == CHOOSE x \in policy[p.Kind] : TRUE
               last == CHOOSE x \in applied[p.Kind] : TRUE
    <2>1. d \in policy[p.Kind] /\ last \in applied[p.Kind]
      BY <1>2
    <2>2. p.Kind \in Kinds
      BY <1>2, EnvelopeAssumption DEF Kinds
    <2>3. \A e \in policy[p.Kind], l \in applied[p.Kind] : e = d /\ l = last
      <3> HIDE DEF d, last
      <3> QED
        BY <1>2, <2>1, <2>2 DEF Registries
    <2>4. Evaluate(p, ago) =
             IF InCooldown(d, last.age - ago)
             THEN [kind |-> "defer", stage |-> "dampener", retry |-> Remaining(d, last.age - ago)]
             ELSE IF BelowHysteresis(p, d, last)
             THEN [kind |-> "reject", stage |-> "dampener", retry |-> 0]
             ELSE Pass
      BY <1>2 DEF Evaluate
    <2> HIDE DEF d, last
    <2>5. CASE InCooldown(d, last.age - ago)
      BY <1>2, <2>1, <2>4, <2>5
    <2>6. CASE ~InCooldown(d, last.age - ago) /\ BelowHysteresis(p, d, last)
      BY <1>2, <2>1, <2>4, <2>6
    <2>7. CASE ~InCooldown(d, last.age - ago) /\ ~BelowHysteresis(p, d, last)
      BY <1>2, <2>3, <2>4, <2>7
    <2> QED
      BY <2>5, <2>6, <2>7
  <1> QED
    BY <1>1, <1>2

\* The types of a policy and of a remembered change.
LEMMA RegistryTypes ==
    ASSUME Registries, NEW k \in Dampened
    PROVE  /\ k \in Kinds /\ MaxAge \in Nat /\ MaxDelay \in Nat
           /\ \A d \in policy[k] : d.Cooldown \in Nat /\ d.Cooldown + MaxDelay <= MaxAge /\ d.Hysteresis \in Int
           /\ \A l \in applied[k] : l.age \in 0..MaxAge /\ l.value \in Vetted(k)
  <1>1. k \in Kinds
    BY EnvelopeAssumption DEF Kinds
  <1>2. \A l \in applied[k] : l \in [value : Vetted(k), age : 0..MaxAge]
    BY <1>1 DEF Registries
  <1> QED
    BY <1>1, <1>2, EnvelopeAssumption DEF Registries

\* A cooldown's remainder is positive, fits, and is long enough.
LEMMA RemainderFacts ==
    ASSUME Registries, NEW k \in Dampened, NEW d \in policy[k], NEW l \in applied[k],
           NEW ago \in 0..MaxDelay, InCooldown(d, l.age - ago)
    PROVE  /\ Remaining(d, l.age - ago) \in 0..MaxAge /\ Remaining(d, l.age - ago) > 0
           /\ l.age + Remaining(d, l.age - ago) >= d.Cooldown
  BY RegistryTypes DEF InCooldown, Remaining

-----------------------------------------------------------------------------
\* A step of one agent that leaves the registries and the other agents alone.
LEMMA AgentStep ==
    ASSUME EnvelopeInv, NEW a \in Agents, UNCHANGED <<policy, applied>>, AgentsOK', DecisionOK',
           Screened(a)', Spaced(a)',
           \A b \in Agents : b # a => /\ pc'[b] = pc[b] /\ prop'[b] = prop[b]
                                     /\ cooldown'[b] = cooldown[b] /\ raced'[b] = raced[b]
    PROVE  EnvelopeInv'
  <1>1. Registries'
    BY DEF EnvelopeInv, Registries, Vetted
  <1>2. ASSUME NEW b \in Agents, b # a PROVE Screened(b)' /\ Spaced(b)'
    BY <1>2 DEF EnvelopeInv, Screened, Spaced
  <1> QED
    BY <1>1, <1>2 DEF EnvelopeInv

\* Submit returned and the caller is done.
LEMMA LeaveStep ==
    ASSUME EnvelopeInv, NEW a \in Agents, Leave(a), UNCHANGED <<policy, applied>>, DecisionOK'
    PROVE  EnvelopeInv'
  <1>0. AgentsOK
    BY DEF EnvelopeInv
  <1>1. /\ pc'[a] = "idle" /\ cooldown'[a] = 0 /\ raced'[a] = FALSE
        /\ \A b \in Agents : b # a => /\ pc'[b] = pc[b] /\ prop'[b] = prop[b]
                                      /\ cooldown'[b] = cooldown[b] /\ raced'[b] = raced[b]
    BY <1>0 DEF Leave, Goto, Set, AgentsOK
  <1>2. AgentsOK'
    BY <1>0, EnvelopeAssumption DEF Leave, Goto, Set, AgentsOK, Stages
  <1>3. Screened(a)' /\ Spaced(a)'
    BY <1>1 DEF Screened, Spaced
  <1> QED
    BY <1>1, <1>2, <1>3, AgentStep

\* A decision with a wait that fits.
LEMMA DecideStep ==
    ASSUME EnvelopeInv, NEW a \in Agents, NEW k \in {"reject", "defer"}, NEW s, NEW retry \in 0..MaxAge,
           Decide(a, k, s, retry), UNCHANGED <<policy, applied>>
    PROVE  EnvelopeInv'
  <1>1. DecisionOK'
    BY DEF Decide, DecisionOK
  <1> QED
    BY <1>1, LeaveStep DEF Decide

\* The end of Submit when no stage objected.
LEMMA FallbackStep ==
    ASSUME EnvelopeInv, NEW a \in Agents, pc[a] \in {"shadow", "simulate"}, Fallback(a),
           UNCHANGED <<policy, applied>>
    PROVE  EnvelopeInv'
  <1>0. AgentsOK /\ Screened(a) /\ Spaced(a) /\ MaxAge \in Nat
    BY EnvelopeAssumption DEF EnvelopeInv
  <1>1. DecisionOK'
    BY <1>0 DEF Fallback, DecisionOK
  <1>2. /\ pc'[a] = "passed" /\ UNCHANGED <<prop, cooldown, raced>>
        /\ \A b \in Agents : b # a => pc'[b] = pc[b]
    BY <1>0 DEF Fallback, Goto, AgentsOK
  <1>3. AgentsOK'
    BY <1>0 DEF Fallback, Goto, Set, AgentsOK, Stages
  <1>4. Screened(a)' /\ Spaced(a)'
    BY <1>0, <1>2 DEF Screened, Spaced
  <1> QED
    BY <1>1, <1>2, <1>3, <1>4, AgentStep

\* Submit: what goes on to the dampener has been vetted.
LEMMA SubmitStep ==
    ASSUME EnvelopeInv, NEW a \in Agents, NEW p \in Proposals, Submit(a, p)
    PROVE  EnvelopeInv'
  <1>0. AgentsOK /\ Spaced(a) /\ DecisionOK /\ 0 \in 0..MaxAge
    BY EnvelopeAssumption DEF EnvelopeInv
  <1>1. CASE \E k \in {"reject", "defer"}, s \in {"intake", "constraints", "bounds"} : Decide(a, k, s, 0)
    BY <1>0, <1>1, DecideStep DEF Submit
  <1>2. CASE /\ Constraints => DefaultConstraints(p)
             /\ Goto(a, "damp") /\ prop' = Set(prop, a, p)
             /\ UNCHANGED <<nowAge, cooldown, raced, late>> /\ Silent
    <2>1. /\ pc[a] = "idle" /\ pc'[a] = "damp" /\ prop'[a] = p /\ UNCHANGED <<policy, applied, cooldown, raced>>
          /\ \A b \in Agents : b # a => pc'[b] = pc[b] /\ prop'[b] = prop[b]
      BY <1>0, <1>2 DEF Submit, Goto, Set, AgentsOK
    <2>2. AgentsOK'
      BY <1>0, <1>2 DEF Goto, Set, AgentsOK, Stages
    <2>3. Screened(a)'
      BY <1>2, <2>1 DEF Screened, DefaultConstraints, requireKnownKind, requireAgent, rateLimitPositive,
                        routeWeightUnitInterval, cacheTTLNonNegative
    <2>4. Spaced(a)'
      BY <1>0, <2>1 DEF Spaced
    <2>5. DecisionOK'
      BY <1>0, <1>2 DEF DecisionOK, Silent, Pass
    <2> QED
      BY <2>1, <2>2, <2>3, <2>4, <2>5, AgentStep
  <1> QED
    BY <1>1, <1>2 DEF Submit

\* The dampener: a proposal goes on only when the last change is old enough.
LEMMA DampenStep ==
    ASSUME EnvelopeInv, NEW a \in Agents, Dampen(a)
    PROVE  EnvelopeInv'
  <1> DEFINE p == prop[a]
             o == Evaluate(p, nowAge[a])
  <1>0. /\ Registries /\ AgentsOK /\ Screened(a) /\ Spaced(a) /\ DecisionOK /\ 0 \in 0..MaxAge
        /\ nowAge[a] \in 0..MaxDelay /\ MaxDelay \in Nat
    BY EnvelopeAssumption DEF EnvelopeInv, AgentsOK
  <1>1. UNCHANGED <<policy, applied>> /\ pc[a] = "damp"
    BY DEF Dampen
  <1>2. CASE o # Pass /\ Decide(a, o.kind, o.stage, o.retry)
    <2>1. o.kind \in {"reject", "defer"} /\ o.retry \in 0..MaxAge
      <3>1. CASE \E d \in policy[p.Kind], l \in applied[p.Kind] :
                   /\ p.Kind \in Dampened /\ InCooldown(d, l.age - nowAge[a])
                   /\ o = [kind |-> "defer", stage |-> "dampener", retry |-> Remaining(d, l.age - nowAge[a])]
        BY <1>0, <3>1, RemainderFacts
      <3>2. CASE o = [kind |-> "reject", stage |-> "dampener", retry |-> 0]
        BY <1>0, <3>2
      <3> QED
        BY <1>0, <1>2, <3>1, <3>2, EvaluateFacts
    <2> QED
      BY <1>1, <1>2, <2>1, DecideStep
  <1>3. CASE /\ o = Pass /\ Goto(a, "shadow")
             /\ \/ /\ p.Kind \in Dampened
                   /\ \E d \in policy[p.Kind] : cooldown' = Set(cooldown, a, d.Cooldown)
                \/ /\ p.Kind \in Dampened => policy[p.Kind] = {}
                   /\ UNCHANGED cooldown
             /\ nowAge' = Set(nowAge, a, 0)
             /\ UNCHANGED <<prop, raced, late>> /\ Silent
    <2>1. /\ pc'[a] = "shadow" /\ UNCHANGED <<prop, raced>>
          /\ \A b \in Agents : b # a => pc'[b] = pc[b] /\ cooldown'[b] = cooldown[b]
      BY <1>0, <1>3 DEF Goto, Set, AgentsOK
    <2>2. \/ \E d \in policy[p.Kind] : p.Kind \in Dampened /\ cooldown'[a] = d.Cooldown
          \/ cooldown'[a] = 0
      BY <1>0, <1>1, <1>3 DEF Set, AgentsOK, Spaced
    <2>3. cooldown' \in [Agents -> Nat]
      BY <1>0, <1>3, RegistryTypes DEF Set, AgentsOK
    <2>4. AgentsOK'
      <3>1. /\ pc' = [pc EXCEPT ![a] = "shadow"] /\ nowAge' = [nowAge EXCEPT ![a] = 0]
            /\ UNCHANGED <<prop, raced, late>>
        BY <1>3 DEF Goto, Set
      <3> QED
        BY <1>0, <2>3, <3>1 DEF AgentsOK, Stages
    <2>5. ASSUME p.Kind \in Kinds, NEW l \in applied[p.Kind] PROVE l.age >= cooldown'[a]
      <3>1. l.age \in 0..MaxAge
        BY <1>0, <2>5 DEF Registries
      <3>2. CASE cooldown'[a] = 0
        BY <3>1, <3>2
      <3>3. ASSUME NEW d \in policy[p.Kind], p.Kind \in Dampened, cooldown'[a] = d.Cooldown
            PROVE  l.age >= cooldown'[a]
        <4>1. ~InCooldown(d, l.age - nowAge[a])
          BY <1>0, <1>3, <3>3, EvaluateFacts DEF Pass
        <4>2. d.Cooldown \in Nat
          BY <1>0, <3>3, RegistryTypes
        <4> QED
          BY <1>0, <3>1, <3>3, <4>1, <4>2 DEF InCooldown
      <3> QED
        BY <2>2, <3>2, <3>3
    <2>6. Screened(a)' /\ Spaced(a)'
      BY <1>0, <1>1, <2>1, <2>5 DEF Screened, Spaced
    <2>7. DecisionOK'
      BY <1>0, <1>3 DEF DecisionOK, Silent, Pass
    <2> QED
      BY <1>1, <2>1, <2>4, <2>6, <2>7, AgentStep
  <1> QED
    BY <1>2, <1>3 DEF Dampen

\* RecordApplied: whoever is past the dampener with a proposal of the kind is overtaken.
LEMMA RecordStep ==
    ASSUME EnvelopeInv, NEW a \in Agents, RecordApplied(a)
    PROVE  EnvelopeInv'
  <1> DEFINE k == prop[a].Kind
             l == [value |-> prop[a].Value, age |-> 0]
  <1>0. /\ Registries /\ AgentsOK /\ Screened(a) /\ DecisionOK /\ 0 \in 0..MaxAge
        /\ \A b \in Agents : Screened(b) /\ Spaced(b)
    BY EnvelopeAssumption DEF EnvelopeInv
  <1>1. /\ pc[a] = "passed" /\ applied' = [applied EXCEPT ![k] = {l}]
        /\ pc' = [pc EXCEPT ![a] = "idle"] /\ prop' = [prop EXCEPT ![a] = Nothing]
        /\ nowAge' = [nowAge EXCEPT ![a] = 0] /\ cooldown' = [cooldown EXCEPT ![a] = 0]
        /\ raced' = [b \in Agents |-> b # a /\ (raced[b] \/ b \in Past(k))]
        /\ UNCHANGED <<policy, late>> /\ Silent
    BY DEF RecordApplied, Applied, Goto, Set
  <1>2. prop[a].Value \in Vetted(k)
    BY <1>0, <1>1 DEF Screened, Vetted
  <1>3. Registries'
    <2>1. l \in [value : Vetted(k), age : 0..MaxAge]
      BY <1>0, <1>2
    <2>2. DOMAIN applied' = Kinds /\ \A j \in Kinds : applied'[j] = IF j = k THEN {l} ELSE applied[j]
      BY <1>0, <1>1 DEF Registries
    <2>3. \A j \in Kinds : Vetted(j)' = Vetted(j)
      BY DEF Vetted
    <2> HIDE DEF k, l
    <2> QED
      BY <1>0, <1>1, <2>1, <2>2, <2>3 DEF Registries
  <1>4. AgentsOK'
    <2>1. raced' \in [Agents -> BOOLEAN]
      BY <1>1, Zenon
    <2> QED
      BY <1>0, <1>1, <2>1, EnvelopeAssumption DEF AgentsOK, Stages
  <1>5. ASSUME NEW b \in Agents PROVE Screened(b)' /\ Spaced(b)'
    <2>1. CASE b = a
      BY <1>0, <1>1, <2>1 DEF AgentsOK, Screened, Spaced
    <2>2. CASE b # a
      <3>1. /\ pc'[b] = pc[b] /\ prop'[b] = prop[b] /\ cooldown'[b] = cooldown[b]
            /\ raced'[b] <=> (raced[b] \/ b \in Past(k))
        BY <1>0, <1>1, <2>2 DEF AgentsOK
      <3>2. Screened(b)'
        BY <1>0, <3>1 DEF Screened
      <3>3. b \in Past(k) <=> pc[b] \in {"shadow", "simulate", "passed"} /\ prop[b].Kind = k
        BY DEF Past
      <3>4. prop[b].Kind \in Kinds /\ prop[b].Kind # k => applied'[prop[b].Kind] = applied[prop[b].Kind]
        BY <1>0, <1>1 DEF Registries
      <3> HIDE DEF k
      <3>5. Spaced(b)'
        BY <1>0, <3>1, <3>3, <3>4 DEF Spaced
      <3> QED
        BY <3>2, <3>5
    <2> QED
      BY <2>1, <2>2
  <1>6. DecisionOK'
    BY <1>0, <1>1 DEF DecisionOK, Silent, Pass
  <1> QED
    BY <1>3, <1>4, <1>5, <1>6 DEF EnvelopeInv

\* Time passes: no remembered change gets younger.
LEMMA TickStep ==
    ASSUME EnvelopeInv, Tick
    PROVE  EnvelopeInv'
  <1>0. /\ Registries /\ AgentsOK /\ DecisionOK /\ MaxAge \in Nat /\ MaxDelay \in Nat
        /\ \A b \in Agents : Screened(b) /\ Spaced(b)
    BY EnvelopeAssumption DEF EnvelopeInv
  <1>1. ASSUME NEW k \in Kinds, NEW l \in applied[k]
        PROVE  /\ [l EXCEPT !.age = Older(k, @)] = [value |-> l.value, age |-> Older(k, l.age)]
               /\ l.value \in Vetted(k) /\ l.age \in 0..MaxAge
               /\ Older(k, l.age) \in 0..MaxAge /\ Older(k, l.age) >= l.age
    <2>1. l \in [value : Vetted(k), age : 0..MaxAge]
      BY <1>0 DEF Registries
    <2> QED
      BY <1>0, <2>1 DEF Older
  <1>2. \A k \in Kinds : applied'[k] = {[l EXCEPT !.age = Older(k, @)] : l \in applied[k]}
    BY DEF Tick
  <1>3. Registries'
    <2>1. \A j \in Kinds : Vetted(j)' = Vetted(j)
      BY DEF Vetted
    <2>2. ASSUME NEW k \in Kinds
          PROVE  applied'[k] \subseteq [value : Vetted(k), age : 0..MaxAge] /\ \A l, m \in applied'[k] : l = m
      <3>1. ASSUME NEW m \in applied'[k] PROVE m \in [value : Vetted(k), age : 0..MaxAge]
        <4>1. PICK l \in applied[k] : m = [l EXCEPT !.age = Older(k, @)]
          BY <1>2
        <4>2. m = [value |-> l.value, age |-> Older(k, l.age)]
          BY <1>1, <4>1
        <4> QED
          BY <1>1, <4>2
      <3>2. \A l, m \in applied[k] : l = m
        BY <1>0 DEF Registries
      <3>3. \A l, m \in applied'[k] : l = m
        BY <1>2, <3>2
      <3> QED
        BY <3>1, <3>3
    <2>3. DOMAIN applied' = Kinds /\ UNCHANGED policy
      BY DEF Tick
    <2> QED
      BY <1>0, <2>1, <2>2, <2>3 DEF Registries
  <1>4. AgentsOK'
    BY <1>0 DEF Tick, AgentsOK, Stages
  <1>5. ASSUME NEW b \in Agents PROVE Screened(b)' /\ Spaced(b)'
    <2>1. UNCHANGED <<pc, prop, cooldown, raced>> /\ cooldown[b] \in Nat
      BY <1>0 DEF Tick, AgentsOK
    <2>2. ASSUME prop[b].Kind \in Kinds, \A l \in applied[prop[b].Kind] : l.age >= cooldown[b],
                 NEW m \in applied'[prop[b].Kind]
          PROVE  m.age >= cooldown[b]
      <3>1. PICK l \in applied[prop[b].Kind] : m = [l EXCEPT !.age = Older(prop[b].Kind, @)]
        BY <1>2, <2>2
      <3>2. m = [value |-> l.value, age |-> Older(prop[b].Kind, l.age)]
        BY <1>1, <2>2, <3>1
      <3>3. /\ m.age \in 0..MaxAge /\ l.age \in 0..MaxAge /\ m.age >= l.age
            /\ l.age >= cooldown[b]
        BY <1>1, <2>2, <3>2
      <3> QED
        BY <1>0, <2>1, <3>3
    <2> QED
      BY <1>0, <2>1, <2>2 DEF Screened, Spaced
  <1>6. DecisionOK'
    BY <1>0 DEF Tick, DecisionOK, Silent, Pass
  <1> QED
    BY <1>3, <1>4, <1>5, <1>6 DEF EnvelopeInv

\* Every step keeps the invariant.
LEMMA EnvelopeStep ==
    ASSUME EnvelopeInv, [Next]_vars
    PROVE  EnvelopeInv'
  <1>0. /\ Registries /\ AgentsOK /\ DecisionOK /\ 0 \in 0..MaxAge
        /\ \A b \in Agents : Screened(b) /\ Spaced(b)
    BY EnvelopeAssumption DEF EnvelopeInv
  <1>1. ASSUME NEW a \in Agents, NEW p \in Proposals, Submit(a, p) PROVE EnvelopeInv'
    BY <1>1, SubmitStep
  <1>2. ASSUME NEW a \in Agents, Dampen(a) PROVE EnvelopeInv'
    BY <1>2, DampenStep
  <1>3. ASSUME NEW a \in Agents, ShadowStart(a) PROVE EnvelopeInv'
    <2>1. UNCHANGED <<policy, applied>> /\ pc[a] = "shadow"
      BY <1>3 DEF ShadowStart
    <2>2. CASE Fallback(a)
      BY <2>1, <2>2, FallbackStep
    <2>3. CASE Goto(a, "simulate") /\ UNCHANGED own /\ Silent
      <3>1. /\ pc'[a] = "simulate" /\ UNCHANGED <<prop, cooldown, raced>>
            /\ \A b \in Agents : b # a => pc'[b] = pc[b]
        BY <1>0, <2>3 DEF Goto, own, AgentsOK
      <3>2. AgentsOK' /\ DecisionOK'
        BY <1>0, <2>3 DEF Goto, own, AgentsOK, Stages, DecisionOK, Silent, Pass
      <3>3. Screened(a)' /\ Spaced(a)'
        BY <1>0, <2>1, <3>1 DEF Screened, Spaced
      <3> QED
        BY <2>1, <3>1, <3>2, <3>3, AgentStep
    <2> QED
      BY <1>3, <2>2, <2>3 DEF ShadowStart
  <1>4. ASSUME NEW a \in Agents, Simulate(a) PROVE EnvelopeInv'
    <2>1. UNCHANGED <<policy, applied>> /\ pc[a] = "simulate"
      BY <1>4 DEF Simulate
    <2>2. CASE Fallback(a)
      BY <2>1, <2>2, FallbackStep
    <2>3. CASE \E k \in {"reject", "defer"} : Decide(a, k, "shadow", 0)
      BY <1>0, <2>1, <2>3, DecideStep
    <2> QED
      BY <1>4, <2>2, <2>3 DEF Simulate
  <1>5. ASSUME NEW a \in Agents, Expire(a) PROVE EnvelopeInv'
    <2>1. UNCHANGED <<policy, applied, pc, prop, nowAge, cooldown, raced>> /\ Silent /\ DOMAIN late' = Agents
      BY <1>0, <1>5 DEF Expire, Set, AgentsOK
    <2>2. AgentsOK' /\ DecisionOK'
      BY <1>0, <2>1 DEF AgentsOK, DecisionOK, Silent, Pass
    <2>3. Screened(a)' /\ Spaced(a)'
      BY <1>0, <1>5, <2>1 DEF Screened, Spaced
    <2> QED
      BY <1>5, <2>1, <2>2, <2>3, AgentStep
  <1>6. ASSUME NEW a \in Agents, RecordApplied(a) PROVE EnvelopeInv'
    BY <1>6, RecordStep
  <1>7. ASSUME NEW a \in Agents, Ignore(a) PROVE EnvelopeInv'
    <2>1. Leave(a) /\ UNCHANGED <<policy, applied>> /\ DecisionOK'
      BY <1>0, <1>7 DEF Ignore, DecisionOK, Silent, Pass
    <2> QED
      BY <1>7, <2>1, LeaveStep
  <1>8. ASSUME NEW k \in Dampened, SetPolicy(k) PROVE EnvelopeInv'
    <2>1. PICK d \in Policies[k] : policy' = [policy EXCEPT ![k] = {d}]
      BY <1>8 DEF SetPolicy
    <2>2. UNCHANGED <<applied, pc, prop, nowAge, cooldown, raced, late>> /\ Silent
      BY <1>8 DEF SetPolicy, own
    <2>3. Registries'
      BY <1>0, <2>1, <2>2 DEF Registries, Vetted
    <2>4. AgentsOK' /\ DecisionOK'
      BY <1>0, <2>2 DEF AgentsOK, DecisionOK, Silent, Pass
    <2>5. \A b \in Agents : Screened(b)' /\ Spaced(b)'
      BY <1>0, <2>2 DEF Screened, Spaced
    <2> QED
      BY <2>3, <2>4, <2>5 DEF EnvelopeInv
  <1>9. CASE Tick
    BY <1>9, TickStep
  <1>10. CASE UNCHANGED vars
    <2>1. Registries' /\ AgentsOK' /\ DecisionOK'
      BY <1>0, <1>10 DEF vars, own, Registries, Vetted, AgentsOK, DecisionOK
    <2>2. \A b \in Agents : Screened(b)' /\ Spaced(b)'
      BY <1>0, <1>10 DEF vars, own, Screened, Spaced
    <2> QED
      BY <2>1, <2>2 DEF EnvelopeInv
  <1> QED
    BY <1>1, <1>2, <1>3, <1>4, <1>5, <1>6, <1>7, <1>8, <1>9, <1>10 DEF Next, Work

\* The initial states: nothing is applied, nobody submits.
LEMMA EnvelopeInit == Init => EnvelopeInv
  <1> SUFFICES ASSUME Init PROVE EnvelopeInv
    OBVIOUS
  <1>1. Registries
    BY DEF Init, Registries
  <1>2. AgentsOK /\ DecisionOK
    BY EnvelopeAssumption DEF Init, AgentsOK, Stages, DecisionOK, Pass
  <1>3. ASSUME NEW a \in Agents PROVE Screened(a) /\ Spaced(a)
    BY DEF Init, Screened, Spaced
  <1> QED
    BY <1>1, <1>2, <1>3 DEF EnvelopeInv

\* The invariant holds in every reachable state.
LEMMA EnvelopeSafe == Spec => []EnvelopeInv
  BY EnvelopeInit, EnvelopeStep, PTL DEF Spec

-----------------------------------------------------------------------------
\* A set whose elements are all equal has at most one.
LEMMA AtMostOne ==
    ASSUME NEW S, \A x, y \in S : x = y
    PROVE  Cardinality(S) <= 1
  <1>1. CASE S = {}
    BY <1>1, FS_EmptySet
  <1>2. ASSUME NEW x \in S PROVE Cardinality(S) = 1
    <2>1. S = {x}
      BY <1>2
    <2> QED
      BY <2>1, FS_Singleton
  <1> QED
    BY <1>1, <1>2

\* constraints.go:147-152: with the baseline constraints installed, whatever is applied is of a
\* Go type its kind can be converted from, and the number sent is in the range its kind asks for,
\* or it is a NaN sent as a weight.
THEOREM EnvelopeAppliedIsSane ==
    ASSUME Constraints = TRUE
    PROVE  Spec => []AppliedIsSane
  <1>1. EnvelopeInv => AppliedIsSane
    <2> SUFFICES ASSUME EnvelopeInv PROVE AppliedIsSane
      OBVIOUS
    <2>1. TypeOK
      <3>1. \A k \in Dampened : policy[k] \subseteq Policies[k] /\ Cardinality(policy[k]) <= 1
        BY AtMostOne DEF EnvelopeInv, Registries
      <3>2. \A k \in Kinds : Cardinality(applied[k]) <= 1 /\ \A l \in applied[k] : l.age \in 0..MaxAge
        BY AtMostOne DEF EnvelopeInv, Registries
      <3> QED
        BY <3>1, <3>2 DEF EnvelopeInv, AgentsOK, DecisionOK, Stages, TypeOK
    <2>2. ASSUME NEW k \in Kinds, NEW l \in applied[k] PROVE l.value \in Vetted(k)
      BY <2>2 DEF EnvelopeInv, Registries
    <2>3. ASSUME NEW l \in applied["rate_limit"]
          PROVE  /\ l.value.t \in {"int", "int32", "uint", "uint32", "uint64", "float"}
                 /\ Halves(l.value) \in {2 * n : n \in 1..MaxInt}
      BY <2>2, <2>3, VettedRate DEF Kinds
    <2>4. ASSUME NEW l \in applied["route_weight"]
          PROVE  \/ l.value.t = "nan"
                 \/ l.value.t \in {"int", "int32", "float", "float32"} /\ Halves(l.value) \in 0..2
      BY <2>2, <2>4, VettedWeight DEF Kinds
    <2>5. \A l \in applied["cache_ttl"] : l.value.t \in {"int", "duration"} /\ l.value.n >= 0
      BY <2>2, VettedTTL, EnvelopeAssumption DEF Kinds
    <2> QED
      BY <2>1, <2>3, <2>4, <2>5 DEF AppliedIsSane, Kinds
  <1> QED
    BY <1>1, EnvelopeSafe, PTL

\* proposal.go:97-98: an agent that was told to wait finds the cooldown over when it comes back.
THEOREM EnvelopeRetrySuffices == Spec => RetrySuffices
  <1>1. EnvelopeInv => \A a \in Agents : SufficientRetry(a)
    <2> SUFFICES ASSUME EnvelopeInv, NEW a \in Agents, Dampen(a), decision'.kind = "defer", pc'[a] = "idle",
                        NEW l \in applied[prop[a].Kind], NEW d \in policy[prop[a].Kind]
                 PROVE  l.age + decision'.retry >= d.Cooldown /\ decision'.retry > 0
      BY DEF SufficientRetry
    <2> DEFINE p == prop[a]
               o == Evaluate(p, nowAge[a])
    <2>1. Registries /\ AgentsOK /\ nowAge[a] \in 0..MaxDelay
      BY DEF EnvelopeInv, AgentsOK
    <2>2. o.kind = "defer" /\ decision'.retry = o.retry
      BY <2>1 DEF Dampen, Decide, Goto, AgentsOK
    <2>3. PICK e \in policy[p.Kind], m \in applied[p.Kind] :
            /\ p.Kind \in Dampened /\ InCooldown(e, m.age - nowAge[a])
            /\ o = [kind |-> "defer", stage |-> "dampener", retry |-> Remaining(e, m.age - nowAge[a])]
      <3>1. o # Pass /\ o # [kind |-> "reject", stage |-> "dampener", retry |-> 0]
        BY <2>2 DEF Pass
      <3> HIDE DEF p
      <3> QED
        BY <2>1, <3>1, EvaluateFacts
    <2>4. p.Kind \in Kinds
      BY <2>1, <2>3, RegistryTypes
    <2>5. e = d /\ m = l
      BY <2>1, <2>3, <2>4 DEF Registries
    <2> QED
      BY <2>1, <2>2, <2>3, <2>5, RemainderFacts
  <1> QED
    BY <1>1, EnvelopeSafe, PTL DEF RetrySuffices

\* dampener.go:63-64: a change that nobody overtook is applied only when the last one of its
\* kind is as old as the cooldown.
THEOREM EnvelopeCooldownSpacing ==
    ASSUME Constraints = TRUE
    PROVE  Spec => CooldownSpacing
  <1>1. EnvelopeInv => \A a \in Agents : SpacedChange(a)
    <2> SUFFICES ASSUME EnvelopeInv, NEW a \in Agents, RecordApplied(a), ~raced[a]
                 PROVE  \A l \in applied[prop[a].Kind] : l.age >= cooldown[a]
      BY DEF SpacedChange
    <2>1. pc[a] = "passed" /\ Screened(a) /\ Spaced(a)
      BY DEF RecordApplied, Applied, EnvelopeInv
    <2>2. prop[a].Kind \in Kinds
      BY <2>1 DEF Screened, DefaultConstraints, requireKnownKind
    <2> QED
      BY <2>1, <2>2 DEF Spaced
  <1> QED
    BY <1>1, EnvelopeSafe, PTL DEF CooldownSpacing

\* dampener.go:93-94: the verdict on the step size is right for any integers that pass the
\* constraints, whatever the width of the subtraction.
THEOREM EnvelopeHysteresisHonest ==
    ASSUME Constraints = TRUE
    PROVE  Spec => HysteresisHonest
  <1>1. EnvelopeInv => \A a \in Agents : HonestVerdict(a)
    <2> SUFFICES ASSUME EnvelopeInv, NEW a \in Agents,
                        NEW d \in UNION {policy[k] : k \in Dampened \cap {prop[a].Kind}},
                        Dampen(a), prop[a].Kind # "route_weight", applied[prop[a].Kind] # {}
                 PROVE  LET last == CHOOSE l \in applied[prop[a].Kind] : TRUE
                            near == 2 * d.Hysteresis > Abs(Halves(prop[a].Value) - Halves(last.value))
                        IN  /\ pc'[a] = "shadow" => ~near
                            /\ decision'.kind = "reject" /\ pc'[a] = "idle" => near
      BY DEF HonestVerdict
    <2> DEFINE p == prop[a]
               o == Evaluate(p, nowAge[a])
               last == CHOOSE l \in applied[p.Kind] : TRUE
               far == Abs(Halves(p.Value) - Halves(last.value))
    <2>1. /\ Registries /\ AgentsOK /\ nowAge[a] \in 0..MaxDelay
          /\ p.Kind \in Dampened /\ d \in policy[p.Kind] /\ last \in applied[p.Kind]
      BY DEF EnvelopeInv, AgentsOK
    <2>2. p.Kind \in Kinds /\ d.Hysteresis \in Int /\ last.value \in Vetted(p.Kind)
      BY <2>1, RegistryTypes
    <2>3. p.Value \in Vetted(p.Kind)
      BY DEF Dampen, EnvelopeInv, Screened, Vetted
    <2>4. p.Kind \in {"rate_limit", "cache_ttl"}
      BY <2>1, EnvelopeAssumption
    <2> HIDE DEF last
    <2>5. \E x, y \in 0..MaxInt :
            /\ StepSize(p.Kind, last.value, p.Value) = {AbsDiff(x, y)}
            /\ Halves(last.value) = 2 * x /\ Halves(p.Value) = 2 * y
      <3>1. CASE p.Kind = "rate_limit"
        <4>1. PICK x \in 0..MaxInt : asInt64(last.value) = {x} /\ Halves(last.value) = 2 * x
          BY <2>2, <3>1, VettedRate, EnvelopeAssumption
        <4>2. PICK y \in 0..MaxInt : asInt64(p.Value) = {y} /\ Halves(p.Value) = 2 * y
          BY <2>3, <3>1, VettedRate, EnvelopeAssumption
        <4>3. StepSize(p.Kind, last.value, p.Value) = {AbsDiff(x, y)}
          BY <3>1, <4>1, <4>2 DEF StepSize
        <4> QED
          BY <4>1, <4>2, <4>3
      <3>2. CASE p.Kind = "cache_ttl"
        <4>1. /\ last.value.n \in 0..MaxInt /\ asDuration(last.value) = {last.value.n}
              /\ Halves(last.value) = 2 * last.value.n
          BY <2>2, <3>2, VettedTTL
        <4>2. p.Value.n \in 0..MaxInt /\ asDuration(p.Value) = {p.Value.n} /\ Halves(p.Value) = 2 * p.Value.n
          BY <2>3, <3>2, VettedTTL
        <4>3. StepSize(p.Kind, last.value, p.Value) = {AbsDiff(last.value.n, p.Value.n)}
          BY <3>2, <4>1, <4>2 DEF StepSize
        <4> QED
          BY <4>1, <4>2, <4>3
      <3> QED
        BY <2>4, <3>1, <3>2
    <2>6. BelowHysteresis(p, d, last) <=> 2 * d.Hysteresis > far
      <3>1. PICK x, y \in 0..MaxInt :
              /\ StepSize(p.Kind, last.value, p.Value) = {AbsDiff(x, y)}
              /\ Halves(last.value) = 2 * x /\ Halves(p.Value) = 2 * y
        BY <2>5
      <3>2. AbsDiff(x, y) = Abs(x - y) /\ MaxInt \in Nat
        BY AbsDiffHonest, EnvelopeAssumption
      <3>3. BelowHysteresis(p, d, last) <=> d.Hysteresis > 0 /\ Abs(x - y) < d.Hysteresis
        BY <3>1, <3>2 DEF BelowHysteresis
      <3>4. far = 2 * Abs(x - y) /\ Abs(x - y) \in Nat
        BY <3>1, <3>2 DEF Abs
      <3> QED
        BY <2>2, <3>3, <3>4
    <2>7. pc'[a] = "shadow" => o = Pass
      BY <2>1 DEF Dampen, Decide, Leave, Goto, AgentsOK
    <2>8. decision'.kind = "reject" /\ pc'[a] = "idle" => o.kind = "reject"
      BY <2>1 DEF Dampen, Decide, Goto, AgentsOK
    <2>9. \A l \in applied[p.Kind], e \in policy[p.Kind] : l = last /\ e = d
      BY <2>1, <2>2 DEF Registries
    <2>10. /\ o = Pass => ~BelowHysteresis(p, d, last)
           /\ o.kind = "reject" => BelowHysteresis(p, d, last)
      <3>1. \/ /\ o = Pass
               /\ \A e \in policy[p.Kind], l \in applied[p.Kind] : ~BelowHysteresis(p, e, l)
            \/ \E e \in policy[p.Kind], l \in applied[p.Kind] :
                 o = [kind |-> "defer", stage |-> "dampener", retry |-> Remaining(e, l.age - nowAge[a])]
            \/ \E e \in policy[p.Kind], l \in applied[p.Kind] :
                 /\ BelowHysteresis(p, e, l)
                 /\ o = [kind |-> "reject", stage |-> "dampener", retry |-> 0]
        <4> HIDE DEF p
        <4> QED
          BY <2>1, EvaluateFacts
      <3> HIDE DEF p, o
      <3> QED
        BY <2>1, <2>9, <3>1 DEF Pass
    <2> QED
      BY <2>6, <2>7, <2>8, <2>10 DEF last
  <1> QED
    BY <1>1, EnvelopeSafe, PTL DEF HysteresisHonest

-----------------------------------------------------------------------------
\* The pipeline.  Its type invariant is inductive; the budget's part of it is kept by
\* whatever a run reports, however late.

\* recordError and recordSuccess keep the budget in its ranges.  Without a cooldown a
\* spent budget stays spent.
LEMMA BudgetStep ==
    ASSUME PipelineTypeOK, NEW elapsed \in Nat, recordError(elapsed) \/ recordSuccess
    PROVE  /\ Cooldown' = Cooldown /\ enabled' = enabled
           /\ consecutiveErrors' \in 0..MaxConsecutiveErrors
           /\ wait' \in 0..Cooldown \cup (IF Cooldown = 0 THEN {Forever} ELSE {})
           /\ Cooldown = 0 /\ wait = Forever => wait' = Forever
  BY PipelineAssumption DEF PipelineTypeOK, recordError, recordSuccess, Forever

\* What a run keeps to itself.
RunTypes ==
    /\ stage \in [Runs -> {"idle", "plan", "review"}]
    /\ next \in [Runs -> 0..(Reviewers + 1)]
    /\ age \in [Runs -> 0..MaxRunAge]
    /\ cancelled \in [Runs -> BOOLEAN]
    /\ out \in [Runs -> {"none", "error", "disabled", "no_proposal", "veto", "emit"}]

\* A run that returns leaves nothing behind but its outcome.
LEMMA ReturnStep ==
    ASSUME PipelineTypeOK, NEW r \in Runs,
           \E kind \in {"error", "disabled", "no_proposal", "veto", "emit"} : Return(r, kind)
    PROVE  RunTypes'
  BY PipelineAssumption DEF PipelineTypeOK, RunTypes, Return, With

\* A step keeps the types, and only Enable ends a disablement without cooldown.
LEMMA PipelineStep ==
    ASSUME PipelineTypeOK, [PipelineNext]_pipelineVars
    PROVE  /\ PipelineTypeOK'
           /\ (Cooldown = 0 /\ wait = Forever /\ wait' # Forever)
              => (enabled' /\ consecutiveErrors' = 0 /\ stage' = stage)
  <1> USE PipelineAssumption
  <1>0. Cooldown \in Nat /\ (Cooldown \in Cooldowns)
    BY DEF PipelineTypeOK
  <1>1. ASSUME NEW elapsed \in Nat, recordError(elapsed) \/ recordSuccess, RunTypes'
        PROVE  PipelineTypeOK' /\ (Cooldown = 0 /\ wait = Forever => wait' = Forever)
    <2>1. /\ Cooldown' = Cooldown /\ enabled' = enabled
          /\ consecutiveErrors' \in 0..MaxConsecutiveErrors
          /\ wait' \in 0..Cooldown \cup (IF Cooldown = 0 THEN {Forever} ELSE {})
          /\ Cooldown = 0 /\ wait = Forever => wait' = Forever
      BY <1>1, BudgetStep
    <2>2. Forever' = Forever
      BY <2>1 DEF Forever
    <2> QED
      BY <1>1, <2>1, <2>2 DEF PipelineTypeOK, RunTypes
  <1>2. ASSUME UNCHANGED budget, RunTypes'
        PROVE  PipelineTypeOK' /\ wait' = wait
    BY <1>2 DEF PipelineTypeOK, RunTypes, budget, Forever
  <1>3. ASSUME NEW r \in Runs, BeginCancelled(r) \/ PlanError(r) \/ ReviewError(r)
        PROVE  PipelineTypeOK' /\ (Cooldown = 0 /\ wait = Forever => wait' = Forever)
    <2>1. RunTypes' /\ \E elapsed \in Nat : recordError(elapsed)
      <3>1. age[r] \in Nat
        BY DEF PipelineTypeOK
      <3> QED
        BY <1>3, <3>1, ReturnStep DEF BeginCancelled, PlanError, ReviewError
    <2> QED
      BY <1>1, <2>1
  <1>4. ASSUME NEW r \in Runs, PlanNothing(r) \/ ReviewVeto(r) \/ Emit(r)
        PROVE  PipelineTypeOK' /\ (Cooldown = 0 /\ wait = Forever => wait' = Forever)
    <2>1. RunTypes' /\ recordSuccess
      BY <1>4, ReturnStep DEF PlanNothing, ReviewVeto, Emit
    <2> QED
      BY <1>1, <2>1
  <1>5. ASSUME NEW r \in Runs, BeginDisabled(r)
        PROVE  PipelineTypeOK' /\ wait' = wait
    BY <1>2, <1>5, ReturnStep DEF BeginDisabled
  <1>6. ASSUME NEW r \in Runs, Begin(r) \/ PlanProposal(r) \/ ReviewPass(r) \/ Cancel(r)
        PROVE  PipelineTypeOK' /\ wait' = wait
    <2>1. RunTypes' /\ UNCHANGED budget
      <3>1. CASE Begin(r)
        BY <3>1 DEF Begin, With, PipelineTypeOK, RunTypes
      <3>2. CASE PlanProposal(r)
        BY <3>2 DEF PlanProposal, With, PipelineTypeOK, RunTypes
      <3>3. CASE ReviewPass(r)
        BY <3>3 DEF ReviewPass, With, PipelineTypeOK, RunTypes
      <3>4. CASE Cancel(r)
        BY <3>4 DEF Cancel, With, PipelineTypeOK, RunTypes
      <3> QED
        BY <1>6, <3>1, <3>2, <3>3, <3>4
    <2> QED
      BY <1>2, <2>1
  <1>7. CASE Enable
    BY <1>7, <1>0 DEF Enable, PipelineTypeOK, Forever
  <1>8. CASE Disable
    BY <1>8 DEF Disable, PipelineTypeOK, Forever
  <1>9. CASE PipelineTick
    BY <1>9, <1>0 DEF PipelineTick, PipelineTypeOK, Forever
  <1>10. CASE UNCHANGED pipelineVars
    BY <1>10 DEF pipelineVars, PipelineTypeOK, Forever
  <1> QED
    BY <1>3, <1>4, <1>5, <1>6, <1>7, <1>8, <1>9, <1>10 DEF PipelineNext, RunStep, Enable

\* agent.go:242-245: for any number of concurrent runs and reviewers, a budget that is spent
\* without a cooldown is revived by Enable alone, which interrupts nobody.
THEOREM PipelineOnlyEnableRevives == PipelineSpec => OnlyEnableRevives
  <1>1. PipelineInit => PipelineTypeOK
    BY PipelineAssumption DEF PipelineInit, PipelineTypeOK, Forever
  <1> QED
    BY <1>1, PipelineStep, PTL DEF PipelineSpec, OnlyEnableRevives
=============================================================================
