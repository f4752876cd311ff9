CONSTANTS
  Agents = {a1, a2}
  Proposals <- AllKinds
  MaxInt = 7
  Constraints = TRUE
  Bounds <- SomeBounds
  Policies <- TwoPolicies
  ShadowKinds = {"rate_limit"}
  MaxDelay = 1
  MaxAge = 2
SPECIFICATION Spec
SYMMETRY Interchangeable
INVARIANTS AppliedIsSane
PROPERTIES HysteresisHonest RetrySuffices CooldownSpacing
