---------------------------- MODULE MCEnvelope ----------------------------
EXTENDS Envelope, TLC

V(type, n) == [t |-> type, n |-> n]
Of(k, vs)  == {[Kind |-> k, Agent |-> TRUE, Value |-> v] : v \in vs}

\* For every kind of proposal values in range, values at or beyond its limits and values of the
\* wrong type: uints that wrap to a negative number, uint64s at and above the cut (1<<62 is 4
\* here), fractions.  And the other ways to be refused.
AllKinds ==
    Of("rate_limit", {V("int", 0), V("int32", -1), V("uint", 1), V("uint", 8), V("uint", 15), V("uint32", 0),
                      V("uint64", 5), V("float", 8), V("float", 3), V("float32", 2), V("other", 0)})
    \cup Of("route_weight", {V("float", -1), V("float", 3), V("float32", 1), V("int", 2), V("uint", 1), V("nan", 0)})
    \cup Of("cache_ttl", {V("duration", -1), V("int", -1), V("int", 2), V("duration", 7), V("int32", 1), V("float", 2)})
    \cup Of("circuit_breaker", {V("other", 0)}) \cup Of("unknown", {V("int", 1)})
    \cup {[Kind |-> "rate_limit", Agent |-> FALSE, Value |-> V("int", 1)]}

SomeBounds == [k \in {"rate_limit", "route_weight", "cache_ttl"} |->
                 IF k = "route_weight" THEN [min |-> 0, max |-> 2] ELSE [min |-> 0, max |-> 7]]

TwoPolicies == [k \in {"rate_limit"} |-> {[Cooldown |-> 1, Hysteresis |-> 2],
                                          [Cooldown |-> 1, Hysteresis |-> 0]}]

\* Agents are interchangeable: no constant and no property tells them apart.
Interchangeable == Permutations(Agents)
=============================================================================
