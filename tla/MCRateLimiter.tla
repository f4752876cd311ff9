--------------------------- MODULE MCRateLimiter ---------------------------
EXTENDS RateLimiter

\* A client has two entries: two bursts, which come from the override, from the
\* global limits, or from the two configurations in turn.
over  == [rate |-> 1, burst |-> 1, override |-> [rate |-> 1, burst |-> 2]]
plain == [rate |-> 1, burst |-> 2, override |-> NoOverride]
TwoConfigs == {over, plain}
=============================================================================
