------------------------------ MODULE MCProxy ------------------------------
EXTENDS Proxy

cfgA == [WindowSize |-> 1, FailureThreshold |-> 100, ResetTimeout |-> 1, HalfOpenMax |-> 1]
OneConfig == {cfgA}
TwoRoutes == {[RetryAttempts |-> 1, FallbackStatus |-> 0],
              [RetryAttempts |-> -1, FallbackStatus |-> 200]}
=============================================================================
