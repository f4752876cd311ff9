------------------------ MODULE MCCompositeBreaker ------------------------
EXTENDS CompositeBreaker

cfgA == [WindowSize |-> 2, FailureThreshold |-> 100, ResetTimeout |-> 1, HalfOpenMax |-> 1]
cfgB == [WindowSize |-> 1, FailureThreshold |-> 50, ResetTimeout |-> 1, HalfOpenMax |-> 1]
cfgC == [WindowSize |-> 1, FailureThreshold |-> 100, ResetTimeout |-> 1, HalfOpenMax |-> 2]
ThreeConfigs == {cfgA, cfgB, cfgC}
=============================================================================
