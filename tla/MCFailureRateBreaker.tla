----------------------- MODULE MCFailureRateBreaker -----------------------
EXTENDS FailureRateBreaker

cfgA == [WindowSize |-> 3, FailureThreshold |-> 60, ResetTimeout |-> 2, HalfOpenMax |-> 2]
cfgB == [WindowSize |-> 2, FailureThreshold |-> 100, ResetTimeout |-> 1, HalfOpenMax |-> 1]
cfgC == [WindowSize |-> 3, FailureThreshold |-> 34, ResetTimeout |-> 1, HalfOpenMax |-> 3]
MCConfigs == {cfgA, cfgB, cfgC}
MCThresholds == {20, 67}
=============================================================================
