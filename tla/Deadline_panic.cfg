CONSTANTS
  Requests = {r1, r2}
  MaxWrites = 2
SPECIFICATION Spec
CHECK_DEADLOCK FALSE
INVARIANT PanicsRecovered
