CONSTANTS
  Cleaners = {c1, c2}
  Lengths = {1, 2}
  MaxBytes = 2
  MaxBackups = 1
  MaxAge = 1
  MaxWrites = 4
  MaxClock = 3
  MaxFaults = 2
SYMMETRY CleanersSymmetry
SPECIFICATION Spec
CHECK_DEADLOCK FALSE
INVARIANTS SizeHonest BackupsBounded Retained
