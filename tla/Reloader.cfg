CONSTANTS
  Timers = {t1}
  Hup = hup
  MaxEdits = 4
  NumParts = 3
  Invalid = {2}
  Rejected <- TwoMidway
SPECIFICATION FairSpec
CHECK_DEADLOCK FALSE
INVARIANTS  SerialReloadsSettle
PROPERTIES EndsAfterStop CatchesUp
