CONSTANTS
  Pollers = {p1, p2}
  Backends = {a}
  TTL = 2
  MaxPoll = 1
SPECIFICATION FairReadySpec
INVARIANTS AnswerIsRecent VerdictTruthful
PROPERTY RecoveryShows
