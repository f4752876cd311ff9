SPECIFICATION ChainSpec
CONSTANTS
    r1 = r1
    r2 = r2
    Requests = {r1, r2}
    MaxWrites = 2
    Inputs <- MCInputs
    Replies <- MCReplies
    MaxBody = 2
    MaxBodyLog = 1
    Scopes = {"s"}
INVARIANTS
    NoWriterOutlives
    LogTruthful
    UpstreamSees
PROPERTIES
    EveryRequestReturns
CHECK_DEADLOCK FALSE
