CONSTANTS
    NoOwner = NoOwner
    Workers = {w1, w2}
    MaxGen = 8
    MaxFaults = 1
SPECIFICATION LSpec
CHECK_DEADLOCK FALSE
INVARIANTS
    SentOnce
    VerdictIsTrue
PROPERTIES
    DecidedInTime
    UnknownIsSettled
