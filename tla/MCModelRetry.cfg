CONSTANTS
    Calls = {c1, c2, c3}
    FailureThreshold = 2
    RecoveryTimeout = 1
    MaxRetries = 1
    MaxTime = 2
SPECIFICATION RetrySpec
CHECK_DEADLOCK FALSE
INVARIANTS
    OnlyLastAttempt
PROPERTIES
    CallEnds
