CONSTANTS
    Calls <- MCCalls
    Requested = {{"a", "b", "x"}, {"a", "q"}, {"b", "r"}}
    ProcessOf <- MCProcessOf
    BatchOf <- MCBatchOf
    KeysOf <- MCKeysOf
    KeyOrder <- MCKeyOrder
    AccessOf <- MCAccessOf
    Exclusive = {"x"}
    Never = {"a", "b", "q"}
    Effectful = {"a", "b", "q", "x"}
    PriorityOf <- MCPriorityOf
    TenantLimit = 1
    ParallelLimit = 1
    AttemptsOf <- MCAttemptsOf
    MaxInterrupts = 2
    MaxLapses = 1
    MaxBreaks = 1
SPECIFICATION Spec
CHECK_DEADLOCK FALSE
INVARIANTS
    GrantsAccountedFor
    NoCircularWait
    HonestOutcome
    NewerOwnerFencesOlder
