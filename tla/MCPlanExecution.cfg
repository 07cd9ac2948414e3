CONSTANTS
    NoOwner = NoOwner
    Workers = {v, w}
    SourceOrder <- MCSourceOrder
    NeedsApproval = {"c"}
    Write = {"c"}
    Never = {"b", "c"}
    Contracted = {"a"}
    ParallelOk = {}
    Requires <- MCRequires
    Hints <- MCHints
    Prepared <- MCPrepared
    DenialIds = {"id"}
    MaxParallel = 2
    MaxAttempts = 2
    MaxGen = 3
    MaxFaults = 2
SPECIFICATION Spec
CHECK_DEADLOCK FALSE
SYMMETRY WorkerSymmetry
INVARIANTS
    NeverStepOnce
    SideEffectsInOrder
    AcknowledgedStateWasTold
