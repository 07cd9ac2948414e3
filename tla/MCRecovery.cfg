CONSTANTS
    NoOwner = NoOwner
    Workers = {w1, w2}
    MaxGen = 1
    RunKinds = {"tool", "tool_write", "guarded", "direct"}
    MaxRecoveries = 3
SPECIFICATION RSpec
CHECK_DEADLOCK FALSE
SYMMETRY WorkerSymmetry
INVARIANTS
    TranscriptIntact
    UnsafeToolOnce
    ResultMatchesWrite
    CompletedIsClosed
