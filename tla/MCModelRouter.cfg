CONSTANTS
    Candidates = {c1, c2}
    Routes = {r1, r2}
    NoCandidate = NoCandidate
    Threshold = 2
    Cooldown = 1
    MaxAttempts = 2
    MaxClock = 1
SPECIFICATION Spec
CHECK_DEADLOCK FALSE
SYMMETRY RouterSymmetry
INVARIANTS
    NoSplice
    BreakerConsistent
