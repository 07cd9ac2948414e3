CONSTANTS
    NoOwner = NoOwner
    Owners = {a, b}
    Keys = {k}
    Lease = 2
    MaxClock = 4
    MaxGen = 3
    MaxLog = 2
    MaxCalls = 2
SPECIFICATION Spec
SYMMETRY OwnerSymmetry
INVARIANTS
    OneOwnerPerGeneration
    AppendsInGenerationOrder
PROPERTIES
    AppendUnderNewestLease
    LostLeaseStaysLost
