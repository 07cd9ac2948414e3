SPECIFICATION Spec
CONSTANTS
    h1 = h1
    h2 = h2
    NoHost = NoHost
    Hosts = {h1, h2}
    Deployments <- MCDeployments
    MaxRounds = 1
    MaxActions = 1
    MaxPlans = 2
    MaxFaults = 1
CHECK_DEADLOCK FALSE
INVARIANTS
    LedgerCovers
    LedgerReplays
    AnswerIsTrue
    WritesOnce
    
PROPERTIES
    RunSettles
