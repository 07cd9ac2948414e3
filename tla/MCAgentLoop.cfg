CONSTANTS
    Users = {"a", "b"}
    Deployments <- MCDeployments
    IdWidth = 9
    MaxFaults = 1
SPECIFICATION Spec
CHECK_DEADLOCK FALSE
INVARIANTS
    CommittedResultKept
    MessagesOnce
    TruthfulRun
    WithinBudget
    RequestIsFaithful
PROPERTIES
    TranscriptProtocol
