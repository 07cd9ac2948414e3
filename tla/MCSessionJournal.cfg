CONSTANTS
    NoOwner = NoOwner
    None = None
    Projects = {"p1"}
    CatSessions = {"a"}
    Configs = {"h"}
    w1 = w1
    w2 = w2
    w3 = w3
    c1 = c1
    c2 = c2
    c3 = c3
    Writers = {w1, w2, w3}
    Clients = {c1, c2, c3}
    Deployments <- MCDeployments
    Streams <- MCStreams
    RetryStreams <- MCRetryStreams
    CatTenant = "t1"
    EncKeys = {k1, k2}
    Retentions = {1, 9}
    AuditRetention = 9
    SnapRetention = 1
    Forever = 9
    MaxTries = 2
    MaxNow = 1
SPECIFICATION Spec
CHECK_DEADLOCK FALSE
SYMMETRY ProcessSymmetry
INVARIANTS
    ManifestsVerify
    CursorMissesNothing
    JournalReplays
