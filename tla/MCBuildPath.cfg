SPECIFICATION BuildPathSpec
CONSTANTS
    Workload = "static"
    Tries = 2
    Cancels = TRUE
    MaxAttempts = 2
    Pods = 2
    CredIds = {1, 2, 3, 4, 5, 6, 7, 8}
    Faults = {"refused", "unanswered", "crash", "pod", "job", "silent"}
    MaxFaults = 1
    LineLimit = 8
    Prefix = 2
    Stamp = 1
    Lengths = {3, 5, 6, 7, 9}
    Widths = {1, 2}
    Counts = {1, 5}
    KeptLines = 4
    MaxLines = {3, 4}
    TailLines = 2
    Evidence = 14
    Index = "index"
    Files = {"index", "asset"}
    Bodies = {"one", "two"}
    Archives <- ThreeArchives
    Revisions = {"r1", "r2"}
    Reconciliations = {"i"}
    LastTime = 2
    MaxBreaks = 1
    Ids = {"c1", "c2"}
    Users = {"u1", "u2"}
    Secrets = {"p"}
    Orgs = {"o1"}
    Services = {"s1", "s2"}
    Ttl = 2
    MaxLife = 2
    MaxTime = 3
    MaxTokens = 1
INVARIANTS
    PublishedIsEvidenced
    OutcomeAgrees
    SettledHoldsNothing
    ReportsAccepted
    CredentialsHold
PROPERTIES
    ResultKept
    SitesKept
CHECK_DEADLOCK FALSE
