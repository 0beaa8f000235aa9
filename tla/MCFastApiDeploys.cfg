SPECIFICATION DeploysSpec
CONSTANTS
    Null = Null
    None = Null
    d1 = d1
    d2 = d2
    prod = prod
    main = main
    Deployments = {d1, d2}
    EnvOf <- ToProduction
    BranchOf <- OfMain
    Prod = prod
    Cancelable = {}
    Faulty = FALSE
    MaxCrashes = 0
    MaxRollbacks = 1
    Ids = {s1, s2}
    Names = {n1}
    Types = {"database"}
    Projects = {p1}
    Environments = {e1}
    Requests = {r1, r2}
    Forms = {"create", "create_storage", "reset", "delete", "connect", "disconnect"}
    Patient = TRUE
    MaxJobs = 3
    Faults = {"refused", "failed", "killed"}
    MaxFaults = 1
INVARIANTS
    ServedAnswered
    NoneRunsInVain
PROPERTIES
    ConcludedOnce
    StoragesKept
CHECK_DEADLOCK FALSE
