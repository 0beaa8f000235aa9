SPECIFICATION RailsSpec
CONSTANTS
    Txs = {"t1", "t2", "t3"}
    Ready = {"d1", "d2"}
    Building = {"b1"}
    Ops = {"promote", "cancel", "build_event", "cancel_complete"}
    MaxVersion = 1
    Keys = {"k1", "k2"}
    Digests = {"c", "d"}
    Guarded = {"c"}
    Bodies = {"x", "y"}
    Requests = {"r1", "r2"}
    MaxRequests = 3
    MaxCrashes = 1
    MaxAdvances = 1
    Emails = {"e1", "e2"}
    Ips = {"i1"}
    MaxPerEmail = 1
    MaxPerIp = 1
    Window = 1
    Threads = {"r1", "r2"}
    MaxTime = 2
    Users = {"u1", "u2"}
    Askers = {"a1"}
    Confirmers = {"c1", "c2"}
    MaxKeys = 3
    MaxAsks = 3
INVARIANTS
    TransactionsSafe
    RequestsSafe
    BudgetsHold
    SignInIsGuarded
PROPERTIES
    ExecutedOnce
CHECK_DEADLOCK FALSE
