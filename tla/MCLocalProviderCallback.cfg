SPECIFICATION LPSpec
CONSTANTS
    d1 = d1
    d2 = d2
    a1 = a1
    c1 = c1
    Deployments <- Images
    OciDeployments <- Images
    Aliases <- OneAlias
    Clients <- OneClient
    MaxAliasVersion = 1
    MaxAttempts = 2
    MaxClaims = 2
    MaxFaults = 1
INVARIANTS
    CallbackIdentityKept
CHECK_DEADLOCK FALSE
