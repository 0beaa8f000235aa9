SPECIFICATION LPSpec
CONSTANTS
    d1 = d1
    d2 = d2
    a1 = a1
    c1 = c1
    Deployments <- Images
    OciDeployments <- Images
    Aliases <- OneAlias
    Clients <- OneClient
    MaxAliasVersion = 2
    MaxAttempts = 2
    MaxClaims = 3
    MaxFaults = 3
SYMMETRY Symmetry
CONSTRAINT Explored
INVARIANTS
    ProviderConsistent
    CommandsAnswered
PROPERTIES
    CanceledAfterRemoval
CHECK_DEADLOCK FALSE
