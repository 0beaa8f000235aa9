SPECIFICATION PlaneSpec
CONSTANTS
    d1 = d1
    d2 = d2
    g1 = g1
    a1 = a1
    a2 = a2
    c1 = c1
    c2 = c2
    Deployments <- ImagesAndGit
    OciDeployments <- Images
    Aliases <- TwoAliases
    Clients <- TwoClients
    MaxAliasVersion = 3
    MaxFaults = 2
    Releases = {"ready", "failed", "canceled"}
SYMMETRY Symmetry
INVARIANTS
    RecordsConsistent
    ServingConsistent
PROPERTIES
    RollbackIsOfVersionSeen
    ServesOnlyLive
    WorkflowsKeepUp
CHECK_DEADLOCK FALSE
