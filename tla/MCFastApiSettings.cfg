SPECIFICATION SettingsSpec
CONSTANTS
    p1 = p1
    p2 = p2
    Projects = {p1, p2}
    EnvIds = {prod, e1, e2}
    Slugs = {production, preview, qa}
    Branches = {main}
    Hosts = {h1, h2}
    Domains = {n1, n2}
    Requests = {r1}
    Prod = prod
    Production = production
    Null = Null
    Fragments = {}
    MaxDomainEdits = 2
    u1 = u1
    t1 = t1
    i1 = i1
    i2 = i2
    Users = {u1, u2}
    Teams = {t1, t2}
    TeamProjects = {tp}
    Invites = {i1, i2}
    TeamRequests = {r1}
    Nobody = Null
    Forms = {}
    Overlap = FALSE
    MaxJobs = 2
    Runners = {"r1", "r2", "own"}
    Presets = {"p1", "p2"}
    CategoryOf <- EntryCategory
    RunnerOf <- PresetRunner
    Catalogs <- BothCatalogs
    Installed <- Full
    Custom <- Edited
    Admins = {a1}
    Crashes = FALSE
INVARIANTS
    DomainsProven
    
PROPERTIES
    SettingsKept
    PeopleGoAsAsked
    RunnersOffered
CHECK_DEADLOCK FALSE
