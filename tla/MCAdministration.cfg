SPECIFICATION AdministrationSpec
CONSTANTS
    api1 = api1
    api2 = api2
    ai2 = ai2
    d1 = d1
    d2 = d2
    anyHost = anyHost
    chat = chat
    responses = responses
    m1 = m1
    m2 = m2
    l1 = l1
    l2 = l2
    p1 = p1
    p2 = p2
    k1 = k1
    k2 = k2
    a = a
    b = b
    u1 = u1
    g0 = g0
    g1 = g1
    g2 = g2
    e1 = e1
    e2 = e2
    ok = ok
    NoKey = NoKey
    c1 = c1
    c2 = c2
    f0 = f0
    f1 = f1
    pg = pg
    badPg = badPg
    root = root
    Unattended = Unattended
    Deployed = Deployed
    Nothing = Nothing
    Providers <- MCProviders
    Keys <- MCKeys
    MaxCrashes = 2
    MaxFailures = 2
    Callers <- MCCallers
    Users <- MCUsers
    Groups <- MCGroups
    DefaultGroup = g0
    MaxUses = 1
    ChunkSize = 1
    MaxCalls = 3
    MaxKeys = 2
    MaxRestarts = 1
    Fingerprints <- MCFingerprints
    ErrorPrints <- MCErrorPrints
    IdenticalRepeats = 3
    PingPongHalfCycles = 6
    ContinuationCeiling = 6
    MaxAge = 1
    MaxBuffered = 6
    MaxHops = 1
    MaxTurns = 7
    MaxTime = 1
    Hosts <- MCHosts
    Offered <- MCOffered
    Domain <- MCDomain
    Prefix <- MCPrefix
    Primary = d1
    Apex = "@"
    Wildcard = anyHost
    Paths <- MCPaths
    Responses = responses
    Chat = chat
    AllowUnknown = FALSE
    MaxRoutes = 3
    MaxMade = 2
    MaxEdits = 1
    Models <- MCModels
    Administrators <- MCCallers
    Settings <- MCSettings
    Custom <- MCCustom
    MaxRows = 3
    MaxSaves = 1
    MaxStarts = 2
    Lookers <- MCLookers
    KeptFor = 2
    MaxNames = 2
    MaxTicks = 4
    Setups <- MCSetups
    Names <- MCNames
    Files <- MCFiles
    Urls <- MCUrls
    Unreachable <- MCUnreachable
    DefaultFile = f0
    MaxBoots = 3
    MaxMisses = 1
INVARIANTS
    CatalogKept
    AccountsConsistent
    RouteServed
    SettingsKept
    AliasFresh
    SetupKept
PROPERTIES
    GuardHolds
CHECK_DEADLOCK FALSE
