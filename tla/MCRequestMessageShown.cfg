SPECIFICATION RequestSpec
CONSTANTS
    Protocols <- AllProtocols
    LastIndex = 1
    MaxCalls = 2
    CustomCalls <- FirstIsCustom
    MaxChunks = 4
    MaxRetries = 1
    MaxCycles = 2
    Interleaving = FALSE
    FailAfterCutoff = FALSE
    Settings <- MCSettings
    Answers <- MCAnswers
    MaxPictures = 1
    Origins <- MCOrigins
    Incoming <- MCRequests
    LongFloor = 1
    r1 = r1
    k1 = k1
    u1 = u1
    g1 = g1
    g2 = g2
    a4 = a4
    a6 = a6
    one = one
    net = net
    bad = bad
    SystemKey = SystemKey
    NoKey = NoKey
    NoUser = NoUser
    Unknown = Unknown
    NoLimit = NoLimit
    Requests <- MCEntering
    Keys <- MCKeys
    Users <- MCUsers
    Groups <- MCGroups
    OwnerOf <- MCOwnerOf
    V4 <- MCV4
    V6 <- MCV6
    Tokens <- MCTokens
    Covers <- MCCovers
    WellFormed <- MCWellFormed
    Rules <- MCRules
    MaxTokens = 1
    MaxRequests = 2
    MaxChanges = 1
    p1 = p1
    p2 = p2
    m1 = m1
    m2 = m2
    m3 = m3
    c1 = c1
    s1 = s1
    s2 = s2
    NoModel = NoModel
    NoRow = NoRow
    NoSchedule = NoSchedule
    Providers <- MCProviders
    Models <- MCModels
    Callers <- MCCallers
    Savers <- MCSavers
    Cases <- MCCases
    Wants <- MCWants
    Offers <- MCOffers
    Times <- MCTimes
    Rolls <- MCRolls
    DailyStart = 480
    MaxEdits = 1
    MaxSaves = 2
    MaxAsks = 1
INVARIANTS
    MessageReadable
