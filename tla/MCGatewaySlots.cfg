SPECIFICATION FairSpec
CONSTANTS
    r1 = r1
    r2 = r2
    r3 = r3
    k1 = k1
    p1 = p1
    p2 = p2
    Requests <- MCTwoRequests
    Keys <- MCOneKey
    Providers <- MCProviders
    KeyOf <- MCTwoKeyOf
    Limits = {1, 2}
    MaxAttempts = 2
    MaxCycles = 1
    MaxChanges = 1
    EmptyJsonAnswers = FALSE
INVARIANTS
    LimitsEnforced
    NoSlotLost
PROPERTIES
    EveryRequestEnds
