SPECIFICATION Spec
CONSTANTS
    r1 = r1
    r2 = r2
    r3 = r3
    k1 = k1
    p1 = p1
    p2 = p2
    Requests <- MCRequests
    Keys <- MCOneKey
    Providers <- MCProviders
    KeyOf <- MCOneKeyOf
    Limits = {1}
    MaxAttempts = 2
    MaxCycles = 0
    MaxChanges = 0
    EmptyJsonAnswers = TRUE
INVARIANTS
    LimitsEnforced
