SPECIFICATION StrategySpec
CONSTANTS
    t1 = t1
    t2 = t2
    t3 = t3
    v1 = v1
    v2 = v2
    v3 = v3
    l1 = l1
    l2 = l2
    l3 = l3
    none = none
    Models <- MCModels
    NoModel = none
    Cases <- MCCases
    SizeGate = 2
    TokenFloor = 3
    RetryCount = 0
    MaxCycles = 2
    MaxBlanks = 1
    MaxBusy = 1
INVARIANTS
    ImagesToVision
PROPERTIES
    RoutingEnds
CHECK_DEADLOCK FALSE
