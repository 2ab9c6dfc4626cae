SPECIFICATION ServicesSpec
CONSTANTS
    r1 = r1
    r2 = r2
    r3 = r3
    r4 = r4
    a = a
    b = b
    s1 = s1
    s2 = s2
    w = w
    Requests <- MCTwoRequests
    Targets <- MCTargets
    MaxChanges = 2
    Callers <- MCThreeRequests
    Sessions <- MCTwoSessions
    MaxQueueCapacity = 1
    MaxQueues = 4
    Inserts <- MCThreeRequests
    Clients <- MCTwoSessions
    Logs <- MCTargets
    MaxPatches = 2
    MaxDrains = 1
    Migrations <- MCTwoRequests
    Writers <- MCOneWriter
    OldRows <- MCTargets
    MaxCleanups = 1
    MaxErrors = 1
    MaxRestarts = 1
    Tasks <- MCFourTasks
    Limits <- MCLimits
    HoldsPerTask = 1
    Jobs <- MCOneJob
    AuditRecords <- MCTwoRequests
    Controllers <- MCOneWriter
    Concurrency = 2
    MaxResumes = 2
INVARIANTS
    ProbesAccounted
    OneHolder
    TurnsOrdered
    SwitchedComplete
PROPERTIES
    EjectionEnds
    WaiterServed
    RowsInOrder
    MaintenanceEnds
    QueuedTasksStart
    ImplementsSlotPool
    JobsFinish
CHECK_DEADLOCK FALSE
