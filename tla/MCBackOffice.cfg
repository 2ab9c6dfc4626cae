SPECIFICATION BackOfficeSpec
CONSTANTS
    a = a
    r1 = r1
    r2 = r2
    p1 = p1
    p2 = p2
    p3 = p3
    a1 = a1
    a2 = a2
    w = w
    unset = unset
    Jobs <- MCTwoJobs
    AuditRecords <- MCTwoRecords
    Controllers <- MCControllers
    Concurrency = 2
    MaxResumes = 1
    Proposals <- MCProposals
    Tokens = {"fix"}
    Patterns = {"("}
    Parses = {}
    Payload <- MCPayload
    Admins <- MCAdmins
    Viewers <- MCViewers
    CacheTTL = 2
    MaxVersions = 3
    MaxSeconds = 2
    MaxStarts = 2
    Patchers <- MCPatchers
    Patches <- MCPatches
    Crons = {"", "nightly", "nonsense", "daily"}
    ValidCrons = {"nightly", "daily"}
    DefaultCron = "daily"
    Absent = unset
    MaxTasks = 2
    Versions <- MCVersions
    MaxStops = 2
    Sizes <- MCSizes
    Times <- MCTimes
    Models <- MCModels
    Upstream <- MCUpstream
    Asks <- MCAsks
    Layers <- MCLayers
    MaxTries = 1
    MaxCapacity = 2
INVARIANTS
    CompletedIsPublished
    SchemaKept
    ValuesKept
    MendedAsNeeded
    ControlKept
PROPERTIES
    CancelledStops
SYMMETRY MCSymmetry
CHECK_DEADLOCK FALSE
