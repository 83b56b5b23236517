\* Three workers; a gate of one makes launches contend, and three runs share one slot.
CONSTANTS
    Builders = {b1, b2}
    Workers = {w1, w2, w3}
    Images = 2
    Platforms <- MCPlatforms
    Limited <- MCLimited
    SlotLimit <- MCSlotLimit
    Planned <- MCPlanned
    GateLimit = 1
    Codes <- MCCodes
    Cancelled = 130
    NoResult = NoResult
    MaxRetries = 1
SPECIFICATION FairSpec
INVARIANTS
    TypeOK
    PlatformLimitHolds
    GateLimitHolds
    RunsAreNotShared
    SuccessIsComplete
PROPERTIES
    ResultsAreFinal
    CancelStopsLaunching
    SchedulerEnds
