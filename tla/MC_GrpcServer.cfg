SPECIFICATION FairSpec
CONSTANTS
    None = None
    r1 = r1
    r2 = r2
    Requests <- MCRequests
    Offered <- MCOffered
    Short = 1
    Long = 1
    MaxConnections = 2
    MaxConcurrent = 2
    Threads = 1
    MaxDryRuns = 1
    MaxItems = 3
    MaxBlocks = 2
INVARIANTS
    ResourcesHaveOneOwner
    StreamsAreWhole
    AcceptedIsSent
    LateCallsAreForsaken
PROPERTIES
    WorkEnds
CHECK_DEADLOCK FALSE
