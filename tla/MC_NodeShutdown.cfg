SPECIFICATION FairSpec
CONSTANTS
    Depth <- MCDepth
    Periods <- MCPeriods
    ChunkSize = 2
INVARIANTS
    
    ImportIsComplete
PROPERTIES
    ShutdownEnds
    LowIsServed
CHECK_DEADLOCK FALSE
