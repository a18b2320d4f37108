CONSTANTS
    Nodes <- MCNodes
    Bootstrappers = {"boot"}
    Links <- MCLinks
    Payloads <- MCPayloads
    TypeOf <- MCTypeOf
    Maker <- MCMaker
    LongSize = 1
    ShortSize = 1
    DepthHigh = 1
    DepthLow = 1
    RelayPercentage = 100
    MayDropRebroadcast = TRUE
    MaxMade = 2
    MaxDirect = 1
SPECIFICATION Spec
CHECK_DEADLOCK FALSE
INVARIANTS  ReachesEveryPeer
