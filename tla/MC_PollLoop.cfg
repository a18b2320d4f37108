SPECIFICATION Spec
CONSTANTS
    None = None
    nodeA = nodeA
    nodeB = nodeB
    Tokens = {1, 2, 3}
    Addresses = {nodeA, nodeB}
    Addr <- MCAddr
    Incoming = {1, 3}
    Given = {}
    HardLimit = 2
    MaxAllowed = 1
    Desired = 1
    ClockMoves = FALSE
    Learned = {nodeA}
    Packets = {"CatchUpStatus"}
    Called = {nodeA}
    MayRestart = TRUE
    Ends = {"Expulsion"}
    MaxInbound = 0
    MaxQueue = 2
    MaxCalls = 1
    MaxRegenesis = 0
INVARIANTS
    OneConnectionPerNode
    ConnectedArePersisted
    BannedAreDropped
