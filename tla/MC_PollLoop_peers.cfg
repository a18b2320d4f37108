SPECIFICATION FairSpec
CONSTANTS
    None = None
    nodeA = nodeA
    nodeB = nodeB
    Tokens = {1, 2}
    Addresses = {nodeA, nodeB}
    Addr <- MCAddr2
    Incoming = {1, 2}
    Given = {}
    HardLimit = 2
    MaxAllowed = 1
    Desired = 1
    ClockMoves = TRUE
    Learned = {}
    Packets = {"CatchUpStatus", "Broadcast"}
    Called = {}
    MayRestart = FALSE
    Ends = {"Removal"}
    MaxInbound = 1
    MaxQueue = 2
    MaxCalls = 0
    MaxRegenesis = 1
INVARIANTS
    
    OneCatchUpPeer
PROPERTIES
    CatchUpEnds
    PendingAreAsked
