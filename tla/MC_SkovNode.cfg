SPECIFICATION GossipSpec
CONSTANTS
    None = None
    Self = "s"
    Committee <- MCCommittee
    Paydays = {1, 2, 3, 4}
    Blocks = {"g", "a1", "a2", "a3", "b3", "b4", "c4", "c5"}
    Genesis = "g"
    Round <- MCRound
    Epoch <- MCEpoch
    Parent <- MCParent
    Height <- MCHeight
    Baker <- MCBaker
    Ancestors <- MCAncestors
    BlockTC <- MCBlockTC
    BlockEntry <- MCBlockEntry
    Trigger = {"a2", "a3", "d4"}
    Shutdown = {"b3", "b4"}
    Invalid = {}
    Senders = {"p"}
    TimeoutRounds = {3, 5}
    Worlds <- MCForkWorlds
    MaxCrashes = 1
    MayDamage = FALSE
INVARIANTS
    NoInternalError
    
    BranchesAreTheLiveTree
    SentIsOnDisk
    DiskIsATree
PROPERTIES
    
    ShutdownIsFinal
CHECK_DEADLOCK FALSE
