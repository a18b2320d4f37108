SPECIFICATION GossipSpec
CONSTANTS
    None = None
    Self = "s"
    Committee <- MCCommittee
    Paydays = {1, 2, 3, 4}
    Blocks = {"g", "a1", "a2", "a3", "c4", "c5"}
    Genesis = "g"
    Round <- MCRound
    Epoch <- MCEpoch
    Parent <- MCParent
    Height <- MCHeight
    Baker <- MCBaker
    Ancestors <- MCAncestors
    BlockTC <- MCBlockTC
    BlockEntry <- MCBlockEntry
    Trigger = {"a2", "a3", "d4"}
    Shutdown = {}
    Invalid = {}
    Senders = {"q"}
    TimeoutRounds = {4, 5}
    Worlds = {{"g", "a1", "a2", "a3", "c4"}}
    MaxCrashes = 1
    MayDamage = TRUE
INVARIANT
    RestartIsSound
CHECK_DEADLOCK FALSE
