SPECIFICATION FairSpec
CONSTANTS
    None = None
    Self = "s"
    Committee <- MCCommittee
    Paydays = {1, 2, 3, 4}
    Blocks = {"g", "a1", "a2", "a3", "d4", "x4"}
    Genesis = "g"
    Round <- MCRound
    Epoch <- MCEpoch
    Parent <- MCParent
    Height <- MCHeight
    Baker <- MCRound4Baker
    Ancestors <- MCAncestors
    BlockTC <- MCBlockTC
    BlockEntry <- MCBlockEntry
    Trigger = {"a2", "a3", "d4"}
    Shutdown = {}
    Invalid = {}
    Senders = {"p"}
    TimeoutRounds = {3}
    Worlds = {{"g", "a1", "a2", "a3"}}
    MaxCrashes = 1
    MayDamage = FALSE
INVARIANTS
    OneBlockPerRound
PROPERTIES
    ImplementsVoting
    
CHECK_DEADLOCK FALSE
