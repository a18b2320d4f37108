CONSTANTS
    blockA = blockA
    blockB = blockB
    blockC = blockC
    Blocks <- MCBlocks
    BlockEpoch <- MCBlockEpoch
    FirstEpoch = 0
    Committee <- SameTotal
    ThresholdNum = 2
    ThresholdDen = 3
SPECIFICATION Spec
INVARIANTS
    
    CertificateNotMissed
CHECK_DEADLOCK FALSE
