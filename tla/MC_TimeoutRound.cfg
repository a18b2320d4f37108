CONSTANTS
    Committee <- ChangeAfterEpoch0
    ThresholdNum = 2
    ThresholdDen = 3
    QCs <- MCQCs
    GenesisQC <- MCGenesisQC
SPECIFICATION Spec
INVARIANTS
    WindowKeepsMessages
    
    CertificateCovered
CHECK_DEADLOCK FALSE
