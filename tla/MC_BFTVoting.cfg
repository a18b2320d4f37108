CONSTANTS
    f1 = f1
    f2 = f2
    f3 = f3
    f4 = f4
    g = g
    a1 = a1
    b1 = b1
    a3 = a3
    c3 = c3
    a2 = a2
    b2 = b2
    b3 = b3
    MaxRound = 2
    Finalizers <- MCFinalizers
    Honest <- MCHonest
    Epochs <- MCEpochs
    Rounds <- MCRounds
    Quorums <- MCQuorums
    Blocks <- MCBlocks
    Genesis = g
    Round <- MCRound
    Epoch <- MCEpoch
    Parent <- MCParent
    Ancestors <- MCAncestors
SPECIFICATION Spec
SYMMETRY Symmetry
INVARIANTS
    CertifiedExtendsFinalized
    OneCertificatePerRound
    TimeoutCoversVotes
CHECK_DEADLOCK FALSE
