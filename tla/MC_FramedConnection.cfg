CONSTANTS
    PAYLOAD_SIZE = 2
    NOISE_MAX_PAYLOAD_LEN = 2
    MAC_LENGTH = 1
    HandshakeLength = 2
    ReadSize = 4
    WriteSize = 3
    Capacity = 5
    Length <- MCLength
    Plan <- MCPlan
SPECIFICATION FairSpec
 
PROPERTIES ImplementsChannel EventuallyHandled
CHECK_DEADLOCK FALSE
