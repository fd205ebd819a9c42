\* the run ends with the device
CONSTANTS
    MaxQueues = 2
    InputQueues = {0}
    ReplyAck = TRUE
    AnyTime = FALSE
    KickFds = FALSE
    Num <- MCNumSmall
    IdxMod = 2
    MaxDepth = 2
SPECIFICATION FairSpec
PROPERTIES BufferReturned
CHECK_DEADLOCK FALSE
