\* the run ends with the device
CONSTANTS
    MaxQueues = 2
    InputQueues = {0}
    ReplyAck = TRUE
    AnyTime = FALSE
    KickFds = TRUE
    Num <- MCNumSmall
    IdxMod = 2
    MaxDepth = 2
SPECIFICATION Spec
INVARIANTS JobAddedOnce
CHECK_DEADLOCK FALSE
