\* the run ends with the device
CONSTANTS
    MaxQueues = 2
    InputQueues = {0}
    ReplyAck = TRUE
    AnyTime = TRUE
    KickFds = FALSE
    Num <- MCNumSmall
    IdxMod = 2
    MaxDepth = 2
SPECIFICATION Spec
INVARIANTS DeviceStays
CHECK_DEADLOCK FALSE
