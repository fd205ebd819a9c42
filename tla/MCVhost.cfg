\* the run ends with the device
CONSTANTS
    MaxQueues = 2
    InputQueues = {0}
    ReplyAck = TRUE
    AnyTime = FALSE
    KickFds = FALSE
    Num <- MCNum
    IdxMod = 4
    MaxDepth = 2
SPECIFICATION Spec
INVARIANTS BuffersConserved KicksInv RepliesCounted
CHECK_DEADLOCK FALSE
