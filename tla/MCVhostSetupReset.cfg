CONSTANTS
    Queue = {0, 1}
    InputQueues = {0}
    KickFds = {0}
    CallFds = {1}
    MaxFd = 7
    MaxRegions = 2
    Tables <- MCTables
    Chains <- MCChains
    Bases = {11}
    Lengths = {2, 3}
    ReadMax = 3
    Prealloc = 2
    ApiSocket = TRUE
    Quiesces = FALSE
    Withdraws = FALSE
    Answers = TRUE
    Features <- MCFeatures
    Schedulers = {TRUE, FALSE}
    MaxMsgs = 7
CHECK_DEADLOCK FALSE
SPECIFICATION Spec
INVARIANTS NoFault
