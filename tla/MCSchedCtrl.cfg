\* the daemon would stop at a failed assertion
CONSTANTS
    Outsiders = FALSE
    EarlyJobs = {}
    NsPerTick = 2
    SeqMod = 3
    MaxTime = 3
    MaxAdds = 3
    MaxDepth = 2
SPECIFICATION FairSpec
INVARIANTS AcksInv NoAbort
PROPERTIES JobsRun
CHECK_DEADLOCK FALSE
