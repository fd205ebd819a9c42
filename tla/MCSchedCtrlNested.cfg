CONSTANTS
    Outsiders = TRUE
    EarlyJobs = {}
    NsPerTick = 2
    SeqMod = 4
    MaxTime = 2
    MaxAdds = 3
    MaxDepth = 2
SPECIFICATION Spec
INVARIANTS AckStillComing
