CONSTANTS
    Outsiders = FALSE
    EarlyJobs = {1}
    NsPerTick = 2
    SeqMod = 4
    MaxTime = 2
    MaxAdds = 3
    MaxDepth = 2
SPECIFICATION Spec
INVARIANTS NoAbort
