CONSTANTS
    Job = {p, f, g}
    NoJob = NoJob
    Priority <- MCPriority
    MaxTime = 16
    MaxAdds = 99
    Periodic = p
    Period = 3
    Horizon = 6
    MaxNow = 7
    MaxFrames = 3
CHECK_DEADLOCK FALSE
SPECIFICATION WSpec
INVARIANTS NoAbort
