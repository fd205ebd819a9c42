CONSTANTS
    Job = {p, f, g}
    NoJob = NoJob
    Priority <- MCPriority
    MaxTime = 11
    MaxAdds = 99
    Periodic = p
    Period = 3
    Horizon = 3
    MaxNow = 5
    MaxFrames = 3
CHECK_DEADLOCK FALSE
SPECIFICATION KickSpec
INVARIANTS NotAheadOfClock
