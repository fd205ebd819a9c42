CONSTANTS
    Job = {p, f, g}
    NoJob = NoJob
    Priority <- MCPriority
    MaxTime = 13
    MaxAdds = 99
    Periodic = p
    Period = 3
    Horizon = 3
    MaxNow = 7
    MaxFrames = 3
CHECK_DEADLOCK FALSE
SPECIFICATION FairWSpec
INVARIANTS ClockInv NoAbort
PROPERTIES ImplementsSched JobsLeave
