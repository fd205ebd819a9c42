CONSTANTS
    a = a
    b = b
    c = c
    Job = {a, b, c}
    NoJob = NoJob
    Priority <- MCPriority
    MaxTime = 2
    MaxAdds = 4
SPECIFICATION FairSpec
INVARIANTS TypeOK JoblistOrdered WakeupPending
PROPERTIES QueuedJobLeaves CallsInOrder FifoAmongEquals
