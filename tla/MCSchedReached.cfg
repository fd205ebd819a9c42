CONSTANTS
    a = a
    b = b
    c = c
    Job = {a, b, c}
    NoJob = NoJob
    Priority <- MCPriority
    MaxTime = 2
    MaxAdds = 4
SPECIFICATION Spec
PROPERTIES CalledWhenReached
