CONSTANTS
    k = k
    Api = {a, b}
    Vhost = {v}
    Kernel <- NoKernel
    Station = {s1, s2}
    None = None
    End = End
    Stray = Stray
    Departures = "any"
    Ctrl = {FALSE}
    Flags <- BothFlags
    MaxFrames = 1
    MaxDepth = 1
SYMMETRY Symmetry
CHECK_DEADLOCK FALSE
SPECIFICATION Spec
INVARIANTS WalkStaysOnList
