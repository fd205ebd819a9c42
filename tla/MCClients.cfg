CONSTANTS
    k = k
    Api = {a}
    Vhost = {v, w}
    Kernel <- WithKernel
    Station = {s1, s2}
    None = None
    End = End
    Stray = Stray
    Departures = "safe"
    Ctrl = {TRUE, FALSE}
    Flags <- BothFlags
    MaxFrames = 1
    MaxDepth = 1
SPECIFICATION FairSpec
INVARIANTS ClonesExact
PROPERTIES CallbackReturns
