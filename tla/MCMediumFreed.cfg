CONSTANTS
    Station = {s1, s2}
    Client = {c1, c2}
    None = None
    AC = {0, 1}
    Duration = {0, 2}
    CanNotify = TRUE
    AnyTime = TRUE
    MaxTime = 4
    MaxFrames = 3
SYMMETRY Symmetry
SPECIFICATION Spec
INVARIANTS JobsOfLiveFrames
