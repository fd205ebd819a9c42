CONSTANTS
    Station = {s1, s2}
    Client = {c1}
    None = None
    AC = {0, 1}
    Duration = {0, 1}
    CanNotify = TRUE
    AnyTime = FALSE
    MaxTime = 3
    MaxFrames = 3
CHECK_DEADLOCK FALSE
SPECIFICATION FairSpec
INVARIANTS TypeOK NoOverlap QueuedFramesOwned JobsOfLiveFrames
PROPERTIES DeliversInOrder ImplementsAirtime FrameLeaves
