CONSTANTS
    NumStas = 4
    Frames <- MCFrames
    Link <- MCLink
    ErrorProb <- MCErrorProb
    PerFiles <- MCPerFiles
    Modes = {"snr", "prob", "per"}
    Interference = TRUE
    Fading = {0}
    One = 2
    MaxFrames = 3
CHECK_DEADLOCK FALSE
SPECIFICATION Spec
INVARIANTS ReportInv OutcomeInv PerFileFaithful InterferenceTakesTwo
