CONSTANTS
    Content <- MCContent
    FirstFile = {"moving"}
    PerFile = FALSE
    Addr = {"X", "Y"}
    Client = {c1}
    Snr = {12}
    CapturePath = {"p", "r"}
    Unwritable = {}
    None = None
    RewrittenAs = {}
    MaxTime = 2
    MaxMessages = 3
CHECK_DEADLOCK FALSE
SPECIFICATION Spec
INVARIANTS SurvivesReload
