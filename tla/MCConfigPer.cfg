CONSTANTS
    Content <- MCContent
    FirstFile = {"oneway"}
    PerFile = TRUE
    Addr = {"X", "Y"}
    Client = {c1}
    Snr = {12}
    CapturePath = {"p", "r"}
    Unwritable = {"r"}
    None = None
    RewrittenAs = {}
    MaxTime = 2
    MaxMessages = 3
CHECK_DEADLOCK FALSE
SPECIFICATION Spec
INVARIANTS PerFileKept
