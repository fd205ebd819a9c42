CONSTANTS
    Content <- MCContent
    FirstFile = {"oneway", "prob", "moving"}
    PerFile = FALSE
    Addr = {"X", "Y"}
    Client = {c1}
    Snr = {12}
    CapturePath = {"p", "r"}
    Unwritable = {"r"}
    None = None
    RewrittenAs = {"unreadable", "badlink"}
    MaxTime = 2
    MaxMessages = 3
CHECK_DEADLOCK FALSE
SPECIFICATION Spec
INVARIANTS TablesInv LinksAsConfigured AddressesAsTold FaultsHaveCauses
PROPERTIES RejectedReloadChangesNothing
