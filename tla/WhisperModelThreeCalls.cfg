SPECIFICATION SafeSpec
CONSTANTS
    NoService = NoService
    NoCall = NoCall
    Services = {s1}
    Calls = {k1, k2, k3}
    WindowFound = {TRUE}
    DelegateKept = {TRUE}
    MaxCancels = 1
CHECK_DEADLOCK FALSE
SYMMETRY Symmetry
INVARIANTS
    WaitingIsHeld
    DownloadingIsLive
