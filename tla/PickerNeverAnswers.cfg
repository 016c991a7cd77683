SPECIFICATION SafeSpec
CONSTANTS
    NoService = NoService
    NoCall = NoCall
    Services = {s1}
    Calls = {k1}
    WindowFound = {TRUE}
    DelegateKept = {FALSE}
    MaxCancels = 1
CHECK_DEADLOCK FALSE
INVARIANT TranscriptionIsHeld
