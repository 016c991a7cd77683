SPECIFICATION Spec
CONSTANTS
    NoService = NoService
    NoCall = NoCall
    Services = {s1, s2}
    Calls = {k1, k2}
    WindowFound = {TRUE, FALSE}
    DelegateKept = {TRUE, FALSE}
    MaxCancels = 1
CHECK_DEADLOCK FALSE
INVARIANTS
    TypeOK
    ResumedOnce
PROPERTIES
    LackNeedsOverlap
    ForgottenAtTwoPlaces
    DownloadingEnds
    DownloadAnswers
