SPECIFICATION Spec
CONSTANTS
    Calls <- Recordings
    Second = 2
    ShortTail = 3
    Chunk = 6
    TextCtx = 14
    Temperatures <- LowAndHigh
    BestOf = 2
    MaxInitialTs = 1
    LongResult = 2
INVARIANTS
    TypeOK
    PositionsFit
    TimestampsIncrease
    AgainOnlyIfGivenUp
    LossIsShort
    FreedTwiceAfterFallback
PROPERTIES
    WindowMoves
    LessIsLeft
    Returns
