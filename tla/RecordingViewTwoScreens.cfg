SPECIFICATION ScreensSpec
CONSTANTS
    NoConversation = NoConversation
    Views = {v1, v2}
    Conversations = {c1, c2}
    MaxRecordings = 2
    MaxAsks = 1
SYMMETRY Symmetry
INVARIANTS
    TypeOK
    MessagesConsistent
    SavedOnce
    ProcessingHasPending
    MicrophoneHeldByAnswer
    NoPlaybackOverRecording
PROPERTIES
    HiddenByLateCall
