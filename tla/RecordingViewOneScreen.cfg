SPECIFICATION Spec
CONSTANTS
    NoConversation = NoConversation
    Views = {v1}
    Conversations = {c1, c2}
    MaxRecordings = 3
    MaxAsks = 1
INVARIANTS
    TitleOfLastNote
PROPERTIES
    AddingKeepsNotes
    TranscribedEnds
    ImplementsVoiceNotes
