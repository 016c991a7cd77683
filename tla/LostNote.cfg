SPECIFICATION SafeSpec
CONSTANTS
    NoConversation = NoConversation
    Views = {v1, v2}
    Conversations = {c1}
    MaxRecordings = 2
    MaxAsks = 1
PROPERTY
    AddingKeepsNotes
