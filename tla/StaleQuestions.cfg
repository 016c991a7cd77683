SPECIFICATION SafeSpec
CONSTANTS
    NoConversation = NoConversation
    Views = {v1}
    Conversations = {c1}
    MaxRecordings = 2
    MaxAsks = 1
INVARIANT
    QuestionsMatchText
