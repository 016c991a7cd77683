SPECIFICATION SafeSpec
CONSTANTS
    NoConversation = NoConversation
    Views = {v1}
    Conversations = {c1, c2}
    MaxRecordings = 1
    MaxAsks = 1
PROPERTY
    NewConversationIsShown
