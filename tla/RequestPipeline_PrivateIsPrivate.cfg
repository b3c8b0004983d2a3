SPECIFICATION Spec
CONSTANTS
    Sessions = {s1}
    NoSession = NoSession
    Registrations <- MCAllEnds
    TokenReplies <- MCGoodReplies
    Expiry = FALSE
    MaxLaunches = 2
    MaxTokens = 3
INVARIANT PrivateIsPrivate
CHECK_DEADLOCK FALSE
