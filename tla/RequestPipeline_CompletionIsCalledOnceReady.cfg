SPECIFICATION FairSpec
CONSTANTS
    Sessions = {s1}
    NoSession = NoSession
    Registrations <- MCRegistered
    TokenReplies <- MCGoodReplies
    Expiry = FALSE
    MaxLaunches = 1
    MaxTokens = 3
PROPERTY CompletionIsCalledOnceReady
CHECK_DEADLOCK FALSE
