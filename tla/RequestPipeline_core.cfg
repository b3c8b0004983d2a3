SPECIFICATION FairSpec
CONSTANTS
    Sessions = {s1, s2}
    NoSession = NoSession
    Registrations <- MCAllEnds
    TokenReplies <- MCAllReplies
    Expiry = TRUE
    MaxLaunches = 2
    MaxTokens = 4
INVARIANTS PipelineInv SentComplete NobodyForgotten
PROPERTIES KeepsPromise AnswersComeBack
CHECK_DEADLOCK FALSE
