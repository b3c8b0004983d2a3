SPECIFICATION FairSpec
CONSTANTS
    Playlists = {p, q}
    NoList = NoList
    BatchSizes <- MCBatchSizes
    AbsoluteReplies = TRUE
    Threshold = 3
    Word = 16
    MaxOps = 2
INVARIANTS QueueInv RangeSafe RequestsStarted ListFaithful SettledOnTarget
PROPERTIES EventuallyOnTarget PlaysOnlyIntended
CHECK_DEADLOCK FALSE
