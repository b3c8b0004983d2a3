SPECIFICATION FairPlayerSpec
CONSTANTS
    Playlists = {p}
    NoList = NoList
    NoModule = NoModule
    BatchSizes <- MCBatchSizes
    AbsoluteReplies = FALSE
    Threshold = 4
    Word = 16
    MaxOps = 3
    NativeEnds <- MCNativeEnds
    MaxEnds = 1
    MaxTouches = 1
PROPERTIES MusicGoesOn HeardInOrder
CHECK_DEADLOCK FALSE
