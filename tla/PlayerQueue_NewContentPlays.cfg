SPECIFICATION Spec
CONSTANTS
    Playlists = {p, q}
    NoList = NoList
    BatchSizes <- MCLongBatch
    AbsoluteReplies = FALSE
    Threshold = 3
    Word = 16
    MaxOps = 2
CHECK_DEADLOCK FALSE
INVARIANT NewContentPlays
