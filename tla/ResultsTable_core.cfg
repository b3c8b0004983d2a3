SPECIFICATION FairSpec
CONSTANTS
    Queries = {q1, q2}
    Sizes <- MCSizes
    MaxOps = 4
INVARIANTS TableInv ShowsWhatIsWanted TableAgrees UpdatesValid RowsThere MarkedIsPlaying
PROPERTY EventuallyAgrees
CHECK_DEADLOCK FALSE
