SPECIFICATION Spec
CONSTANTS
    Lengths <- MCLengths
    MaxReplies = 3
    MaxLaunches = 3
INVARIANTS HeaderHasType TokenReadsBack
CHECK_DEADLOCK FALSE
