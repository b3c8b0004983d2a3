SPECIFICATION Spec
CONSTANTS
    ProjectKeys = {music, youtube}
    OurKey = music
    Lengths <- MCLengths
    Assertions = TRUE
INVARIANTS KeyInv OpensOnlyWhatWasSealed WholeTextOpens
CHECK_DEADLOCK FALSE
