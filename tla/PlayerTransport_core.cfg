SPECIFICATION Spec
CONSTANTS
    Modules = {m1, m2}
    NoModule = NoModule
    NativeEnds <- MCNativeEnds
    MaxEnds = 2
INVARIANTS TransportInv ItemFollows InfoFollows EndAdvancesOnce
CHECK_DEADLOCK FALSE
