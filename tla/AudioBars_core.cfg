SPECIFICATION FairSpec
CONSTANTS
    Loudness <- MCLoudness
    Limits <- MCLimits
    MaxSpeed = 6
    HalfG = 1
    TimeMin = 1
    TimeMax = 2
    Depth = 1
INVARIANTS BarInv
PROPERTIES OnlySoundRaises BarsGoDown 
