SPECIFICATION Spec
CONSTANTS
    Capacity = 4
    Lengths <- MCLengths
    Rates <- MCRates
    SessionRate = 8
    MinFrequency = 1
    MaxFrequency = 3
    NumOfBins = 2
    MaxSample = 11
INVARIANTS WindowInv WindowInOrder HolesAreMissed BandIsHeard
