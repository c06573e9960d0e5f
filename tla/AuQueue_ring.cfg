SPECIFICATION FairSpec
CONSTANTS
    SlotCount = 3
    MaxAU = 6
    MaxBurst = 2
    MaxSpurious = 1
    Idr <- MCIdr
    Withhold = TRUE
    Large <- MCLarge
INVARIANTS
    TypeOK
    SlotStable
    ReadyTextureWhole
PROPERTIES
    DisplayAdvances
    ImplementsFifo
    EveryAUServed
    FeedReturns
