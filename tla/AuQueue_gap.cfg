SPECIFICATION Spec
CONSTANTS
    SlotCount = 2
    MaxAU = 4
    MaxBurst = 2
    MaxSpurious = 0
    Idr <- MCIdr
    Withhold = FALSE
    Large = {}
INVARIANT DecodeStreamUncorrupted
