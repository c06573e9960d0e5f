SPECIFICATION FairSpec
CHECK_DEADLOCK FALSE
CONSTANTS
    Shapes <- MCShapes
    Lens = {0, 5, 11}
    MaxPayload = 5
    MaxRecord = 5
    Slacks = {8, 12}
    Radix = 5
    MaxMsgs = 2
INVARIANTS
    TypeOK
    FailsOnlyForGap
    RecordPerFrame
PROPERTIES
    ImplementsChannel
    EveryMessageArrives
