SPECIFICATION FairSpec
CONSTANTS
    TouchStages <- LateTouches
    Pads <- MCPads
    Touches <- MCTouches
    MaxQueue = 2
    MaxRounds = 2000
INVARIANTS
    TypeOK
    StagesAgree
    HealthySessionsWork
    CreditConserved
    AcksNameSession
    DoneIsComplete
    HarnessSucceeds
    HeldIsSeen
PROPERTIES
    Completes
    GesturesLegal
