SPECIFICATION FairSpec
CONSTANTS
    TouchStages <- AllTouches
    Pads <- MCPads
    Touches <- MCTouches
    MaxQueue = 1
    MaxRounds = 2000
PROPERTY
    ReachesActive
