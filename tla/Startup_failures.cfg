SPECIFICATION FairSpec
CHECK_DEADLOCK FALSE
CONSTANTS
    LastHost = 4
    MaxAddrs = 2
INVARIANTS
    TypeOK
    ReleasedOnce
    FallbackIsLast
    PipelineComplete
PROPERTY StartupEnds
