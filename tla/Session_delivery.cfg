SPECIFICATION FairSpec
CONSTANTS
    video = video
    audio = audio
    Channel <- MCChannel
    Lens = {1, 2, 3, 5}
    MaxPayload = 2
    HeaderLen = 1
    Slacks = {2, 4}
    Overhead = 2
    MaxMsgs = 2
INVARIANTS
    TypeOK
    FailsOnlyForCause
PROPERTIES
    ImplementsChannel
    EveryMessageArrives
