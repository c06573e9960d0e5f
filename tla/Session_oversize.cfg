SPECIFICATION Spec
CONSTANTS
    video = video
    audio = audio
    Channel <- MCChannel
    Lens = {1, 3}
    MaxPayload = 2
    HeaderLen = 1
    Slacks = {2}
    Overhead = 2
    MaxMsgs = 1
INVARIANT HealthySendSucceeds
