CONSTANTS
    Size = {"small", "large"}
    Need <- MCNeed
    Stream <- MCStream
    Delay = 2
    MaxLosses = 2
    MaxTimeouts = 1
SPECIFICATION Spec
CHECK_DEADLOCK FALSE
INVARIANTS
    FramesOutliveUsers
    PicturesAccountedFor
