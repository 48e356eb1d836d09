CONSTANTS
    AsyncDepth = 2
    NoUnit = NoUnit
    Pictures = 4
    VppDelay = 1
    EncDelay = 1
    MaxLosses = 2
SPECIFICATION Spec
CHECK_DEADLOCK FALSE
INVARIANTS
    RingInv
    PicturesAccountedFor
PROPERTY
    ImplementsTaskQueue
