CONSTANTS
    MpsCount = 2
    MaxMsg = 2
    MaxFlip = 3
SPECIFICATION Spec
INVARIANT AbortStopsServer
CHECK_DEADLOCK FALSE
