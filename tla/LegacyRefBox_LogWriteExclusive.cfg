CONSTANTS
    MpsCount = 2
    MaxMsg = 2
    MaxFlip = 3
SPECIFICATION Spec
INVARIANT LogWriteExclusive
CHECK_DEADLOCK FALSE
