CONSTANTS
    MpsCount = 2
    MaxMsg = 2
    MaxFlip = 3
SPECIFICATION Spec
INVARIANT NoNullSpsCall
CHECK_DEADLOCK FALSE
