SPECIFICATION Spec
CONSTANTS
    W = 8
    Sampled = {0}
INVARIANT SatMul2Examples
CHECK_DEADLOCK FALSE
