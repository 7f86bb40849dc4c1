SPECIFICATION Spec
CONSTANTS
    num_tracefiles = 2
    Utils = {50, 95}
    MaxErrors = 2
INVARIANT TimeoutHandled
CHECK_DEADLOCK FALSE
