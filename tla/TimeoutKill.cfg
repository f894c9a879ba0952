CONSTANTS
    Intervals = {0, 2}
    MaxSignals = 1
    MaxStops = 0
SPECIFICATION Spec
CHECK_DEADLOCK FALSE
INVARIANT GraceKept
