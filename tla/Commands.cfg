\* Grace is scaled from 5 seconds; a pipe of one unit blocks its writer after
\* every write.
CONSTANTS
    Names = {"a", "b"}
    Paths <- MCPaths
    Grace = 1
    MaxStarts = 3
    MaxSignals = 2
    MaxNoise = 1
    Intervals = {0, 1}
    MaxInterrupts = 1
    MaxStops = 1
    Capacity = 1
    MaxInput = 2
    MaxOutput = 3
SPECIFICATION AllSpec
CHECK_DEADLOCK FALSE
INVARIANTS AllTypeOK AwaitSound OneCommand AtMostOneMore PidFileHeld
INVARIANTS StatusRight GraceOfTimer AllChildrenReaped OutputMailed
PROPERTIES RestartsSpaced TermHeeded AwaitEnds TimesOut JobEnds
