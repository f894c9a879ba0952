\* SEGSIZE scaled from 512, Word from 65536; the longest file has as many
\* blocks as there are block numbers.
CONSTANTS
    Files <- MCFiles
    SEGSIZE = 2
    Word = 3
    Tries = 2
    MaxServers = 2
    MaxNet = 3
    MaxQueue = 3
    MaxResend = 1
SPECIFICATION Spec
CHECK_DEADLOCK FALSE
INVARIANTS TypeOK SentWhole BlockStable WrittenRight
