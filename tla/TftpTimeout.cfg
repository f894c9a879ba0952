\* SEGSIZE scaled from 512, Word from 65536; the longest file has as many
\* blocks as there are block numbers.
CONSTANTS
    Files <- MCFiles
    SEGSIZE = 2
    Word = 3
    Tries = 2
    MaxServers = 1
    MaxNet = 2
    MaxQueue = 1
    MaxResend = 0
SPECIFICATION FairSpec
CHECK_DEADLOCK FALSE
PROPERTY TotalTimeout
