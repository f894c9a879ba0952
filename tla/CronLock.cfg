\* Every role may be signalled.  Two files: one is unlinked while a start
\* has it open, and the name then stands for the other.
CONSTANTS
    Daemons = {a, b}
    Files = {f1, f2}
    NoFile = NoFile
    Nobody = Nobody
    Signalled = {"parent", "daemon", "job"}
SPECIFICATION FairSpec
CHECK_DEADLOCK FALSE
INVARIANTS DaemonHoldsLock
PROPERTY LockGivenUp
