\* An installation takes three stamps: two overlap, or follow each other.
CONSTANTS
    Users = {u1}
    Procs = {p1, p2}
    Flaky = {p2}
    SameSecond = FALSE
    MaxVersion = 2
    MaxTime = 7
    NoPasswd = {}
    Unfit = {}
    Sys = Sys
    MayFail = {}
SPECIFICATION FairSpoolSpec
INVARIANTS TypeOK SpoolAlwaysValid EditNeverDropped EarlyReturnSound
PROPERTY EventuallyLoaded
