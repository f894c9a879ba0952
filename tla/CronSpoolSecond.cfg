CONSTANTS
    Users = {u1}
    Procs = {p1}
    Flaky = {}
    SameSecond = TRUE
    MaxVersion = 2
    MaxTime = 6
    NoPasswd = {}
    Unfit = {}
    Sys = Sys
    MayFail = {}
SPECIFICATION SpoolSpec
INVARIANT EarlyReturnSound
