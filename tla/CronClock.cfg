\* SmallMax and LargeMin scaled from 5 and 180 minutes; Horizon exceeds
\* LargeMin so that all four kinds of clock change fit both ways.
\* A minute of 4 seconds; the limit leaves the same kind of margin as 65.
CONSTANTS
    fixed = fixed
    wild = wild
    reboot = reboot
    Entries <- MCEntries
    Wild <- MCWild
    Reboot <- MCReboot
    Due <- MCDue
    Unlucky <- MCNone
    SmallMax = 2
    LargeMin = 4
    Horizon = 6
    MaxJumps = 2
    MaxCrashes = 0
    SecondsPerMinute = 4
    Limit = 7
    Seconds = 11
    MaxSets = 2
    MaxLate = 2
    MaxChildren = 2
SPECIFICATION AllSpec
INVARIANTS TypeOK FixedJobsOnce WildcardJobsServed
INVARIANTS SleepTypeOK NoZombieForgotten NoBusyWait WakesOnTime
PROPERTIES VirtualTimeSteps
