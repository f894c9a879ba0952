\* Crashes and failing malloc() or fork() calls on top of the clock changes;
\* no wildcard entry, whose run counts only multiply the states.
CONSTANTS
    fixed = fixed
    wild = wild
    reboot = reboot
    Entries <- MCNoWild
    Wild <- MCNone
    Reboot <- MCReboot
    Due <- MCNoWildDue
    Unlucky <- MCUnlucky
    SmallMax = 2
    LargeMin = 3
    Horizon = 5
    MaxJumps = 2
    MaxCrashes = 1
SPECIFICATION LiveSpec
PROPERTIES ImplementsPromise CatchesUp
