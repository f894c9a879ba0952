CONSTANTS
    Daemons = {a, b, c}
    Files = {f1, f2}
    NoFile = NoFile
    Nobody = Nobody
    Signalled = {"daemon"}
SPECIFICATION Spec
CHECK_DEADLOCK FALSE
INVARIANT AtMostOneDaemon
