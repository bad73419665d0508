\* Three processes on one path: one on its way out, one that takes over, one that waits.
CONSTANTS
    s1 = s1
    s2 = s2
    s3 = s3
    Servers = {s1, s2, s3}
    NoOne = NoOne
SPECIFICATION Spec
INVARIANTS
    IInv
    OneServer
    DialReachesHolder
    BindFindsPathFree
CHECK_DEADLOCK TRUE
