\* The last step of a Close comes after the successor has bound.
CONSTANTS
    s1 = s1
    s2 = s2
    s3 = s3
    Servers = {s1, s2, s3}
    NoOne = NoOne
SPECIFICATION Spec
INVARIANTS
    ServingIsReachable
CHECK_DEADLOCK TRUE
