\* The record may be missing.
CONSTANTS
    k1 = k1
    k2 = k2
    p1 = p1
    p2 = p2
    h1 = h1
    h2 = h2
    Tunnels = {k1, k2}
    Pids = {p1, p2}
    Handlers = {h1}
    Ctx = Ctx
    NoTunnel = NoTunnel
    NoPid = NoPid
    NoOne = NoOne
    RecordGaps = TRUE
SPECIFICATION Spec
INVARIANTS
    OneTunnel
CHECK_DEADLOCK TRUE
