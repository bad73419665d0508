\* Two connections, crashes and restarts, PIDs used again; the record is reliable.
CONSTANTS
    k1 = k1
    k2 = k2
    p1 = p1
    p2 = p2
    h1 = h1
    h2 = h2
    Tunnels = {k1, k2}
    Pids = {p1, p2}
    Handlers = {h1, h2}
    Ctx = Ctx
    NoTunnel = NoTunnel
    NoPid = NoPid
    NoOne = NoOne
    RecordGaps = FALSE
SPECIFICATION FairSpec
INVARIANTS
    TypeOK
    OneTunnel
    RecordCoversTunnel
    SupervisedIsCurrent
    ReportMatchesChild
PROPERTIES
    ImplementsService
    TeardownFreesSlot
CHECK_DEADLOCK TRUE
