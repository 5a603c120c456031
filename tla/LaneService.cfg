CONSTANTS
    Apps = {a1, a2}
    Udids = {u1, u2}
    Ports = {p1, p2}
    LaneIds = {l1, l2}
    Pids = {n1, n2}
    Stoppers = {s1, s2}
    Watchers = {w1}
    None = None
    MetroCrash = TRUE
    TurnsOff = FALSE
SYMMETRY Symmetric
SPECIFICATION Spec
INVARIANTS Inv DeviceExclusive NoOrphan PortClaimsExclusive
PROPERTY StoppedStays
