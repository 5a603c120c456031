CONSTANTS
    Apps = {a1}
    Udids = {u1}
    Ports = {p1}
    LaneIds = {l1}
    Pids = {n1, n2, n3}
    Stoppers = {s1}
    Watchers = {w1}
    None = None
    MetroCrash = TRUE
    TurnsOff = TRUE
SPECIFICATION FairSpec
PROPERTY EveryTaskEnds
