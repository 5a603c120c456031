CONSTANTS
    s1 = s1
    s2 = s2
    Simulators = {s1, s2}
    Jobs = {j1, j2}
    Requests = {"apply"}
    Batches <- Along
    Cancellable = {}
    Visited = {s1}
    Refresh = Refresh
    Guest = Guest
    MaxCrashes = 0
    MaxFailures = 0
    None = None
SPECIFICATION FairSpec
INVARIANT Inv
PROPERTY ComesToRest
CHECK_DEADLOCK FALSE
