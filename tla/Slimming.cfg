CONSTANTS
    s1 = s1
    s2 = s2
    Simulators = {s1}
    Jobs = {j1, j2, j3}
    Requests = {"apply", "undo", "forget"}
    Batches <- Alone
    Cancellable = {j3}
    Visited = {}
    Refresh = Refresh
    Guest = Guest
    MaxCrashes = 1
    MaxFailures = 1
    None = None
SPECIFICATION Spec
SYMMETRY JobSymmetry
INVARIANTS
    Inv
    NoChangeForgotten
    EveryChangeIsJournaled
    RestorePointsAreWhole
    ReconcilerIsAlone
PROPERTY PromotedOnlyWhenDone
CHECK_DEADLOCK FALSE
