CONSTANTS
    Stacks = {1, 2}
    Jobs = {j1, j2, j3}
    Requests = {"create", "resume", "restart", "disable"}
    Cap = 1
    LifecycleSlots = 1
    MaxStops = 1
    MaxCrashes = 1
    MaxStray = 1
    None = None
SPECIFICATION Spec
SYMMETRY JobSymmetry
INVARIANTS
    Inv
    OneWorkerPerStack
    OffStaysOff
    WithinCap
CHECK_DEADLOCK FALSE
