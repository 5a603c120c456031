CONSTANTS
    Stacks = {1, 2}
    Jobs = {j1, j2}
    Requests = {"create", "resume", "recreate", "restart", "stop", "due", "destroy", "disable", "hold"}
    Cap = 1
    LifecycleSlots = 1
    MaxStops = 1
    MaxCrashes = 0
    MaxStray = 1
    None = None
SPECIFICATION FairSpec
PROPERTIES EveryJobEnds
CHECK_DEADLOCK FALSE
