CONSTANTS
    s1 = s1
    s2 = s2
    r1 = r1
    r2 = r2
    Runs = {r1, r2}
    Simulators = {s1, s2}
    Plan <- TwoRuns
    MaxActive = 2
    Guest = Guest
    Visited = {}
    Doubled = {s2}
    MaxFaults = 1
    MaxRestarts = 0
    MaxTroubles = 1
    None = None
SPECIFICATION Spec
INVARIANTS
    Inv
    SlimmingIsSerial
    TeardownAlways
    CompleteIsComplete
    ClaimsFollowRuns
    QuitLeavesTeardown
CHECK_DEADLOCK FALSE
