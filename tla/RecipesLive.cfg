CONSTANTS
    s1 = s1
    s2 = s2
    r1 = r1
    r2 = r2
    Runs = {r1}
    Simulators = {s1, s2}
    Plan <- Alone
    MaxActive = 1
    Guest = Guest
    Visited = {s1}
    Doubled = {s1, s2}
    MaxFaults = 1
    MaxRestarts = 1
    MaxTroubles = 1
    None = None
SPECIFICATION FairSpec
PROPERTY EveryRunEnds
CHECK_DEADLOCK FALSE
