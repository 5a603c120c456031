SPECIFICATION Spec
CONSTANTS
    a = a
    b = b
    m = m
    o = o
    d1 = d1
    Holders = {b, m}
    Synthetic = {m}
    Kind <- MCKind
    Cwd <- MCCwd
    Dirs = {d1}
    Devices = {u1}
    Operator = Operator
    None = None
    Grace = 2
    MaxTime = 3
    MaxClaims = 2
INVARIANT Inv
PROPERTY HoldsAreNotTaken ClocksAreStopwatches ClaimsEndAfterGrace
CHECK_DEADLOCK FALSE
