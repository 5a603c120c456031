SPECIFICATION UnattendedSpec
CONSTANTS
    a = a
    b = b
    m = m
    o = o
    d1 = d1
    Holders = {a, b, m}
    Synthetic = {m}
    Kind <- MCKind
    Cwd <- MCCwd
    Dirs = {d1}
    Devices = {u1}
    Operator = Operator
    None = None
    Grace = 1
    MaxTime = 2
    MaxClaims = 3
PROPERTY ClaimsAreExclusive
CHECK_DEADLOCK FALSE
