CONSTANTS
    Ids = {i1}
    Bodies = {x, y}
    Owners = {o1}
    None = None
    MaxPending = 2
    MaxConns = 2
    MaxDispatches = 2
    MaxSequence = 1
SPECIFICATION FairSpec
INVARIANTS Inv AnswersAreTrue
PROPERTIES RunsOnce SnapshotsAreShown ActionsUnblock
CHECK_DEADLOCK FALSE
