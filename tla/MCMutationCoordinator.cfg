CONSTANTS
    Calls = {c1, c2, c3, c4}
    Udids = {u1, u2}
    None = None
SPECIFICATION FairSpec
INVARIANTS Inv MutationsExclusive
PROPERTIES ImplementsLease EveryWaitEnds EveryTailSettles
