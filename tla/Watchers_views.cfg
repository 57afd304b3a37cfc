CONSTANTS
    w1 = w1
    w2 = w2
    Existing = {1}
    Aborted = {w2}
    Clients = {w1, w2}
    Names = {1, 2}
    MAX_BUF = 1
    Masks <- MCMasks
    MaxChanges = 2
SPECIFICATION Spec
INVARIANTS ViewIsConsistent KeysAreOwn
PROPERTIES ClosedIsRemoved ViewConverges
CHECK_DEADLOCK FALSE
