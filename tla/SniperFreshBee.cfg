CONSTANTS
    Bees = {b1, b2}
    Calls = {c1, c2}
    Gas = {1}
    InitialNonces = {0, 1}
    Faults = {}
    MaxOrders = 1
    MaxRestarts = 0
    Free = Free
    NullHash = NullHash
SYMMETRY Symmetry
SPECIFICATION Spec
INVARIANT PooledIsExecutable
CHECK_DEADLOCK FALSE
