CONSTANTS
    Bees = {b1, b2}
    Calls = {c1, c2}
    Gas = {1}
    InitialNonces = {1}
    Faults = {"pollError"}
    MaxOrders = 1
    MaxRestarts = 0
    Free = Free
    NullHash = NullHash
SYMMETRY Symmetry
SPECIFICATION Spec
INVARIANT GivesUpAfterWaitTime
CHECK_DEADLOCK FALSE
