SPECIFICATION MCSpec
CONSTANTS
    Hashes = {"h1"}
    Blocks = {"b1", "b2", "b3", "b4"}
    Content <- TwoAdditions
    Workers = {w1, w2}
    Modes = {"pending_txs", "new_blocks"}
    MaxRetries = 1
    Panics = TRUE
    MaxLosses = 0
    Bees = {a1}
    Gas = {1}
    InitialNonces = {1}
    Faults = {"sendError", "lostReply", "pollError", "receiptError", "panic"}
    MaxOrders = 1
    MaxRestarts = 0
    Free = Free
    NullHash = NullHash
ACTION_CONSTRAINTS
    InOrder
    EmptyBehind
    OthersAreFound
    OrderFirst
INVARIANTS
    CallsAreWaitedFor
    EndCutsNoWorkerShort
PROPERTIES
    OnlyLossDesyncs
    EverythingSettles
    StopsEverything
CHECK_DEADLOCK FALSE
