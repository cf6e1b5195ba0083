CONSTANTS
    Bees = {b1, b2}
    Calls = {c1, c2}
    Gas = {1}
    InitialNonces = {0, 1}
    Faults = {"sendError", "lostReply", "drop", "receiptError", "panic"}
    MaxOrders = 2
    MaxRestarts = 1
    Free = Free
    NullHash = NullHash
SYMMETRY Symmetry
SPECIFICATION Spec
INVARIANT TypeOK
INVARIANT Serialized
INVARIANT ChecksFollowSends
INVARIANT NoNonceReuse
INVARIANT ReportTruthful
INVARIANT NoDoubleBuy
INVARIANT SuccessesAreFills
PROPERTY StrandedUntilRestart
CHECK_DEADLOCK FALSE
