CONSTANTS
    Hashes = {"h1", "h2"}
    Blocks = {"b1", "b2"}
    Content <- Chain
    Workers = {w1, w2}
    Modes = {"pending_txs", "new_blocks"}
    MaxRetries = 2
    Panics = TRUE
    MaxLosses = 1
    N = 3
    Word = 4
    Earlier = {2}
    NoNumber = NoNumber
SPECIFICATION CFairSpec
INVARIANT TypeOK
INVARIANT NoWorkerLeaks
INVARIANT LookupsAreBounded
INVARIANT NothingSkipped
INVARIANT StickyDelegate
INVARIANT Balanced
PROPERTY StopsEverything
PROPERTY EventsSettle
CHECK_DEADLOCK FALSE
