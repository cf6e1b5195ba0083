SPECIFICATION FairSpec
CONSTANTS
    Entries = {"e1", "e2", "e3"}
    Value <- Values
    Sender <- Senders
    Watched = {"team"}
    Thresholds <- Minimums
    workers = 2
    None = None
    Free = Free
    Flusher = Flusher
    Unsigned = Unsigned
    NoThreshold = NoThreshold
INVARIANTS
    TypeOK
    LossNeedsPanics
    LogsWhatIsWanted
PROPERTIES
    KeepsPromise
    CallsReturn
CHECK_DEADLOCK FALSE
