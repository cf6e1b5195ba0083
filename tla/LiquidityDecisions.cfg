CONSTANTS
    Txs <- FourKinds
    Providers = {"dev", "bot"}
    Target = "target"
    Paired = "coin"
    Wrapped = "coin"
    MinLiq = 5
    Modes = {"pending_txs", "new_blocks"}
    StartBalances = {4, 8}
    Grant = 4
    Percent = 125
SPECIFICATION Spec
INVARIANT TypeOK
INVARIANT SnipesTheRightPair
INVARIANT TimelySnipe
INVARIANT KeepsPriority
CHECK_DEADLOCK FALSE
