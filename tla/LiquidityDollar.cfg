CONSTANTS
    Txs <- DollarOrder
    Providers = {"dev", "bot"}
    Target = "target"
    Paired = "dollar"
    Wrapped = "coin"
    MinLiq = 5
    Modes = {"pending_txs"}
    StartBalances = {0, 4, 8}
    Grant = 4
    Percent = 125
SPECIFICATION Spec
INVARIANT SnipesTheRightPair
CHECK_DEADLOCK FALSE
