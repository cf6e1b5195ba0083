CONSTANTS
    Txs <- BlockTxs
    Providers = {"dev", "bot"}
    Target = "target"
    Paired = "coin"
    Wrapped = "coin"
    MinLiq = 5
    Modes = {"new_blocks"}
    StartBalances = {0, 4, 8}
    Grant = 4
    Percent = 125
SPECIFICATION Spec
INVARIANT ScanFindsAddition
CHECK_DEADLOCK FALSE
