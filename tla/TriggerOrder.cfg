CONSTANTS
    Tokens = {1, 2, 3}
    WBNB = 2
    Admins = {"owner"}
    Wrappers = {2}
    Routers = {"router"}
    Factories = {"amm"}
    Sizes = {10}
    Minimums = {5}
    Listed <- CoinDollar
    Depths = {10, 30}
    MaxOrders = 2
    MaxTrades = 1
    MaxSent = 2
    PairFee = 25
    Taxed = {}
SPECIFICATION Spec
INVARIANT QuotesAreAccepted
PROPERTY ImplementsOrder
PROPERTY BuysAtLeastMinimum
CHECK_DEADLOCK FALSE
