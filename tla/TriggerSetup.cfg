CONSTANTS
    Tokens = {1, 2}
    WBNB = 2
    Admins = {"owner", "heir"}
    Wrappers = {1, 2}
    Routers = {"unset", "router"}
    Factories = {"amm", "other"}
    Sizes = {3}
    Minimums = {1}
    Listed = {}
    Depths = {30}
    MaxOrders = 2
    MaxTrades = 0
    MaxSent = 2
    PairFee = 25
    Taxed = {1}
    Purses = {6}
    Fee = 1
    Dust = 1
SPECIFICATION SSpec
INVARIANT TypeOK
INVARIANT ScriptsTypeOK
INVARIANT SuppliedWhenDone
PROPERTY FundsGoHome
CHECK_DEADLOCK FALSE
