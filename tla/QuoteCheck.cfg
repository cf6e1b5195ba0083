CONSTANTS
    Reserves = {1, 2, 3, 5, 8, 13, 21, 34}
    Amounts = {1, 2, 3, 5, 10, 20, 40}
    PairFee = 25
    MaxSwaps = 2
SPECIFICATION Spec
INVARIANT QuoteIsAccepted
INVARIANT QuoteIsMaximal
INVARIANT InputSuffices
CHECK_DEADLOCK FALSE
