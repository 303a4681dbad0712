SPECIFICATION Spec
CONSTANTS
    None = None
    BaseCurrency = "GBP"
    Penny = 4
    Currency = {"USD"}
    Rate <- MCRate
    Precision = 4
    Amount = {1, 3}
    Outlay = {1, 3, 7}
    MaxDay = 2
    MaxLegs = 4
    MaxBooked = 2
INVARIANTS
    RoundingNeverRefuses
    OnlyRoundingIsAbsorbed
    ReversalUndoes
    PurchaseIsPriced
CHECK_DEADLOCK FALSE
