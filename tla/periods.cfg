SPECIFICATION Spec
CONSTANTS
    None = None
    w1 = w1
    w2 = w2
    Worker = {w1, w2}
    Key = {"k1", "k2", "k3", "k4"}
    Fund <- MCFund
    Account <- MCAccount
    Cash <- MCCash
    AccountFund <- MCAccountFund
    Period <- TwoPeriods
    Day <- TwoDays
    Request <- PeriodRequest
    MaxAttempts = 4
INVARIANTS
    ClosedInOrder
PROPERTIES
    ClosedIsFinal
    AbstractSpec
