SPECIFICATION Spec
CONSTANTS
    None = None
    w1 = w1
    Worker = {w1}
    Key = {"k1", "k2", "k3", "k4"}
    Fund <- MCFund
    Account <- MCAccount
    Cash <- MCCash
    AccountFund <- MCAccountFund
    Period <- TwoPeriods
    Day <- TwoDays
    Request <- UndatedRequest
    MaxAttempts = 3
INVARIANTS
    RetryNeverConflicts
