SPECIFICATION Spec
CONSTANTS
    None = None
    w1 = w1
    w2 = w2
    w3 = w3
    Worker = {w1, w2, w3}
    Key = {"k1", "k2", "k3", "k4"}
    Fund <- MCFund
    Account <- MCAccount
    Cash <- MCCash
    AccountFund <- MCAccountFund
    Period <- OnePeriod
    Day <- OneDay
    Request <- FundsRequest
    MaxAttempts = 4
SYMMETRY Symmetry
INVARIANTS
    TypeOK
    NoOverdraft
    Reconciles
    NoWaitCycle
