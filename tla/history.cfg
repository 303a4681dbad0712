SPECIFICATION HistorySpec
CONSTANTS
    None = None
    w1 = w1
    w2 = w2
    Worker = {w1, w2}
    Key = {"k1", "k2", "k3", "k4"}
    Fund <- MCFund
    Account <- MCAccount
    Cash <- MCCash
    AccountFund <- MCAccountFund
    Period <- MCPeriod
    Day <- MCDay
    Request <- MCRequest
    PageSize = 2
    Listed = {1}
    MaxAttempts = 4
    MaxTime = 4
SYMMETRY Symmetry
INVARIANTS
    PastIsSound
    WalkIsExact
PROPERTY
    PastSettles
