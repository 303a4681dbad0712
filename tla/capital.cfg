SPECIFICATION CapitalSpec
CONSTANTS
    None = None
    w1 = w1
    w2 = w2
    Worker = {w1, w2}
    Key = {"k1", "k2", "k3", "k4", "k5"}
    Fund <- MCFund
    Account <- MCAccount
    Cash <- MCCash
    AccountFund <- MCAccountFund
    Period <- MCPeriod
    Day <- OneDay
    Commitment <- MCCommitment
    Chart <- MCChart
    Penny = 1
    Request <- CompetingRequest
    CapitalRequest <- CompetingCapital
    MaxAttempts = 4
SYMMETRY Symmetry
INVARIANTS
    WithinCommitment
    DocumentsMatchMoney
    NumberedInOrder
    CapitalTruthful
    CapitalNoWaitCycle
PROPERTY
    MadeIsNeverRefused
