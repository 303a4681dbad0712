SPECIFICATION StatementSpec
CONSTANTS
    None = None
    Key = {"k1", "k2", "k3", "k4", "k5"}
    Fund <- MCFund
    Account <- MCAccount
    Cash <- MCCash
    AccountFund <- MCAccountFund
    Period <- MCPeriod
    Row <- MCRow
    Commitment <- MCCommitment
    Chart <- MCChart
    Penny = 2
    Valued <- MCValued
    MaxComputed = 2
INVARIANTS
    PartnersCapitalIsNav
    ToDateIsWhatCallsFind
    ClosedIsNeverTorn
    SnapshotIsNav
PROPERTY
    ClosedStatementIsFinal
