SPECIFICATION AllocationSpec
CONSTANTS
    Recipient = {1, 2, 3}
    MaxWeight = 3
    MaxTotal = 4
    MaxRounds = 2
INVARIANTS
    SumsExactly
    DriftIsBounded
    LeastDeviation
CHECK_DEADLOCK FALSE
