SPECIFICATION Spec
CONSTANTS
    p1 = p1
    p2 = p2
    Process = {p1, p2}
    Demo = "demo"
    Day <- MCDay
    Lps <- MCLps
    MaxRuns = 5
    MaxRate = 2
SYMMETRY Symmetry
INVARIANTS
    RerunsComplete
    SandboxReachesItsFund
CHECK_DEADLOCK FALSE
