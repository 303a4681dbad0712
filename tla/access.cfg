SPECIFICATION Spec
CONSTANTS
    w1 = w1
    w2 = w2
    Worker = {w1, w2}
    User <- MCUser
    Fund <- MCFund
    Lp <- MCLp
    None = None
    Sandbox = "sandbox"
    DailyFund <- MCDailyFund
    DemoUser <- MCDemoUser
    DemoFund = "demo"
    DemoLp = "kelvin"
    Committed <- MCCommitted
    ObjectFund <- MCObjectFund
    Request <- MCRequest
    TouchInterval = 0
    MaxKeys = 2
    MaxTime = 2
    MaxCommands = 3
SYMMETRY Symmetry
INVARIANTS
    EntitledWhenServed
    OutsidersAreToldNothing
    UseIsOnRecord
