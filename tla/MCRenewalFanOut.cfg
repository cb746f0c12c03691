CONSTANTS
    ctl = ctl
    w = w
    app1 = app1
    app2 = app2
    c1 = c1
    c2 = c2
    None = None
    Node = {ctl, w}
    Controller = ctl
    Scope = {app1, app2}
    FutureTolerance = 1
    Client = {c1}
    RequestOf <- MCRequestOf
    Inventory <- OneGeneration
    Grant <- MCGrant
    MaintenanceTask = {}
    TTL = 2
    MaxToken = 1
    MaxOp = 1
    MaxIssue = 2
    MaxTime = 3
    MaxSkew = 1
    MaxRenewals = 2
    MaxFaults = 0
SPECIFICATION Spec
PROPERTY PreviousOnlyDuringFanOut
CHECK_DEADLOCK FALSE
