CONSTANTS
    ctl = ctl
    w = w
    app1 = app1
    app2 = app2
    c1 = c1
    c2 = c2
    None = None
    Node = {ctl, w}
    Controller = ctl
    Scope = {app1, app2}
    FutureTolerance = 1
    Client = {c1, c2}
    RequestOf <- MCRequestOf
    Inventory <- OneGeneration
    Grant <- MCGrant
    MaintenanceTask = {}
    TTL = 1
    MaxToken = 2
    MaxOp = 2
    MaxIssue = 1
    MaxTime = 1
    MaxSkew = 1
    MaxRenewals = 1
    MaxFaults = 2
SPECIFICATION Spec
INVARIANTS TypeOK CompletedIsQuiescent ClusterSingleWriter
CHECK_DEADLOCK FALSE
