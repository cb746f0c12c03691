CONSTANTS
    ctl = ctl
    app1 = app1
    app2 = app2
    r1 = r1
    r2 = r2
    None = None
    Node = {ctl}
    Controller = ctl
    Scope = {app1, app2}
    FutureTolerance = 1
    RequestId = {r1, r2}
    Request <- MCRequest
    Inventory <- MCInventory
    Grant = {}
    TTL = 2
    MaxToken = 2
    MaxOp = 3
    MaxIssue = 3
SPECIFICATION Spec
INVARIANTS TypeOK TokenIdentifiesOperation RequestBoundOnce GrantsFormChain LeaseWithinFence
PROPERTY HandoverAfterExpiry
