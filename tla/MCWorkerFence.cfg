CONSTANTS
    w = w
    ctl = ctl
    app = app
    None = None
    Node = {w}
    Controller = ctl
    Scope = {app}
    FutureTolerance = 1
    MaxTime = 4
    MaintenanceTask = {prune}
    Grant <- MCGrant
    Inventory <- MCInventory
SPECIFICATION FairSpec
INVARIANTS TypeOK RunningUnderGrant NodeSingleWriter OverlapOnlyAfterLapse
PROPERTIES IsTokenFence BarrierEventuallyReleased ActivationNotStranded
