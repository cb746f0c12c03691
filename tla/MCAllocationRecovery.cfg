CONSTANTS
    None = None
    w = w
    e1 = e1
    e2 = e2
    o1 = o1
    o2 = o2
    o3 = o3
    app = app
    Workers = {w}
    Edges = {e1, e2}
    Ops = {o1, o2, o3}
    Scopes = {app}
    ScopeOf <- MCScopeOf
    EdgesOf <- MCEdgesOf
    MaxGeneration = 2
    MaxAllocationGeneration = 2
    MaxCopies = 1

SPECIFICATION Spec
INVARIANT RetryIsMonotonic
SYMMETRY Alike
CHECK_DEADLOCK FALSE
