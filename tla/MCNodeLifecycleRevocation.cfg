CONSTANTS
    None = None
    w1 = w1
    w2 = w2
    t1 = t1
    t2 = t2
    t3 = t3
    Workers <- MCWorkers
    Tokens <- MCTokens
    TokenNode <- MCTokenNode
    Sessions = {s1}

SPECIFICATION Spec

PROPERTY RevokedBeforeTombstone
SYMMETRY Alike
CHECK_DEADLOCK FALSE
