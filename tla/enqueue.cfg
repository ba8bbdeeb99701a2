SPECIFICATION Spec
CONSTANTS
    d1 = d1
    p1 = p1
    p2 = p2
    u1 = u1
    x1 = x1
    None = None
    Direct = {d1}
    Pending = {p1, p2}
    Flushes = {f1, f2}
    JobId <- CustomFirst
    DedupId <- SharedDedup
    Nodes <- DirectFlow
    DedupTtl = 1
    Window = 2
    MaxFaults = 2
    MaxIds = 4
INVARIANTS TypeOK OncePerCall SentIsTrue
PROPERTY InOneHand
CHECK_DEADLOCK FALSE
