CONSTANTS
    root = root
    mid = mid
    a = a
    b = b
    lone = lone
    None = None
    Nodes = {root, mid, a, b}
    Parent <- TreeParent
    OnFail <- LeafTolerated
    Keep <- LeafGoes
    Ops = {"cancel", "retry", "retryAll", "remove", "clean", "cut"}
    MaxOps = 3
    MaxNow = 1
SPECIFICATION Spec
INVARIANTS TypeOK FanInHonest Reclaimable
PROPERTIES BarrierHolds FlowCountedOnce
CHECK_DEADLOCK FALSE
