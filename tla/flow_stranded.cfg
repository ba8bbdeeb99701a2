CONSTANTS
    root = root
    mid = mid
    a = a
    b = b
    lone = lone
    None = None
    Nodes = {root, mid, a, b}
    Parent <- TreeParent
    OnFail <- MidTolerated
    Keep <- LoneTrims
    Ops = {"cancel", "retry"}
    MaxOps = 2
    MaxNow = 0
SPECIFICATION Spec
INVARIANT NeverParkedForGood
CHECK_DEADLOCK FALSE
