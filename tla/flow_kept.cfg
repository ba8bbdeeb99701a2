CONSTANTS
    root = root
    mid = mid
    a = a
    b = b
    lone = lone
    None = None
    Nodes = {root, mid, a, b, lone}
    Parent <- TreeParent
    OnFail <- MidTolerated
    Keep <- LoneTrims
    Ops = {"retry"}
    MaxOps = 1
    MaxNow = 0
SPECIFICATION FairSpec
PROPERTIES TrimSparesFlows FlowSettles
CHECK_DEADLOCK FALSE
