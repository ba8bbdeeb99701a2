CONSTANTS
    j1 = j1
    j2 = j2
    j3 = j3
    w1 = w1
    w2 = w2
    s1 = s1
    s2 = s2
    None = None
    Jobs = {j1, j2, j3}
    Slots = {s1, s2}
    Workers = {w1, w2}
    WorkerOf <- OneSlotEach
    Prio <- Urgent
    Key <- Keyed
    Delays = {0, 1}
    Offset = 1
    SeqWrap = 32
    Batch = 2
    BlockTimeout = 2
    RlMax = 1
    RlDuration = 2
    Caps = {0, 1}
    Ops = {"retry", "cancel", "remove", "pause", "limits", "stop", "cut", "crash", "start", "stall"}
    MaxOps = 1
SPECIFICATION Spec
INVARIANTS TypeOK NoLostWake
PROPERTIES ClaimInOrder StartsWithinCap
CHECK_DEADLOCK FALSE
