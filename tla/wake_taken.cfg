CONSTANTS
    j1 = j1
    j2 = j2
    j3 = j3
    w1 = w1
    w2 = w2
    s1 = s1
    s2 = s2
    None = None
    Jobs = {j1, j2}
    Slots = {s1, s2}
    Workers = {w1, w2}
    WorkerOf <- OneSlotEach
    Prio <- Urgent
    Key <- NoKeys
    Delays = {0, 1}
    Offset = 1
    SeqWrap = 32
    Batch = 2
    BlockTimeout = 2
    RlMax = 1
    RlDuration = 2
    Caps = {0}
    Ops = {"crash", "stop", "cut", "resend", "promote", "lose", "stall"}
    MaxOps = 1
SPECIFICATION FairSpec
PROPERTIES EveryJobIsTaken
CHECK_DEADLOCK FALSE
