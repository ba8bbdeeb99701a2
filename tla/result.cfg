SPECIFICATION FairSpec
CONSTANTS
    j1 = j1
    w1 = w1
    w2 = w2
    None = None
    Jobs = {j1}
    Waiters = {w1, w2}
    JobOf <- OneJob
    Limited = {w2}
    Big = {j1}
    Ways = {"completed", "cancelled"}
    MaxRuns = 2
    MaxFaults = 1
INVARIANTS TypeOK AnswerIsReal NothingMissed ClosedIsQuiet
PROPERTY EveryWaitEnds
CHECK_DEADLOCK FALSE
