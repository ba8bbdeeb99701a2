CONSTANTS
  j1 = j1  j2 = j2  j3 = j3  w1 = w1  w2 = w2  s1 = s1  s2 = s2  s3 = s3  k1 = k1
  None = None
  Ids = {j1}
  Slots = {s1, s2, s3}
  Tokens = {w1, w2}
  Keys = {k1}
  Owner <- TwoWorkers  Lives <- One  Nows = {1}  MaxClaim = 4
  Attempts <- Two  Ckey <- NoKey  Keep <- KeepAll  Delay <- No  Backoff <- Yes
  MaxStalled = 1  Cap = 0
  Ops = {"expire", "lose", "crash", "forget"}
SPECIFICATION FairSpec
INVARIANTS TypeOK OneCommitter OneRunPerClaim BudgetLeft
PROPERTIES FinishedStays EventuallySettled
CHECK_DEADLOCK FALSE
