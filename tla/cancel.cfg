CONSTANTS
  j1 = j1  j2 = j2  j3 = j3  w1 = w1  w2 = w2  s1 = s1  s2 = s2  s3 = s3  k1 = k1
  None = None
  Ids = {j1, j2}
  Slots = {s1, s2}
  Tokens = {w1}
  Keys = {k1}
  Owner <- OneWorker  Lives <- One  Nows = {1}  MaxClaim = 2
  Attempts <- One  Ckey <- Keyed  Keep <- KeepMixed  Delay <- FirstOnly  Backoff <- No
  MaxStalled = 1  Cap = 0
  Ops = {"expire", "cancel", "remove", "retry", "promote", "shutdown"}
SPECIFICATION Spec
INVARIANTS SingleHome KeyHeldByOne LockMeansActive
PROPERTIES CancelSticks ImplementsLease
SYMMETRY SlotsOnly
CHECK_DEADLOCK FALSE
