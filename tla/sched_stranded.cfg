CONSTANTS
  c1 = c1  c2 = c2  m1 = m1
  None = None
  Callers = {c1, c2}
  Minters = {m1}
  Every <- Once
  MaxNow = 2  Horizon = 4  MaxFaults = 0
  Ops = {"remove"}
SPECIFICATION FairSpec
PROPERTY ListedGoesOn
CHECK_DEADLOCK FALSE
