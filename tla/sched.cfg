CONSTANTS
  c1 = c1  c2 = c2  m1 = m1
  None = None
  Callers = {c1, c2}
  Minters = {m1}
  Every <- Wider
  MaxNow = 2  Horizon = 4  MaxFaults = 2
  Ops = {"remove", "drop", "promote", "retain", "stall", "hold", "retry"}
SPECIFICATION FairSpec
INVARIANT TypeOK
PROPERTIES RemovedStaysSilent UpdateSparesRuns ScheduleGoesOn
CHECK_DEADLOCK FALSE
