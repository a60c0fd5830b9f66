SPECIFICATION CtrSpec
CONSTANTS
  Rate = 1
  Jitter = 0
  MaxRejects = 3
  TopCount = 1
  Hybrids = {1}
  GapTicks = 1
  SaveTicks = 2
  MaxSum = 2
  MaxGarbles = 1
  MaxFails = 1
PROPERTY NeverBackwards
CHECK_DEADLOCK FALSE
