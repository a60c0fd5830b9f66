SPECIFICATION StoreSpec
CONSTANTS
  SlotLen = 3
  CoverMin = 2
  DaySlots = 2
  DayMin = 2
  TickGap = 1
  LpSaveEvery = 4
  LpRetry = 2
  MaxLp = 14
  MaxMishaps = 2
  Optional = {"out"}
  Need = {"bat", "out"}
  MaxMiss = 1
  Retry = 2
  GapMax = 3
  FullHold = 1
  SaveEvery = 1
  MaxLive = 3
  MaxTouch = 1
  Sectors = 3
  PerSector = 2
  Times = {1, 2, 3}
  MaxPuts = 7
  MaxTrouble = 2
  Rate = 1
  Jitter = 0
  MaxRejects = 3
  TopCount = 2
  Hybrids = {1, 2}
  GapTicks = 1
  SaveTicks = 1
  MaxSum = 1
  MaxGarbles = 1
  MaxFails = 1
  Devices = {d1, d2}
  HandRates = {0, 1, 2}
  ForceRates = {3}
  ForceEnds = {1, 2}
  MaxOps = 2
  MaxFaults = 2
  MaxRestarts = 1
INVARIANTS MeasuredIsKept LimitsKept SumsKept
PROPERTIES RingSound Follows NewForceSurvives GivesBack
CHECK_DEADLOCK FALSE
