SPECIFICATION PartSpec
CONSTANTS
  Day = 12
  Roll = 1
  Until = 10
  From = 6
  Every = 1
  Refresh = 4
  EcGap = 3
  MixRoll = 1
  MixFrom = 5
  MixUntil = 11
  MixEvery = 2
  MixRefresh = 4
  Hold = 3
  Back <- MCBack
  Spacing = 2
  Types = 1
  Published = 6
  MaxBad = 1
  MaxAsks = 1
  N = 5
  Inputs <- MCInputs
  Emin = 0
  Egmax = 5
  Efull = 6
  DisMax = 3
  ChgMax = 3
  LossDis = 1
  Spread = 1
  Cycle = 1
  Feedin = 0
  EtaPct = 90
  MinExt = 4
  MaxIter = 20
  MaxRounds = 4
  Planes = {1, 2}
  Settings <- MCSettings
  SlotsADay = 3
  MaxGap = 1
  Cover = 1
  Period = 2
  BackoffTop = 2
  MaxEvents = 2
  MaxPvTime = 6
  Horizon = 2
  MinSlots = 2
  MaxEmEdits = 1
  MaxQuarters = 2
  NPow = 2
  Settle = 1
  Dwell = 3
  PauseS = 2
  OfflineS = 1
  ForceLimit = 10
  SocMin = 7
  SocMax = 9
  SocTop = 16
  MaxSweepAsks = 1
  MaxStarts = 2
INVARIANTS FactorFits NoStalePlan
PROPERTIES SavingsReal HoldKept YieldsToUser EndsInNormal
CHECK_DEADLOCK FALSE
