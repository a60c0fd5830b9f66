SPECIFICATION NetSpec
CONSTANTS
  Slots = {1, 2}
  Lists <- MCLists
  Storages = {"B"}
  MaxSaves = 1
  MaxTcpFaults = 1
  MaxConns = 2
  MaxReqs = 2
  Clients = {1, 2}
  Limits = {1}
  MaxSwitches = 1
  Stale = 1
  GapMax = 2
  SaveEvery = 1
  PerKwh = 2
  MaxTime = 5
  MaxFrmRestarts = 1
  Watts <- MCWatts
  Outputs <- MCOutputs
  Setpoints = {0, 7}
  SpMax = 1
  Manips <- MCManips
  ClampW = 2
  MaxAge = 1
  OutAge = 1
  HoldS = 1
  ManipMax = 1
  PollMax = 1
  HoldRenew = 1
  Callers = {"web"}
  Spans = {1}
  Renew = 3
  TickMax = 4
  MaxSets = 2
  MaxBoots = 1
  Step = 2
  Hyst = 4
  Urgent = 8
  Hold = 4
  Gap = 2
  PowerMin = 4
  MaxExport = 11
  UserPowers = {1, 9, 25}
  Loads = {0, 6, 12}
  Lag = 3
  MaxChanges = 3
INVARIANTS OwnAnswer AnsweredInOrder CountedOnce ToldRight LockInForce
PROPERTIES GridServed FuseSafe Converges
CHECK_DEADLOCK FALSE
