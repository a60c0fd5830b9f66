SPECIFICATION BoxSpec
CONSTANTS
  Chunks = 2
  Timeouts = 2
  ConfirmMin = 2
  ConfirmMax = 3
  MaxRequests = 3
  MaxCuts = 1
  Networks = {"h", "g"}
  Saved <- MCSaved
  MaxCreds = 2
  MaxStir = 2
  Brokers = {"b1", "b2"}
  Roles = {"grid"}
  MaxMqtt = 2
  MaxSends = 1
  Values = {1, 2}
  Usual = 1
  Wlans = {"h"}
  MaxDev = 8
  MaxSteps = 3
  RecSize <- MCSize
  RetryRounds = 1
  StaleRounds = 2
  SyncRounds = 1
  MaxVpn = 2
  SleepAfter = 2
INVARIANTS AlwaysRescuable StartedOnce SettingsKept
PROPERTIES DoorOpens Reconnects AnnouncedIsTrue TunnelFollows TapSwallowed
CHECK_DEADLOCK FALSE
