SPECIFICATION Spec
CONSTANTS
  Step = 2
  Hyst = 4
  Urgent = 8
  Hold = 4
  Gap = 2
  PowerMin = 4
  MaxExport = 11
  UserPowers = {9, 25}
  Loads = {0, 12}
  Lag = 3
  MaxChanges = 3
INVARIANT NeverAboveUser
CHECK_DEADLOCK FALSE
