SPECIFICATION SetterSpec
CONSTANTS
  Clients = {c1, c2}
  AskedPowers = {2000}
  GuardPowers = {1000}
  ForceLimit = 1
  AutoLimits = {2}
  UndoTries = 2
  WritesMayFail = FALSE
  MaxOps = 3
  MaxRestarts = 0
  Powers = {1, 2}
  Plans <- TwoPlans
  Settings <- OnOff
  SlotTicks = 2
  Margin = 2
  UserLimit = 2
  AutoLimit = 3
  SessionTicks = {2}
  End = 5
  MaxAsks = 2
INVARIANTS SettledMatches NoOrphan
PROPERTIES Contract EventuallyNormal NoKnownOverwrite FreeAgain
CHECK_DEADLOCK FALSE
