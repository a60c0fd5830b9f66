SPECIFICATION Spec
CONSTANTS
  Clients = {c1}
  AskedPowers = {2000}
  GuardPowers = {1000}
  ForceLimit = 1
  AutoLimits = {2}
  UndoTries = 2
  WritesMayFail = FALSE
  MaxOps = 2
  MaxRestarts = 1
INVARIANT RestartUndoesForce
CHECK_DEADLOCK FALSE
