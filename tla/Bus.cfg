SPECIFICATION WaySpec
CONSTANTS
  Clients = {c1}
  AskedPowers = {25000}
  GuardPowers = {}
  ForceLimit = 1
  AutoLimits = {1}
  UndoTries = 2
  WritesMayFail = TRUE
  MaxOps = 2
  MaxRestarts = 1
  Buses = {b1}
  Askers = {a1, a2}
  BusRegs = {r1, r2}
  NoReg = NoReg
  Read = Read
  NoOne = NoOne
  XchgMax = 1
  GwTimeout = 5
  Wait = 3
  Grace = 3
  TxnGrace = 3
  MaxCalls = 2
  MaxTxns = 2
  MaxStrays = 1
  MaxToggles = 1
INVARIANT ResultsTrue
PROPERTIES FallBackConfirmed UndoEnds NothingAbandoned CallsReturn
CHECK_DEADLOCK FALSE
