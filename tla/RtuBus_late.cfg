SPECIFICATION RtuSpec
CONSTANTS
  Buses = {b1}
  Askers = {c1, c2}
  BusRegs = {r1, r2}
  NoReg = NoReg
  Read = Read
  NoOne = NoOne
  XchgMax = 1
  GwTimeout = 5
  Wait = 3
  Grace = 3
  TxnGrace = 3
  MaxCalls = 2
  MaxTxns = 2
  MaxStrays = 0
  MaxToggles = 0
INVARIANT OwnResult
CHECK_DEADLOCK FALSE
