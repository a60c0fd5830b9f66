SPECIFICATION ModelSpec
CONSTANTS
  Kinds = {"grid", "pv", "hybrid", "acmeter", "deye"}
  DevStale = 1
  RtuStale = 2
INVARIANT QuietNotCounted
CHECK_DEADLOCK FALSE
