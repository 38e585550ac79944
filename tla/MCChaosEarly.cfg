SPECIFICATION Spec
CONSTANTS
  Conn = {1, 2}
  HostOf <- TwoHosts
  Window <- WideWindow
  Callers = {1}
  Listeners = {2}
  Kinds <- OnlyData
  UncNumbers = {}
  Faults = {"DUP"}
  MaxPkn <- ServerAhead
  MaxUniq <- OneLife
  MaxNet = 3
INVARIANTS NoGaps EarlyOnesWait NothingLost
CHECK_DEADLOCK FALSE
