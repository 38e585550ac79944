SPECIFICATION Spec
CONSTANTS
  Conn = {1, 2}
  HostOf <- TwoHosts
  Window <- WideWindow
  Callers = {1}
  Listeners = {2}
  Kinds <- OnlyUnc
  UncNumbers = {3}
  Faults = {}
  MaxPkn <- ServerAhead
  MaxUniq <- OneLife
  MaxNet = 2
INVARIANT NothingLost
CHECK_DEADLOCK FALSE
