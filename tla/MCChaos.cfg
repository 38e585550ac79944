SPECIFICATION Spec
CONSTANTS
  Conn = {1, 2}
  HostOf <- TwoHosts
  Window <- SmallWindows
  Callers = {1}
  Listeners = {2}
  Kinds <- OnlyData
  UncNumbers = {}
  Faults = {"DUP"}
  MaxPkn <- ShortTalk
  MaxUniq <- OneLife
  MaxNet = 2
INVARIANTS TypeOK WindowKept FinishWaits AckMeansRead
PROPERTIES StreamsFlow
CHECK_DEADLOCK FALSE
