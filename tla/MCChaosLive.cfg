SPECIFICATION FairSpec
CONSTANTS
  Conn = {1, 2}
  HostOf <- TwoHosts
  Window <- OnePacket
  Callers = {1}
  Listeners = {2}
  Kinds <- OnlyData
  UncNumbers = {}
  Faults = {}
  MaxPkn <- ServerTalks
  MaxUniq <- OneLife
  MaxNet = 1
PROPERTIES WriterGoesOn SendListEmpties
CHECK_DEADLOCK FALSE
