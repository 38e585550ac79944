SPECIFICATION Spec
CONSTANTS
  Conn = {1, 2}
  HostOf <- TwoHosts
  Window <- SmallWindows
  Callers = {1}
  Listeners = {2}
  Kinds <- AllKinds
  UncNumbers = {0}
  Faults = {"SILENCE"}
  MaxPkn <- ServerOnce
  MaxUniq <- CallerTwice
  MaxNet = 1
INVARIANTS CallersAgree ListenersListen
CHECK_DEADLOCK FALSE
