CONSTANTS
  NJobs = 2
  cirpsw = cirpsw
  casw = casw
  NoSwitch = NoSwitch
  Switch = {cirpsw}
  Stepped = {}
SPECIFICATION Spec
INVARIANTS
  SwappedOutIsPclsred
