CONSTANTS
  NJobs = 3
  cirpsw = cirpsw
  casw = casw
  NoSwitch = NoSwitch
  Switch = {cirpsw}
  Stepped = {2}
SPECIFICATION Spec
INVARIANTS
  TypeOK
  NeverHalts
  StoppedInUserMode
  RpclPaired
  SwitchesAccounted
  StopsAccounted
  PlacesConsistent
  NoEmbrace
PROPERTIES
  StopsJobs
