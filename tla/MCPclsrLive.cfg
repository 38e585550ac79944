CONSTANTS
  NJobs = 3
  cirpsw = cirpsw
  casw = casw
  NoSwitch = NoSwitch
  Switch = {}
  Stepped = {2}
SPECIFICATION FairSpec
PROPERTIES
  RpclosEnds
