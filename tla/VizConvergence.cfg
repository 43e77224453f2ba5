SPECIFICATION FairSpec
INVARIANTS TypeOK ConfigBeforeRestart EditsAttended
PROPERTIES UserEditsSurvive DaemonSetConverges ConfigConverges
CONSTANTS
  None = None
  n1 = n1  n2 = n2  d1 = d1  d2 = d2  bad = bad
  info = info  debug = debug  i1 = i1
  NoImage = NoImage  DefaultImage = DefaultImage  Unset = Unset
  UserSpecs <- MCSpecs
  InvalidAddresses = {bad}
  Nodes = {}
  MaxEdits = 2
  MaxFaults = 1
CHECK_DEADLOCK FALSE
