SPECIFICATION FairSpec
PROPERTIES SslConfigStays
CONSTANTS
  None = None
  n1 = n1  n2 = n2  d1 = d1  d2 = d2  bad = bad
  info = info  debug = debug  i1 = i1
  NoImage = NoImage  DefaultImage = DefaultImage  Unset = Unset
  UserSpecs <- MCAlwaysSsl
  InvalidAddresses = {bad}
  Nodes = {n1}
  MaxEdits = 1
  MaxFaults = 0
CHECK_DEADLOCK FALSE
