SPECIFICATION MCSpec
INVARIANTS TypeOK LeadersOwnLock FewLeaders
INVARIANTS RestartsSettle AgentHasBreakingFields UrlsAgree
PROPERTIES LeaderEmerges
CONSTANTS
  None = None
  Pods = {q1, q2, q3}
  MaxFaults = 1
  MaxStops = 2
  Unset = Unset  Empty = Empty  Default = Default
  c1 = c1  c2 = c2  v1 = v1
  Fields <- MCFields
  Specs <- MCSpecs
  MaxSecrets = 2
  Refused = Refused  NoNumber = NoNumber
  Pieces <- MCPieces
  MaxPieces = 3
CHECK_DEADLOCK FALSE
