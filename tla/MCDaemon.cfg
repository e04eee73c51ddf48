\* radmind -m 2
SPECIFICATION Spec
CONSTANTS
  Client = {c1, c2, c3}
  MaxConnections = 2
  MaxForkFails = 1
  MaxReloads = 2
INVARIANTS
  NoLostChild
  ServedBounded
  CountsBack
PROPERTIES
  Answered
  ReloadSeen
CHECK_DEADLOCK FALSE
