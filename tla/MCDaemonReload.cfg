\* radmind, told twice of new TLS files
SPECIFICATION Spec
CONSTANTS
  Client = {c1}
  MaxConnections = 2
  MaxForkFails = 0
  MaxReloads = 2
INVARIANT NoLostReload
CHECK_DEADLOCK FALSE
