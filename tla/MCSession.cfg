\* Sessions from the banner to QUIT
SPECIFICATION Spec
CONSTANTS
  ConfFile = {"config", "sub", "none"}
  TopConf = "config"
  KFile = {"k1", "k2", "k3"}
  DirName <- MCDirName
  Transcript = {"t1", "t2"}
  MaxDepth = 2
  Setups <- MCSetups
  MaxFaults = 1
INVARIANTS
  LookupExact
  SessionExact
PROPERTIES
  ServedAsSet
  InStep
  SessionEnds
CHECK_DEADLOCK FALSE
