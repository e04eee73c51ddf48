\* ra.sh, called twice
SPECIFICATION Spec
CONSTANTS
  Run = {1, 2}
  User = {"u", "v"}
  MaxVersion = 3
  MaxFaults = 2
  MaxWork = 1
  MaxTries = 2
  Starts <- MCStarts
INVARIANT RunExact
PROPERTY WorkSpared
CHECK_DEADLOCK FALSE
