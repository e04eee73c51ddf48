\* lapply -c sha1, with and without -n, and lapply -C -F
SPECIFICATION Spec
CONSTANTS
  NPath = 6
  Last <- MCLast
  NInode = 6
  Data <- MCLData
  Size <- MCLSize
  Owners = {0, 1}
  Modes = {0, 1, 2, 3}
  Times = {0, 1, 2}
  Pid = {1}
  Temp <- MCTemp
  TempMode = 1
  Now = 2
  Partial = 14
  Mixed = 15
  Umask <- MCUmask
  SetId = {3}
  Cleared <- MCCleared
  MaxFaults = 1
  Starts <- MCStarts
INVARIANTS
  TypeOK
  HeadsNested
  ZeroMeansApplied
PROPERTY Ends
