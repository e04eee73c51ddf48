\* fsdiff -A -c sha1 . and lapply -c sha1, until there is nothing to apply
SPECIFICATION ReconcileSpec
CONSTANTS
  NPath = 6
  Last <- MCLast
  NInode = 6
  Data <- MCLData
  Size <- MCLSize
  Owners = {0, 1}
  Modes = {0, 1, 2}
  Times = {0, 1, 2}
  Pid = {1}
  Temp <- MCTemp
  TempMode = 1
  Now = 2
  Partial = 14
  Mixed = 15
  Umask <- MCUmask
  SetId = {}
  Cleared <- MCCleared
  MaxFaults = 1
  Starts <- MCStarts
  TimesIgnored = FALSE
  Top = 1
INVARIANTS
  OnePassEnough
  PassesPaidFor
PROPERTY ArriveWhole
