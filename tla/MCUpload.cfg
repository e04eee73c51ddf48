SPECIFICATION Spec
CONSTANTS
  one = one
  two = two
  tran = tran
  other = other
  Session = {one, two}
  Transcript = {tran, other}
  Block = {1, 2}
  NFile = 2
  Versions <- MCVersions
  Starts <- MCStarts
  UpRoom = 3
  MaxFaults = 1
  MaxCleans = 1
INVARIANTS
  OneWriter
  ExitZeroStored
  AnswersMatch
PROPERTY SessionsEnd
