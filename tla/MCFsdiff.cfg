\* fsdiff, in all modes and on all inputs
SPECIFICATION Spec
CONSTANTS
  NPath = 5
  Last <- MCLast
  NInode = 5
  Data <- MCData
  Size <- MCSize
  Owners = {0, 1}
  Modes = {0, 1}
  Times = {0, 1}
  Inputs <- MCInputs
INVARIANTS
  EditsExact
  EditsOrdered
PROPERTY Terminates
