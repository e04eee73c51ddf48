\* lmerge, with every option, and lcksum
SPECIFICATION Spec
CONSTANTS
  NPath = 3
  Last <- MCLast
  Data = {"x", "y"}
  NTran = 3
  Jobs <- MCJobs
  Escaped = {3}
  MaxFaults = 1
INVARIANTS
  MergeExact
  FilesFollow
  NoFileLost
  MergeFeasible
  CksumExact
  OldOrNew
CHECK_DEADLOCK FALSE
