\* ktcheck with and without -c, -n and -C, twice
SPECIFICATION Spec
CONSTANTS
  KFile = {1, 2}
  Base = 1
  Transcript = {11, 12, 13}
  Special = {21, 22}
  Pattern = {31}
  Data = {0, 101, 102, 103, 104, 111, 112, 113, 201, 202, 203, 204, 301, 302}
  Size <- MCSize
  Lines <- MCLines
  Nested <- MCNested
  Releases <- MCReleases
  Starts <- MCStarts
  MaxEdits = 1
  MaxFaults = 1
  MaxRuns = 2
INVARIANTS
  UpToDate
  DryRunTruthful
  Loadable
  LoadedAsWritten
PROPERTY EveryRunEnds
