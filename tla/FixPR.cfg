CONSTANTS
  r1 = r1  r2 = r2  r3 = r3  f1 = f1  f2 = f2  fix = fix  fix2 = fix2
  old = old  raw = raw  neat = neat  wrong = wrong  garbled = garbled  directory = directory
  Runs <- ThreeRuns
  Jobs <- MCJobs
  Starts <- Either
  Workspaces <- Places
  Branches = {fix, fix2}
  Main = main
  Files <- MCFiles
  Contents <- MCContents
  Base <- MCBase
  Formatted <- MCFormatted
  Unformattable = {garbled}
  Wrong = {wrong}
  MaxActive = 3
  Faults = TRUE
  Crashes = TRUE
SYMMETRY Interchangeable
SPECIFICATION Spec
INVARIANTS TypeOK OnlyAcceptedPushed LandsWhereAsked
PROPERTIES ShowsGuardedFix
CHECK_DEADLOCK FALSE
