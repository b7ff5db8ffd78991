CONSTANTS
  NoLine = NoLine
  MaxRuns = 2
  MaxLines = 2
  MaxLate = 1
  MaxSignals = 1
  MaxRaises = 1
  MaxMishaps = 1
  StderrMayBeOpen = TRUE
  MayReadStdin = TRUE
  MayDie = TRUE
SPECIFICATION FairSpec
INVARIANTS
  OwnResult
  OutputIsOwn
  CleanStart

  
CHECK_DEADLOCK FALSE
