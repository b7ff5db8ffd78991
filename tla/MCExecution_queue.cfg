CONSTANTS
  Cells = {c1, c2}
  NoCell = NoCell
  STOP = STOP
  Deletable = {}
  Movable = {c1}
  MaxSubmits = 2
  MaxCancels = 1
  MaxEdits = 0
  MaxLines = 1
  MaxRaises = 1
SPECIFICATION FairSpec
INVARIANTS
  DrainedWhenStopped
PROPERTIES
  ImplementsQueue
  IdleReached
