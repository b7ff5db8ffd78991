CONSTANTS
  Cells = {c1, c2}
  NoCell = NoCell
  STOP = STOP
  Deletable = {c1, c2}
  Movable = {c1, c2}
  MaxSubmits = 2
  MaxCancels = 1
  MaxEdits = 1
  MaxLines = 1
  MaxRaises = 1
SPECIFICATION Spec
SYMMETRY CellSymmetry
INVARIANTS
  InflightExact
  CancelHitsItsTarget
  OutputBeforeTerminal
  CancelledWasAsked
  EarlyCancelIsNarrated
