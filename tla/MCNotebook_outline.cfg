CONSTANTS
  Ids = {i1, i2, i3, i4}
  NoCell = NoCell
  Names = {here}
  Levels = {1, 2}
SPECIFICATION Spec
SYMMETRY IdSymmetry
INVARIANTS
  BookmarksResolve
  VisibleAgrees
PROPERTIES
  UpTheOutline
  EditsAreLocal
