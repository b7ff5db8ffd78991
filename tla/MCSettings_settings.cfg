CONSTANTS
  Ids <- MCIds
  Numbers <- MCNumbers
  Loaded <- MCLoaded
  Defaults <- MCDefaults
  MaxHistory = 2
  MaxObjects = 3
  MaxQuery = 1
  Typed <- MCTyped
  Chars = {"b"}
SPECIFICATION Spec
INVARIANTS
  PositionIsReal
  BankIsSound
  CleanMeansUnchanged
PROPERTIES
  EditsAreAHistory
