CONSTANTS
  long = long
  empty = empty
  Cells = {long, empty}
  NoCell = NoCell
  Chars = {x}
  MaxLines <- LineBounds
  MaxTyped = 1
  PageSize = 2
  MaxStarts = 2
SPECIFICATION FairSpec
INVARIANTS
  PlaysWhatIsRead
  QuietAfterStop
  EveryEndIsTold
PROPERTIES
  TellsEveryLine
  FirstPlaybackEnds
CHECK_DEADLOCK FALSE
