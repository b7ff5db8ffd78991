CONSTANTS
  Cells = {c1, c2}
  Runnable = {c1}
  NoCell = NoCell
  NoTime = NoTime
  Silence = 2
  Interval = 3
  MaxLag = 1
  MayRaise = TRUE
  TailLines = 1
  MaxErrors = 2
SPECIFICATION FairSpec
PROPERTIES
  OncePerStretch
  AwayIsTrue
  QuietIsTold
