SPECIFICATION Spec
CONSTANTS
  Names <- MCNames
  Default = "default"
  Loose = "loose"
  NoPath = NoPath
  Missing = Missing
  Torn = Torn
  MaxEdits = 2
  MaxSubmits = 2
  MaxLaunches = 3
  MaxFaults = 2
INVARIANTS NothingSavedIsLost GreetedBeforeMarked SubmissionsAccounted
PROPERTY QuitSaves
CHECK_DEADLOCK FALSE
