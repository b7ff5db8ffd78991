CONSTANTS
  Bindings <- MCBindings
  Events <- MCEvents
  Editable = {"output_chunk"}
  Levels = {"minimal", "normal"}
  OnDisk <- MCOnDisk
  MaxFailures = 3
  MayRaise = TRUE
  NoBank = NoBank
  Corrupt = Corrupt
  NoJob = NoJob
  NoPhrase = NoPhrase
  Priority <- MCPriority
  Installed = {"espeak-ng", "tone"}
  Accepts <- MCAccepts
  Parameters = {"rate", "speed"}
  Override = ""
SPECIFICATION Spec
INVARIANTS
  Unmissed
  OneVoice
PROPERTIES
  GivenUpWhenDeaf
