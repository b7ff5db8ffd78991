SPECIFICATION ConsoleSpec
CONSTANTS
  NoCell = NoCell
  Landmark = Landmark
  Metas <- MCMetas
  Commands <- MCCommands
  MaxLen = 2
  MaxHistory = 2
INVARIANTS ModalAgrees EscapeLeads DraftComesBack
CHECK_DEADLOCK FALSE
