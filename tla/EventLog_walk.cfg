SPECIFICATION EventLogViewerSpec
CONSTANTS
  MaxEntries = 4
  BindingIds = {b1, b2}
  MaxSerial = 12
  NoBinding = NoBinding
INVARIANT UpWalksBack
CHECK_DEADLOCK FALSE
