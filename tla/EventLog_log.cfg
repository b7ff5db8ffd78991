SPECIFICATION EventLogViewerSpec
CONSTANTS
  MaxEntries = 5
  BindingIds = {b1, b2}
  MaxSerial = 12
  NoBinding = NoBinding
INVARIANT NeverOlderThanTold
CHECK_DEADLOCK FALSE
