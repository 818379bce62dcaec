SPECIFICATION MSpec
CONSTANTS
  Owners = {grey, black, third, fourth}
  BBs = {b1}
  NoMarker = NoMarker
  MAX_VALUE = 16
  UINT8_RANGE = 12
INVARIANTS
  MTypeOK SlotsOwned
PROPERTIES
  ImplementsMarkSets
CHECK_DEADLOCK FALSE
