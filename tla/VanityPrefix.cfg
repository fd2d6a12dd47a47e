SPECIFICATION Spec
CONSTANTS
  p1 = p1
  p2 = p2
  none = none
  Prefixes = {p1, p2}
  NoPrefix = none
  Lagging = {}
  MaxEdits = 1
  MaxFaults = 0
PROPERTIES
  PromotedKeyHasPrefix
CHECK_DEADLOCK FALSE
