SPECIFICATION FairSpec
CONSTANTS
  p1 = p1
  p2 = p2
  none = none
  Prefixes = {p1, p2}
  NoPrefix = none
  Lagging = {"policy", "keys", "job"}
  MaxEdits = 1
  MaxFaults = 1
INVARIANTS
  TypeOK
PROPERTIES
  KeyNeverReplaced
  NoUnwantedRandomKey
  HarvestResolves
CHECK_DEADLOCK FALSE
