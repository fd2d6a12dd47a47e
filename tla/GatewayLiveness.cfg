SPECIFICATION FairSpec
CONSTANTS
  n1 = n1
  Namespaces = {n1}
  Refs = {n1}
  Lagging = {"policy", "keys", "backends"}
  Edits = {"policy", "delete", "grant"}
  Harvests = {FALSE, TRUE}
  MaxEdits = 2
  MaxFaults = 1
PROPERTIES
  Converges
  RetiredKeyStaysRetired
CHECK_DEADLOCK FALSE
