SPECIFICATION FairSpec
CONSTANTS
  Namespaces = {}
  Refs = {"own"}
  Lagging = {}
  Edits = {"policy", "master"}
  Harvests = {FALSE}
  MaxEdits = 3
  MaxFaults = 0
PROPERTIES
  MasterRestored
CHECK_DEADLOCK FALSE
