SPECIFICATION Spec
CONSTANTS
  n1 = n1
  n2 = n2
  Namespaces = {n1, n2}
  Refs = {n1, "own"}
  Lagging = {}
  Edits = {"policy", "retarget"}
  Harvests = {FALSE}
  MaxEdits = 3
  MaxFaults = 0
INVARIANTS
  CrossNSRolesFollowPolicy
CHECK_DEADLOCK FALSE
