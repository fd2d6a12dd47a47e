SPECIFICATION Spec
CONSTANTS
  n1 = n1
  n2 = n2
  Namespaces = {n1, n2}
  Refs = {n1, n2}
  Lagging = {"gateway"}
  Edits = {"policy", "retarget", "delete", "master", "class"}
  Harvests = {FALSE}
  MaxEdits = 3
  MaxFaults = 1
INVARIANTS
  TypeOK
  ModeExclusion
  FinalizerGuardsCrossNS
  CrossNSRolesFollowPolicy
SYMMETRY NamespaceSymmetry
CHECK_DEADLOCK FALSE
