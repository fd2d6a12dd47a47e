SPECIFICATION Spec
CONSTANTS
  MaxReplicas = 2
  MaxEdits = 1
  MaxFaults = 0
PROPERTY CollectionWaitsForPods
CHECK_DEADLOCK FALSE
