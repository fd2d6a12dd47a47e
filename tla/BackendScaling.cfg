SPECIFICATION FairSpec
CONSTANTS
  MaxReplicas = 2
  MaxEdits = 2
  MaxFaults = 1
INVARIANTS
  TypeOK
  PodServesItsKey
  WantedKeyIsKept
  NothingIsOverlooked
PROPERTIES
  Settles
CHECK_DEADLOCK FALSE
