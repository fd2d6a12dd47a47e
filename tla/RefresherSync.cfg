SPECIFICATION FairSpec
CONSTANTS
  b1 = b1
  b2 = b2
  f1 = f1
  Backends = {b1, b2}
  Fires = {f1}
  MaxEdits = 1
  MaxFaults = 1
INVARIANTS
  TypeOK
  InSync
PROPERTIES
  Heals
  ImplementsPool
