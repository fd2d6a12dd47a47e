SPECIFICATION Spec
CONSTANTS
  b1 = b1
  f1 = f1
  Backends = {b1}
  Fires = {f1}
  MaxEdits = 0
  MaxFaults = 0
PROPERTIES
  NoSpuriousRestart
