SPECIFICATION Spec
CONSTANTS
  Namespaces = {}
  Refs = {"own"}
  Lagging = {}
  Edits = {"policy"}
  Harvests = {FALSE}
  MaxEdits = 1
  MaxFaults = 0
PROPERTIES
  NetworkPolicyGuardsBackends
CHECK_DEADLOCK FALSE
