\* A crowd of traces; something fails, and the process stops.
CONSTANTS
  r1 = r1
  k1 = k1
  c1 = c1
  None = None
  Rules = {r1}
  Traces = {k1}
  Clients = {c1}
  Kinds = {"email"}
  Handled = {"email"}
  Fors = {1}
  Intervals = {1}
  Crowded = TRUE
  Late = {0}
  FaultKinds = {"kill", "shutdown", "cut", "fetch", "full"}
  MaxFaults = 1
SPECIFICATION Spec
PROPERTIES
  FiringDoesNotRefire
  DeletedStaysDeleted
CHECK_DEADLOCK FALSE
