\* A condition fires before it has held for for_duration.
CONSTANTS
  r1 = r1
  k1 = k1
  c1 = c1
  None = None
  Rules = {r1}
  Traces = {k1}
  Clients = {}
  Kinds = {"email"}
  Handled = {"email"}
  Fors = {3}
  Intervals = {1}
  Crowded = FALSE
  Late = {0}
  FaultKinds = {}
  MaxFaults = 0
SPECIFICATION Spec
PROPERTIES
  FiresOnlyAfterHolding
CHECK_DEADLOCK FALSE
