\* One rule that a user changes, nothing fails.
CONSTANTS
  r1 = r1
  k1 = k1
  c1 = c1
  None = None
  Rules = {r1}
  Traces = {k1}
  Clients = {c1}
  Kinds = {"email"}
  Handled = {"email"}
  Fors = {2}
  Intervals = {2, 3}
  Crowded = FALSE
  Late = {0, 1}
  FaultKinds = {}
  MaxFaults = 0
SPECIFICATION LiveSpec
INVARIANTS
  NotificationMatchesState
PROPERTIES
  FiringSeenTwice
  EvaluatedAgain
  QuietAfterDelete
CHECK_DEADLOCK FALSE
