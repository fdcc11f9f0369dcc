\* The default store: GetTrace has an error for a trace that is not stored.
CONSTANTS
  t1 = t1
  t2 = t2
  Content <- TwoTraces
  AbsentIsError = TRUE
  NoFile = NoFile
  MaxChanges = 4
SPECIFICATION Spec
INVARIANT NewTracesAreImported
CHECK_DEADLOCK FALSE
