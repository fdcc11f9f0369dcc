\* Two concurrent callers, three batches through a channel of two.
CONSTANTS
  c1 = c1
  c2 = c2
  b1 = b1
  b2 = b2
  b3 = b3
  NoBatch = NoBatch
  Callers = {c1, c2}
  Batches = {b1, b2, b3}
  BufSize = 2
SPECIFICATION FairSpec
INVARIANTS
  InOrderOnce
  ShutdownDrains
PROPERTIES
  LateCallsRefused
  ImplementsDeliveryLog
CHECK_DEADLOCK FALSE
