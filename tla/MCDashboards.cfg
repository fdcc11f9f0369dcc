\* Two requests at a time, two faults.
CONSTANTS
  Handlers = {h1, h2}
  Ids = {d1, d2}
  Panels = {p1}
  Names = {n1, n2}
  Inputs <- SomeInputs
  Empty = Empty
  Broken = Broken
  MaxFaults = 2
SPECIFICATION Spec
SYMMETRY Symmetry
INVARIANTS
  LoneChangesApply
  NoOrphanPanels
PROPERTY GoneForGood
CHECK_DEADLOCK FALSE
