\* Two traces, every batch sent once, two faults.
CONSTANTS
  t1 = t1
  t2 = t2
  m1 = m1
  s1 = s1
  NoValue = NoValue
  CountModulus = 65536
  Traces = {t1, t2}
  Batches = {"rootFirst", "calls", "other"}
  Content <- TwoTraces
  Models = {m1}
  Prices = {0, 2}
  Unit = 4
  DefaultPrice <- PriceOne
  ConfigPrice <- PriceTwo
  Cutoffs = {0, 2}
  MaxCount = 1
  MaxSends = 1
  MaxFaults = 2
SPECIFICATION Spec
INVARIANTS
  CostIsOwed
  SpansHaveTraces
  RowFitsSpans
CHECK_DEADLOCK FALSE
