\* One trace whose batches may be sent twice, one fault, fair goroutines.
CONSTANTS
  t1 = t1
  t2 = t2
  m1 = m1
  s1 = s1
  NoValue = NoValue
  CountModulus = 65536
  Traces = {t1}
  Batches = {"calls", "onlyPriced"}
  Content <- TwoTraces
  Models = {m1}
  Prices = {0, 2}
  Unit = 4
  DefaultPrice <- PriceOne
  ConfigPrice <- NoPrices
  Cutoffs = {0, 2}
  MaxCount = 0
  MaxSends = 2
  MaxFaults = 1
SPECIFICATION LiveSpec
INVARIANTS
  TokensSettle
  CostsReconcile
PROPERTIES
  EventuallyCosted
CHECK_DEADLOCK FALSE
