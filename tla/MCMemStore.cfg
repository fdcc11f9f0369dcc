\* Four batches of two traces, one model priced at a time.
CONSTANTS
  NoValue = NoValue
  CountModulus = 65536
  t1 = t1
  t2 = t2
  m1 = m1
  m2 = m2
  svcA = svcA
  s1 = s1
  e1 = e1
  c1 = c1
  k1 = k1
  x = x
  y = y
  OK = OK
  ERROR = ERROR
  INFO = INFO
  info = info
  USD = USD
  word = word
  glob = glob
  Mixed = Mixed
  Masked = Masked
  Batches = {"first", "late", "again", "other"}
  Content <- SomeBatches
  LogBatches <- SomeLogs
  Failed = {3, 4}
  Prompted = {2, 4}
  Upper <- Canonical
  ContainsText <- SomeTexts
  Like <- AllTexts
  Wild = {glob}
  Models = {m1, m2}
  Prices <- SomePrices
  Configs = {c1}
  Keys = {k1}
  Cutoffs = {0, 2}
  Counts = {0, 1}
  MaxLogs = 2
  MaxOps = 5
  MaxFaults = 1
  TraceQueries <- SomeTraceQueries
  SessionQueries <- SomeSessionQueries
  LogQueries <- SomeLogQueries
  Ranges <- SomeRanges
  PageNumbers = {0, 2}
  PageSizes = {1}
SPECIFICATION Spec
INVARIANTS
  RowIsAggregate
  CostSummaryAddsUp
  SettingsSurvive
  StoresAgree
CHECK_DEADLOCK FALSE
