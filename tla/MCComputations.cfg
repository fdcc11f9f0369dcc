\* Up to four items per part, seven rows of metrics and one restart.
CONSTANTS
  NoValue = NoValue
  CountModulus = 65536
  OK = OK
  ERROR = ERROR
  UNSET = UNSET
  Failed = {}
  Prompted = {}
  Upper <- SomeUpper
  ContainsText = {}
  Like = {}
  Wild = {}
  Mixed = Mixed
  MaxWalk = 6
  Nothing = Nothing
  AttrAliases <- Aliases
  WordSize = 8
  Unspecified = 0
  NumberLabel <- SomeNumbers
  TextLabel <- Texts
  Inputs <- SomeInputs
  Pricings <- SomePricings
  Sessions = {s1, s2}
  Tools = {x, y}
  Bad = Bad
  Label = Warn
  Info = Info
  NoLevel = NoLevel
  MaxTime = 3
  NoName = NoName
  Inf = Inf
  c = c
  d = d
  h = h
  q = q
  a = a
  b = b
  le = le
  Requests <- SomeRequests
  Persistent = TRUE
  Window = 60
  Ahead = 1
  Lookback = 4
  Tolerance = 2
  MaxRows = 7
  MaxStops = 1
SPECIFICATION Spec
INVARIANTS
  RowOfBatch
  StatsAreExact
  ContextIsMainAgent
  SpellingDoesNotMatter
  IndexedIsFound
  GroupsAddUp
  RangeIsComplete
CHECK_DEADLOCK FALSE
