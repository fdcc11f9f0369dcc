\* Two requests of two groups each, HTTP with one retry, a channel of two.
CONSTANTS
  g1 = g1
  h1 = h1
  h2 = h2
  NoBatch = NoBatch
  Requests = {g1, h1}
  Proto <- MCProto
  Size <- MCSize
  MaxTries = 2
  BufSize = 2
SPECIFICATION FairSpec
INVARIANTS
  AnswersAreTrue
  PanicOnlyAfterTimeout
  SuccessReachesStore
PROPERTIES
  NothingHangs
CHECK_DEADLOCK FALSE
