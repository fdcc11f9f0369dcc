\* Two requests for one trace of up to two spans that is deleted once.
CONSTANTS
  q1 = q1
  q2 = q2
  t1 = t1
  s1 = s1
  s2 = s2
  c1 = c1
  c2 = c2
  None = None
  Requests = {q1, q2}
  Traces = {t1}
  Spans = {s1, s2}
  Configs = {c1, c2}
  MaxEra = 1
SPECIFICATION FairSpec
INVARIANTS
  OneCallPerTrace
  AtMostOneDefault
PROPERTIES
  NewerDiagnosisWins
  CurrentResultSparesTheCall
  FlightsLand
CHECK_DEADLOCK FALSE
