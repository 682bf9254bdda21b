\* Two tokens, one request at a time, two goroutines.
CONSTANTS
  t1 = t1
  t2 = t2
  g1 = g1
  g2 = g2
  q1 = q1
  Tokens = {t1, t2}
  Touches = {g1, g2}
  Requests = {q1}
  MaxTime = 2
SPECIFICATION Spec
SYMMETRY Symmetry
INVARIANTS
  ServedIsAuthorised
  LastUsedIsLatest
  SilenceMeansSaved
