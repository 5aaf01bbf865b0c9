CONSTANTS
  Session = {s1, s2}
  NoSession = NoSession
  StrandBound = 2
  Topic <- MCTopic
  Call = {c1}
  Endpoint = {e1, e2}
  Off = Off
  Manager = {m1, m2}
  Dispatcher = {}
  Scanner = {d1}
  Changes = 1
  Scans = 0
SPECIFICATION Spec
INVARIANTS RefreshTakesEffect

SYMMETRY SessionSymmetry
CHECK_DEADLOCK FALSE
