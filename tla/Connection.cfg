CONSTANTS
  Session = {s1, s2}
  NoSession = NoSession
  StrandBound = 2
  Topic <- MCTopic
  Call = {c1}
  Endpoint = {e1, e2}
  Off = Off
  Manager = {m1}
  Dispatcher = {m1}
  Scanner = {d1}
  Changes = 1
  Scans = 1
SPECIFICATION Spec
INVARIANTS OneConnection SubscriptionsRestored StatusSettles
  PendingHasCaller DroppedIsQuiet RefreshTakesEffect
SYMMETRY SessionSymmetry
CHECK_DEADLOCK FALSE
