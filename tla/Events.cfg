CONSTANTS
  Run = {"r1", "r2", "r3", "r4"}
  Manual = {"r1"}
  Cancellable = {}
  Http = {h1}
  Starts = 1
  Cancels = 0
  Decisions = 0
  Injections = 1
  Restarts = 0
  Graph <- EventGraph
  Budget <- MCBudget
SPECIFICATION Spec
INVARIANTS OneOpenCommand RetriesBounded
PROPERTIES PromiseKept
CHECK_DEADLOCK FALSE
