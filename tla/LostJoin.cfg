CONSTANTS
  Run = {"r1"}
  Manual = {"r1"}
  Cancellable = {}
  Http = {h1}
  Starts = 1
  Cancels = 0
  Decisions = 0
  Injections = 0
  Restarts = 0
  Graph <- LostJoinGraph
  Budget <- MCBudget
SPECIFICATION Spec
INVARIANTS NoStrandedJoin
CHECK_DEADLOCK FALSE
