CONSTANTS
  Run = {"p", "c", "d"}
  Manual = {"p"}
  Cancellable = {}
  Http = {h1}
  Starts = 1
  Cancels = 0
  Decisions = 0
  Injections = 0
  Restarts = 0
  Graph <- CallGraph
  Budget <- MCBudget
SPECIFICATION FairSpec
INVARIANTS CyclesBounded SubflowSettled NoStrandedJoin
PROPERTIES PromiseKept RunEnds
CHECK_DEADLOCK FALSE
