CONSTANTS
  Run = {"r1", "r2", "r3", "r4", "p", "c"}
  Manual = {"r1", "r2", "r3", "r4", "p"}
  Cancellable = {"p", "c"}
  Http = {h1, h2}
  Starts = 1
  Cancels = 1
  Decisions = 2
  Injections = 0
  Restarts = 1
  Graph <- OperatorGraph
  Budget <- MCBudget
SPECIFICATION Spec
INVARIANTS TypeOK OnePlace ParentTold
PROPERTIES EndedRunStaysEnded DecisionRecorded DecideOnce
CHECK_DEADLOCK FALSE
