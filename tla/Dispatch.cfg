CONSTANTS
  Null = Null
  Nobody = Nobody
  NoGoal = NoGoal
  a = a
  b = b
  s = s
  p = p
  n = n
  q = q
  arm = arm
  tool = tool
  horn = horn
  base = base
  grip = grip
  r1 = r1
  r2 = r2
  Robot = {r1, r2}
  Server <- MCServer
  Command <- MCCommand
  RobotOf <- MCRobotOf
  ServerOf <- MCServerOf
  Adapter <- MCAdapter
  Specs <- MCSpecs
  Anonymous = {base}
  Initial <- MCInitial
  Starts <- MCStarts
  Delayed <- MCDelayed
  DelayAfter = b
  Worker = {w1, w2}
  Says <- MCSays
  Drops = 1
SPECIFICATION Spec
INVARIANTS OwnVerdict FiringsEarned OutboxSettles NoVerdictLost
SYMMETRY WorkerSymmetry
CHECK_DEADLOCK FALSE
