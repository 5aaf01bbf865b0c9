CONSTANTS
  Robot = {b1, b2}
  j1 = j1
  j2 = j2
  Job = {j1, j2}
  Task = {j1, j2, t1, t2}
  Strand = {s1, s2}
  NoStrand = NoStrand
  ProtocolThreads = 2
  BlockingThreads = 1
  Profile <- MCProfile
  StepTimeouts = {1, 2}
  StepRetries = {0, 1}
  Timeouts = {2, 4}
  Grace = 1
SPECIFICATION FairSpec
INVARIANTS RuntimeTypeOK Drained SuccessIsEarned StartedOnce DeadlineKept
PROPERTIES RobotQueuesSpec JobsAnswered
CHECK_DEADLOCK FALSE
