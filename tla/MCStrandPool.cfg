CONSTANTS
  Strands = {s1, s2}
  Clients = {c1}
  WorkerCount = 2
  MaxTaskSize = 1
  MaxPosts = 3
  None = None
SPECIFICATION FairSpec
INVARIANTS TypeOK NoLostWakeup QueueBound
PROPERTIES SerialExecution ServesAll StopOutcome
