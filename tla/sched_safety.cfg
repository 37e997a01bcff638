\* One worker, every scheduler call: the process tree against the scheduler loop.
CONSTANTS
  w1 = w1
  w2 = w2
  Workers <- OneWorker
  NSlots <- MCNSlots
  MboxCap = 1
  MaxSends = 1
  UserOps <- AllOps
  SpawnThenWait = TRUE
SPECIFICATION Spec
INVARIANTS TypeOK ChildrenConsistent
