\* Two workers, programs that keep the spawn contract: one VM run by two threads.
CONSTANTS
  w1 = w1
  w2 = w2
  Workers <- MCWorkers
  NSlots <- MCNSlots
  MboxCap = 1
  MaxSends = 0
  UserOps <- TreeOps
  SpawnThenWait = TRUE
SPECIFICATION Spec
INVARIANT NoDoubleRun
