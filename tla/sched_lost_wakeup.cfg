\* One worker: the scheduler loop's signal is lost and a RUNNABLE process never runs.
CONSTANTS
  w1 = w1
  w2 = w2
  Workers <- OneWorker
  NSlots <- MCNSlots
  MboxCap = 1
  MaxSends = 0
  UserOps <- TreeOps
  SpawnThenWait = TRUE
SPECIFICATION Spec
PROPERTY RunnableRuns
