\* Two workers: a post races the reclamation of its target.
CONSTANTS
  w1 = w1
  w2 = w2
  Workers <- MCWorkers
  NSlots <- MCNSlots
  MboxCap = 1
  MaxSends = 1
  UserOps <- MessagingOps
  SpawnThenWait = TRUE
SPECIFICATION Spec
INVARIANT NoNullMailbox
