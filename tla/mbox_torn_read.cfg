\* A sender's begin/add/end message against the owner's unlocked mbox_read: the rollback of an overflowed message after the owner read part of it.
CONSTANTS
  InitSize = 4
  MaxMboxSize = 8
  ReadLen = 2
  Messages <- MCMessages
  Pieces <- MCPieces
  MaxPosts = 3
  MaxPieces = 2
  Ops <- TornOps
SPECIFICATION Spec
INVARIANT AllOrNothing
