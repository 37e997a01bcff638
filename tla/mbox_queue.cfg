\* Posts, begin/add/end messages, reads with mbox_read's resize, and op_open_mbox, on a ring of 4 bytes that may grow to 8; the owner reads while no message is open.
CONSTANTS
  InitSize = 4
  MaxMboxSize = 8
  ReadLen = 2
  Messages <- MCMessages
  Pieces <- MCPieces
  MaxPosts = 3
  MaxPieces = 2
  Ops <- AllOps
SPECIFICATION Spec
ACTION_CONSTRAINT ReadsOutsideMessages
INVARIANT TypeOK
PROPERTY QueueRefinement
