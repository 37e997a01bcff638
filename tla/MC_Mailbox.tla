------------------------------ MODULE MC_Mailbox ------------------------------
(***************************************************************************)
(* Mailbox instantiated for TLC: a ring of 4 bytes that may grow to 8,    *)
(* messages of one and two bytes with distinct byte values, so that a     *)
(* byte out of place or out of order shows in `got'.                      *)
(***************************************************************************)
EXTENDS Mailbox

MCMessages == {<<1, 2>>, <<3>>}
MCPieces   == {<<4, 5>>, <<6>>}

PostOps    == {"post", "read", "open"}
SessionOps == {"post", "session"}
TornOps    == {"session", "read"}
AllOps     == PostOps \cup SessionOps

(* A message built with twk_begin_message: up to MaxPieces pieces.        *)
RECURSIVE Concats(_)
Concats(k) == IF k = 0 THEN {<<>>}
              ELSE Concats(k - 1) \cup {c \o p : c \in Concats(k - 1), p \in Pieces}

(* The owner's reads and a sender's open message never overlap: the      *)
(* condition under which the ring is a queue (mbox_torn_read shows what   *)
(* mbox_read, which takes no lock, does otherwise).                        *)
ReadsOutsideMessages == session' => rpc = "idle" /\ rpc' = "idle"

(* the type of every variable *)
TypeOK ==
  /\ size \in {2 ^ k : k \in 0 .. 3} /\ size <= MaxMboxSize
  /\ buf \in [Pos -> {Junk} \cup UNION {{m[i] : i \in DOMAIN m} : m \in Messages \cup Pieces}]
  /\ wpos \in 0 .. size - 1 /\ rpos \in 0 .. size - 1
  /\ lastWpos \in Pos /\ overflow \in BOOLEAN /\ session \in BOOLEAN
  /\ rpc \in {"idle", "resize", "read"}
  /\ nadd \in 0 .. MaxPieces /\ posts \in 0 .. MaxPosts

(* What the queue holds: while a message is open, only the bytes before   *)
(* mbox_last_wpos; the open message joins it at twk_end_message, or never *)
(* when it overflowed and was rolled back.                                 *)
Committed == IF session THEN SubSeq(Contents, 1, (lastWpos - rpos + size) % size)
                        ELSE Contents

(* twk_post_message, twk_begin/add/end_message, mbox_read and            *)
(* op_open_mbox, seen through Committed, implement a bounded byte queue:  *)
(* bytes leave in the order they entered, a message enters whole, through *)
(* the wrap-around and every resize.                                      *)
Queue == INSTANCE MailboxQueue WITH queue <- Committed,
           Messages <- Messages \cup Concats(MaxPieces),
           Capacity <- MaxMboxSize - 1
QueueRefinement == Queue!Spec

(* "All written or none" (twk_post_message's comment), and the rollback of *)
(* twk_end_message: whenever no message is open, what the reader took      *)
(* followed by what is still queued is exactly the delivered messages.     *)
AllOrNothing == ~session => got \o Contents = sent
=============================================================================
