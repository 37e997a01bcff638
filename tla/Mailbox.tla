------------------------------- MODULE Mailbox -------------------------------
(***************************************************************************)
(* A process mailbox (src/src/fifo.c and the mailbox functions of         *)
(* src/src/twk.c): a byte ring of `size' bytes, a power of two, holding at *)
(* most size-1 bytes.  Writers are other threads: twk_post_message writes  *)
(* a whole message under mbox_lock; twk_begin_message ... twk_end_message  *)
(* hold mbox_lock across several twk_add_message calls and roll `wpos'     *)
(* back if one did not fit.  The reader is the owning process's VM: its    *)
(* port calls mbox_read, which grows the ring under the lock but reads it  *)
(* WITHOUT the lock.  op_open_mbox, called by the same VM, grows the ring. *)
(*                                                                         *)
(* Ghost variables: `sent' is every byte of every delivered message, `got' *)
(* every byte the reader has taken, `cur' the bytes of the open message.   *)
(***************************************************************************)
EXTENDS Naturals, Sequences

CONSTANTS
  InitSize,       \* TWK_INI_MBOX_SIZE, a power of two
  MaxMboxSize,    \* TWK_MAX_MBOX_SIZE, a power of two
  ReadLen,        \* the size of the mailbox port's buffer (512 in op_open_mbox)
  Messages,       \* messages posted whole, as sequences of byte values
  Pieces,         \* the pieces twk_add_message appends
  MaxPosts,       \* bound on posts and begun messages
  MaxPieces,      \* bound on twk_add_message calls per message
  Ops             \* which of "post", "session", "read", "open" happen

Junk == 0   \* a byte of malloc'ed memory nothing has written

ASSUME Junk \notin UNION {{m[i] : i \in DOMAIN m} : m \in Messages \cup Pieces}

VARIABLES size, buf, wpos, rpos,   \* struct FIFO
          lastWpos, overflow,      \* proc->mbox_last_wpos, proc->mbox_overflow
          session,                 \* a writer holds mbox_lock between begin and end
          rpc,                     \* the reader's position in mbox_read
          cur, nadd, posts, sent, got

vars == <<size, buf, wpos, rpos, lastWpos, overflow, session, rpc,
          cur, nadd, posts, sent, got>>

Pos == 0 .. MaxMboxSize - 1

(* fifo_bytes and fifo_room; C's & (size-1) is % size for a power of two *)
Used == (wpos - rpos + size) % size
Room == size - 1 - Used

(* the bytes from rpos to wpos *)
Contents == [i \in 1 .. Used |-> buf[(rpos + i - 1) % size]]

RECURSIVE GrowToPow2(_, _)
GrowToPow2(a, b) == IF b < a THEN GrowToPow2(a, 2 * b) ELSE b

(* fifo_new's size: already a power of two, or grown to one *)
FifoNewSize(a) == GrowToPow2(a, 1)

CopyIn(b, at, s) ==
  [i \in DOMAIN b |-> IF at <= i /\ i < at + Len(s) THEN s[i - at + 1] ELSE b[i]]

(* mutant of FifoWritePos: `wpos &= size - 1' dropped *)
FifoWritePosNoMask(s) ==
  IF size - wpos >= Len(s) THEN wpos + Len(s) ELSE Len(s) - (size - wpos)

(* fifo_write of a sequence that fits: its new buffer and wpos *)
FifoWriteBuf(s) ==
  IF size - wpos >= Len(s)
  THEN CopyIn(buf, wpos, s)
  ELSE CopyIn(CopyIn(buf, wpos, SubSeq(s, 1, size - wpos)),
              0, SubSeq(s, size - wpos + 1, Len(s)))
FifoWritePos(s) ==
  IF size - wpos >= Len(s) THEN (wpos + Len(s)) % size
                           ELSE Len(s) - (size - wpos)

(* mutant of FifoReadBytes: the second memcpy starts one byte late *)
FifoReadBytesLate(n) ==
  IF size - rpos >= IF n > Used THEN Used ELSE n
  THEN [i \in 1 .. IF n > Used THEN Used ELSE n |-> buf[rpos + i - 1]]
  ELSE [i \in 1 .. IF n > Used THEN Used ELSE n |->
          IF i <= size - rpos THEN buf[rpos + i - 1] ELSE buf[i - (size - rpos)]]

(* fifo_read of up to n bytes: the bytes and the new rpos *)
ReadCount(n) == IF n > Used THEN Used ELSE n
FifoReadBytes(n) ==
  IF size - rpos >= ReadCount(n)
  THEN [i \in 1 .. ReadCount(n) |-> buf[rpos + i - 1]]
  ELSE [i \in 1 .. ReadCount(n) |->
          IF i <= size - rpos THEN buf[rpos + i - 1] ELSE buf[i - (size - rpos) - 1]]
FifoReadPos(n) ==
  IF size - rpos >= ReadCount(n) THEN (rpos + ReadCount(n)) % size
                                 ELSE ReadCount(n) - (size - rpos)

(* fifo_copy(old, newSize): read everything into a fresh ring *)
FifoCopy(newSize) ==
  /\ size' = newSize
  /\ buf' = [i \in Pos |-> IF i < Used THEN FifoReadBytes(newSize)[i + 1] ELSE Junk]
  /\ rpos' = 0
  /\ wpos' = Used

Init ==
  /\ size = InitSize
  /\ buf = [i \in Pos |-> Junk]
  /\ wpos = 0 /\ rpos = 0
  /\ lastWpos = 0 /\ overflow = FALSE
  /\ session = FALSE
  /\ rpc = "idle"
  /\ cur = <<>> /\ nadd = 0 /\ posts = 0
  /\ sent = <<>> /\ got = <<>>

(* twk_post_message: under mbox_lock, all of the message or none of it *)
PostMessage(m) ==
  /\ "post" \in Ops /\ ~session /\ posts < MaxPosts
  /\ posts' = posts + 1
  /\ IF Room >= Len(m)
     THEN /\ buf' = FifoWriteBuf(m) /\ wpos' = FifoWritePos(m)
          /\ sent' = sent \o m
     ELSE UNCHANGED <<buf, wpos, sent>>
  /\ UNCHANGED <<size, rpos, lastWpos, overflow, session, rpc, cur, nadd, got>>

(* twk_begin_message: takes mbox_lock and keeps it *)
BeginMessage ==
  /\ "session" \in Ops /\ ~session /\ posts < MaxPosts
  /\ posts' = posts + 1
  /\ session' = TRUE
  /\ lastWpos' = wpos /\ overflow' = FALSE
  /\ cur' = <<>> /\ nadd' = 0
  /\ UNCHANGED <<size, buf, wpos, rpos, rpc, sent, got>>

(* twk_add_message *)
AddMessage(p) ==
  /\ session /\ nadd < MaxPieces
  /\ nadd' = nadd + 1
  /\ IF ~overflow /\ Room >= Len(p)
     THEN /\ buf' = FifoWriteBuf(p) /\ wpos' = FifoWritePos(p)
          /\ cur' = cur \o p
          /\ UNCHANGED overflow
     ELSE /\ overflow' = TRUE
          /\ UNCHANGED <<buf, wpos, cur>>
  /\ UNCHANGED <<size, rpos, lastWpos, session, rpc, posts, sent, got>>

(* mutant of EndMessage: no rollback of wpos on overflow *)
EndNoRollback ==
  /\ session
  /\ session' = FALSE
  /\ IF overflow THEN UNCHANGED sent ELSE sent' = sent \o cur
  /\ UNCHANGED <<size, buf, wpos, rpos, lastWpos, overflow, rpc, cur, nadd, posts, got>>

(* twk_end_message: roll back on overflow, release mbox_lock *)
EndMessage ==
  /\ session
  /\ session' = FALSE
  /\ IF overflow THEN wpos' = lastWpos /\ UNCHANGED sent
                 ELSE sent' = sent \o cur /\ UNCHANGED wpos
  /\ UNCHANGED <<size, buf, rpos, lastWpos, overflow, rpc, cur, nadd, posts, got>>

(* mbox_read, first half: the unlocked test for growing the ring *)
ReadCheck ==
  /\ "read" \in Ops /\ rpc = "idle"
  /\ rpc' = IF Used > size \div 2 /\ size < MaxMboxSize THEN "resize" ELSE "read"
  /\ UNCHANGED <<size, buf, wpos, rpos, lastWpos, overflow, session, cur, nadd,
                 posts, sent, got>>

(* mbox_read: the resize under mbox_lock *)
ReadResize ==
  /\ rpc = "resize" /\ ~session
  /\ FifoCopy(size * 2)
  /\ rpc' = "read"
  /\ UNCHANGED <<lastWpos, overflow, session, cur, nadd, posts, sent, got>>

(* mbox_read: the fifo_read outside the lock *)
ReadFifo ==
  /\ rpc = "read"
  /\ got' = got \o FifoReadBytes(ReadLen)
  /\ rpos' = FifoReadPos(ReadLen)
  /\ rpc' = "idle"
  /\ UNCHANGED <<size, buf, wpos, lastWpos, overflow, session, cur, nadd, posts, sent>>

(* op_open_mbox with a size argument: fifo_copy under mbox_lock if larger *)
OpenMbox(a) ==
  /\ "open" \in Ops /\ rpc = "idle" /\ ~session
  /\ IF a > size THEN FifoCopy(FifoNewSize(a)) ELSE UNCHANGED <<size, buf, wpos, rpos>>
  /\ UNCHANGED <<lastWpos, overflow, session, rpc, cur, nadd, posts, sent, got>>

Next ==
  \/ \E m \in Messages : PostMessage(m)
  \/ BeginMessage
  \/ \E p \in Pieces : AddMessage(p)
  \/ EndMessage
  \/ ReadCheck \/ ReadResize \/ ReadFifo
  \/ \E a \in 1 .. MaxMboxSize : OpenMbox(a)

Spec == Init /\ [][Next]_vars
=============================================================================
