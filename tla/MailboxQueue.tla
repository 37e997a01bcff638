---------------------------- MODULE MailboxQueue ----------------------------
(***************************************************************************)
(* What a process mailbox promises: a bounded queue of bytes.  A post     *)
(* appends a whole message or nothing; the owner reads a prefix of what   *)
(* is queued.  `got' is everything read so far.                           *)
(***************************************************************************)
EXTENDS Naturals, Sequences

CONSTANTS Messages, Capacity   \* the messages posted, the bytes it can hold

VARIABLES queue, got

Put(m) ==
  /\ Len(queue) + Len(m) <= Capacity
  /\ queue' = queue \o m
  /\ UNCHANGED got

Take(n) ==
  /\ n \in 1 .. Len(queue)
  /\ got' = got \o SubSeq(queue, 1, n)
  /\ queue' = SubSeq(queue, n + 1, Len(queue))

Next == \/ \E m \in Messages : Put(m)
        \/ \E n \in 1 .. Capacity : Take(n)

Spec == queue = <<>> /\ got = <<>> /\ [][Next]_<<queue, got>>
=============================================================================
