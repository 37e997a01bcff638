---------------------------- MODULE MC_Scheduler ----------------------------
(* Instances of Scheduler for TLC: three process slots (the root and two  *)
(* children, enough for a parent to have a child and a grandchild or two  *)
(* siblings) and two worker threads (the least that can race).            *)
EXTENDS Scheduler, TLC

CONSTANTS w1, w2

MCWorkers == {w1, w2}
OneWorker == {w1}
MCNSlots  == 3

\* The programs of a messaging service: processes that spawn, send,
\* receive and exit, with no `wait' and no failing run.
MessagingOps == {"spawn", "send", "recv", "exit"}
\* The same with timeouts, the other way a WAITING process is scheduled.
ServiceOps == MessagingOps \cup {"timeout"}
\* Every scheduler call a program can make, failing runs included.
AllOps == {"spawn", "send", "exit", "wait", "timeout", "recv", "fail"}

\* Programs that only build a process tree: spawn children, then wait for
\* them or exit.
TreeOps == {"spawn", "wait", "exit", "recv"}
\* The same, with runs that may end in an uncaught error.
TreeFailOps == TreeOps \cup {"fail"}

WorkerSymmetry == Permutations(MCWorkers)
=============================================================================
