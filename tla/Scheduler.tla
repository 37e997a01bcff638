----------------------------- MODULE Scheduler -----------------------------
(***************************************************************************)
(* The process scheduler of twk.c: the static process table, the worker    *)
(* threads of thread_main, the scheduler loop sched_loop, and the Lisp     *)
(* programs the workers run, as far as they call into the scheduler        *)
(* (spawn, send-message, exit, wait, set-timeout, reading the mailbox).    *)
(*                                                                         *)
(* The code reads and writes proc->state, proc->children and proc->mbox    *)
(* from several threads, mostly without a lock.  Every place where the     *)
(* code reads such a field and acts on it later is split into a read step *)
(* and a write step, so that the model has the interleavings the code has. *)
(* Sections under one mutex (runnable_lock, parental_lock, mbox_lock,      *)
(* pid_lock) are single steps.                                             *)
(*                                                                         *)
(* A mailbox is abstracted to the number of messages in it (its bytes are *)
(* the subject of module Mailbox); NoMbox stands for proc->mbox == NULL.   *)
(***************************************************************************)
EXTENDS Naturals, Sequences, SequencesExt, FiniteSets

CONSTANTS
  NSlots,      \* MAX_PROCESS: size of the static process table
  Workers,     \* the MAX_THREADS worker threads
  MboxCap,     \* messages a mailbox holds before twk_post_message fails
  MaxSends,    \* bound on send-message calls in a behaviour
  UserOps,     \* the scheduler calls the Lisp programs make
  SpawnThenWait \* programs keep op_spawn's contract: a run that spawns
                \* ends with its process PENDING (wait) or DONE (exit)

ASSUME NSlots \in Nat \ {0} /\ MboxCap \in Nat \ {0} /\ MaxSends \in Nat
ASSUME SpawnThenWait \in BOOLEAN
ASSUME UserOps \subseteq {"spawn", "send", "exit", "wait", "timeout", "recv", "fail"}

Slots  == 0 .. NSlots - 1
Root   == 0           \* processes[0]: the "init" process of twk_start_threads
NoProc == NSlots      \* a NULL struct twk_process pointer
NoMbox == MboxCap + 1 \* proc->mbox == NULL

\* enum twk_process_state
States == {"none", "created", "waiting", "runnable", "running",
           "pending", "done", "shutdown"}

VARIABLES
  state,     \* proc->state
  parent,    \* proc->parent
  children,  \* proc->children, newest first (linked through sib_next)
  mbox,      \* messages in proc->mbox, or NoMbox
  timer,     \* proc->sched_time > 0
  initDone,  \* proc->run has become process_run (process_init succeeded)
  wpc,       \* program counter of each worker thread
  wproc,     \* the process a worker runs (thread->proc / local proc)
  wok,       \* lisp_try returned a value: the run did not fail
  wtgt,      \* the process a worker is posting a message to
  wnext,     \* the state thread_main decided to store after the run
  spc,       \* program counter of the scheduler loop
  sidx,      \* the slot the scheduler loop looks at next
  stgt,      \* the slot the scheduler loop is about to make runnable
  last,      \* the static `last' of find_runnable
  nextPid,   \* next_pid % MAX_PROCESS of twk_create_process
  sends,     \* send-message calls so far (model bound)
  fault      \* why the runtime aborted: "none", "null_mbox" or "no_slot"

procVars   == <<state, parent, children, mbox, timer, initDone>>
workerVars == <<wpc, wproc, wok, wtgt, wnext>>
schedVars  == <<spc, sidx, stgt, last, nextPid>>
vars == <<procVars, workerVars, schedVars, sends, fault>>

WorkerPcs == {"check", "wait", "sleep", "run", "post", "post_sched",
              "post_set", "spawn_init", "activate", "finish", "store"}

-----------------------------------------------------------------------------
(* Helpers *)

Next1(i) == (i + 1) % NSlots

\* The runtime has not aborted.
Live == fault = "none"

HasMail(s) == mbox[s] \in 1 .. MboxCap

\* pthread_cond_signal(&runnable_notify) without holding runnable_lock:
\* wakes one worker blocked in pthread_cond_wait, if there is one; a worker
\* that has found nothing runnable but not yet blocked misses it.
Signal(pc) ==
  IF \E w \in Workers : pc[w] = "sleep"
  THEN \E w \in {v \in Workers : pc[v] = "sleep"} : wpc' = [pc EXCEPT ![w] = "check"]
  ELSE wpc' = pc

\* find_runnable: the first RUNNABLE slot after `last', circularly.
FirstRunnable ==
  LET dist(j) == (j - last - 1 + NSlots) % NSlots
      cands   == {j \in Slots : state[j] = "runnable"}
  IN  CHOOSE j \in cands : \A k \in cands : dist(j) <= dist(k)

\* twk_create_process's scan under pid_lock: the first NONE slot from next_pid.
FirstFree ==
  LET dist(j) == (j - nextPid + NSlots) % NSlots
      cands   == {j \in Slots : state[j] = "none"}
  IN  CHOOSE j \in cands : \A k \in cands : dist(j) <= dist(k)

-----------------------------------------------------------------------------
Init ==
  \* twk_start_threads: create "init" in slot 0 and twk_sched(proc, true)
  /\ state    = [s \in Slots |-> IF s = Root THEN "runnable" ELSE "none"]
  /\ parent   = [s \in Slots |-> NoProc]
  /\ children = [s \in Slots |-> <<>>]
  /\ mbox     = [s \in Slots |-> IF s = Root THEN 0 ELSE NoMbox]
  /\ timer    = [s \in Slots |-> FALSE]
  /\ initDone = [s \in Slots |-> s = Root]
  /\ wpc   = [w \in Workers |-> "check"]
  /\ wproc = [w \in Workers |-> NoProc]
  /\ wok   = [w \in Workers |-> TRUE]
  /\ wtgt  = [w \in Workers |-> NoProc]
  /\ wnext = [w \in Workers |-> "keep"]
  /\ spc = "scan" /\ sidx = 0 /\ stgt = NoProc
  /\ last = 0 /\ nextPid = 1 % NSlots
  /\ sends = 0 /\ fault = "none"

-----------------------------------------------------------------------------
(***************************************************************************)
(* Worker threads: thread_main.                                            *)
(***************************************************************************)

\* Under runnable_lock: take the next RUNNABLE process, or get ready to
\* block in pthread_cond_wait.  The first run of a spawned process is
\* process_init, which fails unless the process owning the spawned
\* procedure (its parent) is PENDING or DONE.
FetchRunnable(w) ==
  /\ wpc[w] = "check" /\ spc /= "done" /\ Live
  /\ IF \E j \in Slots : state[j] = "runnable"
     THEN LET j    == FirstRunnable
              init == parent[j] /= NoProc /\ ~initDone[j]
              ok   == ~init \/ state[parent[j]] \in {"pending", "done"}
          IN  /\ state' = [state EXCEPT ![j] = "running"]
              /\ last' = j
              /\ wproc' = [wproc EXCEPT ![w] = j]
              /\ initDone' = [initDone EXCEPT ![j] = @ \/ ok]
              /\ wok' = [wok EXCEPT ![w] = ok]
              /\ wpc' = [wpc EXCEPT ![w] = IF ok THEN "run" ELSE "activate"]
     ELSE /\ wpc' = [wpc EXCEPT ![w] = "wait"]
          /\ UNCHANGED <<state, last, wproc, initDone, wok>>
  /\ UNCHANGED <<parent, children, mbox, timer, wtgt, wnext, spc, sidx, stgt,
                 nextPid, sends, fault>>

\* pthread_cond_wait: the worker now blocks until signalled.
Block(w) ==
  /\ wpc[w] = "wait" /\ Live
  /\ wpc' = [wpc EXCEPT ![w] = "sleep"]
  /\ UNCHANGED <<procVars, wproc, wok, wtgt, wnext, schedVars, sends, fault>>

\* The steps of a Lisp program running on worker w in process wproc[w].
Running(w) == wpc[w] = "run" /\ Live

\* op_spawn -> twk_create_process: claim the first NONE slot under pid_lock,
\* then memset the slot outside the lock (its state reads NONE again).  With
\* no NONE slot it returns NULL and assert(child != NULL) aborts.
SpawnNoSlot(w) ==
  /\ Running(w) /\ "spawn" \in UserOps
  /\ \A j \in Slots : state[j] /= "none"
  /\ fault' = "no_slot"
  /\ UNCHANGED <<procVars, workerVars, schedVars, sends>>

Spawn(w) ==
  /\ Running(w) /\ "spawn" \in UserOps
  /\ \E j \in Slots : state[j] = "none"
  /\ LET j == FirstFree IN
     /\ state'    = [state EXCEPT ![j] = "none"]
     /\ parent'   = [parent EXCEPT ![j] = NoProc]
     /\ children' = [children EXCEPT ![j] = <<>>]
     /\ mbox'     = [mbox EXCEPT ![j] = NoMbox]
     /\ timer'    = [timer EXCEPT ![j] = FALSE]
     /\ initDone' = [initDone EXCEPT ![j] = FALSE]
     /\ nextPid'  = Next1(j)
     /\ wtgt'     = [wtgt EXCEPT ![w] = j]
     /\ wpc'      = [wpc EXCEPT ![w] = "spawn_init"]
  /\ UNCHANGED <<wproc, wok, wnext, spc, sidx, stgt, last, sends, fault>>

\* The rest of twk_create_process (new mailbox, state CREATED) and of
\* op_spawn: link the child at the head of the children list under
\* parental_lock and post the argument list to it (it is CREATED, so the
\* post does not schedule it).
SpawnInit(w) ==
  /\ wpc[w] = "spawn_init" /\ Live
  /\ LET j == wtgt[w]
         p == wproc[w]
     IN  /\ state'    = [state EXCEPT ![j] = "created"]
         /\ mbox'     = [mbox EXCEPT ![j] = 1]
         /\ parent'   = [parent EXCEPT ![j] = p]
         /\ children' = [children EXCEPT ![p] = Cons(j, @)]
  /\ wpc' = [wpc EXCEPT ![w] = "run"]
  /\ UNCHANGED <<timer, initDone, wproc, wok, wtgt, wnext, schedVars, sends, fault>>

\* op_send_message to a live pid, then the unlocked checks at the top of
\* twk_post_message; a failed check returns false to the program.
Send(w) ==
  /\ Running(w) /\ "send" \in UserOps /\ sends < MaxSends
  /\ \E t \in Slots :
       /\ state[t] /= "none"
       /\ IF mbox[t] = NoMbox \/ state[t] \in {"done", "shutdown", "none"}
          THEN UNCHANGED <<wpc, wtgt>>
          ELSE /\ wpc' = [wpc EXCEPT ![w] = "post"]
               /\ wtgt' = [wtgt EXCEPT ![w] = t]
  /\ sends' = sends + 1
  /\ UNCHANGED <<procVars, wproc, wok, wnext, schedVars, fault>>

\* Under mbox_lock: write the message if there is room.  When the mailbox
\* has been deleted since the check, the "mbox full" log line evaluates
\* fifo_bytes(proc->mbox) on NULL.
PostWrite(w) ==
  /\ wpc[w] = "post" /\ Live
  /\ LET t == wtgt[w] IN
     CASE mbox[t] = NoMbox ->
            /\ fault' = "null_mbox"
            /\ UNCHANGED <<mbox, wpc>>
       [] mbox[t] < MboxCap ->
            /\ mbox' = [mbox EXCEPT ![t] = @ + 1]
            /\ wpc' = [wpc EXCEPT ![w] = "post_sched"]
            /\ UNCHANGED fault
       [] OTHER ->
            /\ wpc' = [wpc EXCEPT ![w] = "run"]
            /\ UNCHANGED <<mbox, fault>>
  /\ UNCHANGED <<state, parent, children, timer, initDone, wproc, wok, wtgt,
                 wnext, schedVars, sends>>

\* After the unlock: `ok && proc->state == WAITING', then twk_sched's own
\* check of CREATED or WAITING; the store of RUNNABLE comes later.
PostSched(w) ==
  /\ wpc[w] = "post_sched" /\ Live
  /\ wpc' = [wpc EXCEPT ![w] = IF state[wtgt[w]] = "waiting" THEN "post_set" ELSE "run"]
  /\ UNCHANGED <<procVars, wproc, wok, wtgt, wnext, schedVars, sends, fault>>

\* twk_sched(proc, true): store RUNNABLE and signal runnable_notify.
PostSet(w) ==
  /\ wpc[w] = "post_set" /\ Live
  /\ state' = [state EXCEPT ![wtgt[w]] = "runnable"]
  /\ Signal([wpc EXCEPT ![w] = "run"])
  /\ UNCHANGED <<parent, children, mbox, timer, initDone, wproc, wok, wtgt,
                 wnext, schedVars, sends, fault>>

\* op_exit and op_wait store the state of the running process.
Exit(w) ==
  /\ Running(w) /\ "exit" \in UserOps
  /\ state' = [state EXCEPT ![wproc[w]] = "done"]
  /\ UNCHANGED <<parent, children, mbox, timer, initDone, workerVars, schedVars,
                 sends, fault>>

Wait(w) ==
  /\ Running(w) /\ "wait" \in UserOps
  /\ state' = [state EXCEPT ![wproc[w]] = "pending"]
  /\ UNCHANGED <<parent, children, mbox, timer, initDone, workerVars, schedVars,
                 sends, fault>>

\* op_set_timeout: a positive delay sets sched_time, a non-positive clears it.
SetTimeout(w) ==
  /\ Running(w) /\ "timeout" \in UserOps
  /\ timer' = [timer EXCEPT ![wproc[w]] = ~@]
  /\ UNCHANGED <<state, parent, children, mbox, initDone, workerVars, schedVars,
                 sends, fault>>

\* Variant of Recv that reads without checking the mailbox is non-empty.
RecvUnchecked(w) ==
  /\ Running(w) /\ "recv" \in UserOps
  /\ mbox' = [mbox EXCEPT ![wproc[w]] = @ - 1]
  /\ UNCHANGED <<state, parent, children, timer, initDone, workerVars, schedVars,
                 sends, fault>>

\* mbox_read through the mailbox port: consume one message.
Recv(w) ==
  /\ Running(w) /\ "recv" \in UserOps
  /\ HasMail(wproc[w])
  /\ mbox' = [mbox EXCEPT ![wproc[w]] = @ - 1]
  /\ UNCHANGED <<state, parent, children, timer, initDone, workerVars, schedVars,
                 sends, fault>>

\* The run returns; lisp_try yields NULL when it ended in an uncaught error.
\* Children still CREATED are the ones spawned in this run.
Return(w) ==
  /\ Running(w)
  /\ \E ok \in IF "fail" \in UserOps THEN BOOLEAN ELSE {TRUE} :
       /\ ok /\ SpawnThenWait =>
            \A i \in 1 .. Len(children[wproc[w]]) :
              state[children[wproc[w]][i]] = "created" =>
                state[wproc[w]] \in {"pending", "done"}
       /\ wok' = [wok EXCEPT ![w] = ok]
  /\ wpc' = [wpc EXCEPT ![w] = "activate"]
  /\ UNCHANGED <<procVars, wproc, wtgt, wnext, schedVars, sends, fault>>

\* After lisp_try: if the process has children, make the leading CREATED
\* children (the newest, the list is newest first) RUNNABLE under
\* parental_lock and signal runnable_notify.
ActivateChildren(w) ==
  /\ wpc[w] = "activate" /\ Live
  /\ LET cs  == children[wproc[w]]
         stop == SelectInSeq(cs, LAMBDA c : state[c] /= "created")
         k    == IF stop = 0 THEN Len(cs) ELSE stop - 1
         new  == {cs[i] : i \in 1 .. k}
         pc   == [wpc EXCEPT ![w] = "finish"]
     IN  /\ state' = [s \in Slots |-> IF s \in new THEN "runnable" ELSE state[s]]
         /\ IF new /= {} THEN Signal(pc) ELSE wpc' = pc
  /\ UNCHANGED <<parent, children, mbox, timer, initDone, wproc, wok, wtgt,
                 wnext, schedVars, sends, fault>>

\* The unlocked reads of proc->state and proc->children that choose the
\* state thread_main stores last.
DecideState(w) ==
  /\ wpc[w] = "finish" /\ Live
  /\ LET p == wproc[w] IN
     wnext' = [wnext EXCEPT ![w] =
                 CASE ~wok[w] -> IF children[p] = <<>> THEN "shutdown" ELSE "done"
                   [] state[p] = "done" /\ children[p] = <<>> -> "shutdown"
                   [] state[p] = "running" -> "waiting"
                   [] OTHER -> "keep"]
  /\ wpc' = [wpc EXCEPT ![w] = "store"]
  /\ UNCHANGED <<procVars, wproc, wok, wtgt, schedVars, sends, fault>>

\* The store itself, and back to the top of the loop.
StoreState(w) ==
  /\ wpc[w] = "store" /\ Live
  /\ state' = IF wnext[w] = "keep" THEN state
              ELSE [state EXCEPT ![wproc[w]] = wnext[w]]
  /\ wpc'   = [wpc EXCEPT ![w] = "check"]
  /\ wproc' = [wproc EXCEPT ![w] = NoProc]
  /\ UNCHANGED <<parent, children, mbox, timer, initDone, wok, wtgt, wnext,
                 schedVars, sends, fault>>

-----------------------------------------------------------------------------
(***************************************************************************)
(* The scheduler loop: sched_loop on the main thread.                      *)
(***************************************************************************)

\* Variant of ShutdownProcess without the call to remove_child.
ShutdownNoUnlink(i) ==
  /\ state' = [state EXCEPT ![i] = "none"]
  /\ children' = [children EXCEPT ![i] = <<>>]
  /\ parent' = [parent EXCEPT ![i] = NoProc]
  /\ mbox'   = [mbox EXCEPT ![i] = NoMbox]

\* shutdown_process: remove_child under the parent's parental_lock (the
\* last child gone moves a PENDING parent to WAITING and a DONE parent to
\* SHUTDOWN), delete the mailbox and the VM, and free the slot.
ShutdownProcess(i) ==
  LET par  == parent[i]
      rest == IF par = NoProc THEN <<>> ELSE RemoveFirst(children[par], i)
      up   == CASE par = NoProc \/ rest /= <<>> -> "keep"
              [] state[par] = "pending"       -> "waiting"
              [] state[par] = "done"          -> "shutdown"
              [] OTHER                        -> "keep"
  IN  /\ state' = [s \in Slots |-> CASE s = i               -> "none"
                                   [] s = par /\ up /= "keep" -> up
                                   [] OTHER                 -> state[s]]
      /\ children' = [s \in Slots |-> CASE s = i   -> <<>>
                                      [] s = par -> rest
                                      [] OTHER   -> children[s]]
      /\ parent' = [parent EXCEPT ![i] = NoProc]
      /\ mbox'   = [mbox EXCEPT ![i] = NoMbox]

\* One iteration of the loop over the process table: reclaim a SHUTDOWN
\* slot (the root's shutdown stops the loop), or find a WAITING process
\* with mail or a due timeout and go on to twk_sched it.
Scan ==
  /\ spc = "scan" /\ Live
  /\ LET i == sidx IN
     CASE state[i] = "shutdown" ->
            /\ ShutdownProcess(i)
            /\ spc' = IF i = Root THEN "done" ELSE "scan"
            /\ sidx' = Next1(i)
            /\ UNCHANGED stgt
       [] state[i] = "waiting" /\ (HasMail(i) \/ timer[i]) ->
            /\ spc' = "sched" /\ stgt' = i
            /\ UNCHANGED <<procVars, sidx>>
       [] OTHER ->
            /\ sidx' = Next1(i)
            /\ UNCHANGED <<procVars, spc, stgt>>
  /\ UNCHANGED <<timer, initDone, workerVars, last, nextPid, sends, fault>>

\* twk_sched(proc, true) from the loop: the check of CREATED or WAITING
\* and the store of RUNNABLE are separate accesses.
SchedCheck ==
  /\ spc = "sched" /\ Live
  /\ IF state[stgt] \in {"created", "waiting"}
     THEN spc' = "set" /\ UNCHANGED sidx
     ELSE spc' = "scan" /\ sidx' = Next1(stgt)
  /\ UNCHANGED <<procVars, workerVars, stgt, last, nextPid, sends, fault>>

SchedSet ==
  /\ spc = "set" /\ Live
  /\ state' = [state EXCEPT ![stgt] = "runnable"]
  /\ Signal(wpc)
  /\ spc' = "scan" /\ sidx' = Next1(stgt)
  /\ UNCHANGED <<parent, children, mbox, timer, initDone, wproc, wok, wtgt,
                 wnext, stgt, last, nextPid, sends, fault>>

\* The runtime has stopped: the loop reached Done, or it aborted.
Halted ==
  /\ \/ ~Live
     \/ spc = "done" /\ \A w \in Workers : wpc[w] \in {"check", "wait", "sleep"}
  /\ UNCHANGED vars

-----------------------------------------------------------------------------
WorkerStep(w) ==
  \/ FetchRunnable(w) \/ Block(w)
  \/ Spawn(w) \/ SpawnNoSlot(w) \/ SpawnInit(w)
  \/ Send(w) \/ PostWrite(w) \/ PostSched(w) \/ PostSet(w)
  \/ Exit(w) \/ Wait(w) \/ SetTimeout(w) \/ Recv(w) \/ Return(w)
  \/ ActivateChildren(w) \/ DecideState(w) \/ StoreState(w)

Next ==
  \/ \E w \in Workers : WorkerStep(w)
  \/ Scan \/ SchedCheck \/ SchedSet
  \/ Halted

\* Workers and the scheduler loop are threads the OS keeps scheduling; a
\* worker blocked in pthread_cond_wait gets no fairness (only a signal
\* moves it).  A run of a Lisp program eventually returns.
Fairness ==
  /\ WF_vars(Scan) /\ WF_vars(SchedCheck) /\ WF_vars(SchedSet)
  /\ \A w \in Workers :
       /\ WF_vars(FetchRunnable(w)) /\ WF_vars(Block(w))
       /\ WF_vars(SpawnInit(w)) /\ WF_vars(PostWrite(w))
       /\ WF_vars(PostSched(w)) /\ WF_vars(PostSet(w))
       /\ WF_vars(Return(w)) /\ WF_vars(ActivateChildren(w))
       /\ WF_vars(DecideState(w)) /\ WF_vars(StoreState(w))

Spec == Init /\ [][Next]_vars /\ Fairness

-----------------------------------------------------------------------------
(***************************************************************************)
(* Properties.                                                             *)
(***************************************************************************)

\* Program counters at which a worker executes the VM of wproc[w].
VMPcs == {"run", "spawn_init", "post", "post_sched", "post_set"}

TypeOK ==
  /\ state \in [Slots -> States]
  /\ parent \in [Slots -> Slots \cup {NoProc}]
  /\ children \in [Slots -> Seq(Slots)]
  /\ mbox \in [Slots -> 0 .. NoMbox]
  /\ timer \in [Slots -> BOOLEAN] /\ initDone \in [Slots -> BOOLEAN]
  /\ wpc \in [Workers -> WorkerPcs]
  /\ wproc \in [Workers -> Slots \cup {NoProc}]
  /\ wok \in [Workers -> BOOLEAN] /\ wtgt \in [Workers -> Slots \cup {NoProc}]
  /\ wnext \in [Workers -> States \cup {"keep"}]
  /\ spc \in {"scan", "sched", "set", "done"} /\ sidx \in Slots
  /\ sends \in 0 .. MaxSends /\ fault \in {"none", "null_mbox", "no_slot"}

\* A Lisp VM is not thread safe: no two worker threads ever execute the VM
\* of the same process (thread_main's RUNNING claim is meant to ensure it).
NoDoubleRun ==
  \A v, w \in Workers : v /= w /\ wpc[v] \in VMPcs /\ wpc[w] \in VMPcs
                          => wproc[v] /= wproc[w]

\* The parent/children links stay consistent: each child listed by a
\* process names it as parent and occupies a live slot, exactly once.
ChildrenConsistent ==
  \A p, c \in Slots :
    \A i \in 1 .. Len(children[p]) :
      children[p][i] = c =>
        /\ parent[c] = p /\ state[c] /= "none"
        /\ \A q \in Slots : \A m \in 1 .. Len(children[q]) :
             children[q][m] = c => q = p /\ m = i

\* twk_post_message never evaluates a NULL mailbox.
NoNullMailbox == fault /= "null_mbox"

\* The runtime has stopped: the loop reached Done or the runtime aborted.
Stopped == spc = "done" \/ ~Live

\* A RUNNABLE process is eventually picked by a worker.
RunnableRuns ==
  \A s \in Slots :
    state[s] = "runnable" ~> state[s] /= "runnable" \/ Stopped

=============================================================================
