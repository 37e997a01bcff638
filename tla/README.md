# TLA+ models of twinkle-lisp

twinkle-lisp is a small application runtime. An embeddable Lisp VM (`src/src/lisp.c`)
runs inside lightweight *processes*. A scheduler (`src/src/twk.c`) multiplexes the
processes over a fixed pool of worker threads. The processes talk through bounded
byte mailboxes (`src/src/fifo.c`). This directory holds TLA+ models of the parts of
that system that TLC can explore, the configurations that check them, and what
the checks found.

## 1. Inventory of the system

| Part | Source | State it keeps | Operations | Hard behaviour |
|---|---|---|---|---|
| Process scheduler | `twk.c`, `twk-internal.h` | `processes[MAX_PROCESS]`: per slot `state` (NONE, CREATED, WAITING, RUNNABLE, RUNNING, PENDING, DONE, SHUTDOWN), `parent`, `children` list, `mbox`, `sched_time`, `run`; globals `next_pid`, `last` of `find_runnable` | `twk_create_process`, `op_spawn`, `op_send_message` / `twk_post_message`, `twk_sched`, `op_exit`, `op_wait`, `op_set_timeout`, `mbox_read`, `thread_main` (fetch, run, activate children, store state), `sched_loop` (reclaim SHUTDOWN slots, schedule WAITING ones), `remove_child`, `shutdown_process` | 8 worker threads and the scheduler-loop thread read and write `proc->state`, `proc->children` and `proc->mbox`, mostly without a lock; a condition variable signalled without its mutex |
| Mailbox | `fifo.c`, `twk.c` l.259-400 | ring buffer `buffer`, `size` (a power of two), `rpos`, `wpos`; `mbox_last_wpos`, `mbox_overflow` | `fifo_write`, `fifo_read`, `fifo_room`, `twk_post_message`, `twk_begin/add/end_message` (roll back a partial message), `mbox_read` (grow the buffer) | masks at the wrap-around, capacity `size-1`, a rollback racing an unlocked reader |
| Memory manager | `lisp.c` l.750-910 | object pools, free lists, mark bits, keep-alive pool, evaluation stack as root set | `new_obj`, `gc`, `mark`, `lisp_keep_alive` | an object reachable only from a C local is freed by a collection triggered inside an allocation |
| Dictionaries | `lisp.c` l.2207-2335 | items array, linear part up to `DICT_LOOKUP_COUNT`, open-addressing index in `items[0]` | lookup, set, remove (sets UNDEF), clear, rebuild of the index | probe start `h % (cap-1)`, rebuild threshold, removed entries left in the index |
| Evaluator | `lisp.c` l.3459-3620, 4420-4445, 5866-5968 | evaluation stack, `eval_level`, catch frames, environment | `eval_expr`, tail calls in `eval_procedure_body`, `catch`, `throw`, `lisp_try`, `lisp_vm_run` | restoring stack depth, level and environment on a non-local exit |
| Ports | `lisp.c` l.1342-1467 | buffer, read/write positions, unget character, closed flag | flush, drain, fill, close, getc, unget, putc | unget across a refill, close with pending output |
| Reader, printer, regexp, crypto, fs, sqlite, zlib, sockets, http, utf8, base58 | the other files | text and bytes | parsing, formatting, I/O | text-level detail; see section 6 |

The scheduler is where the parts interact. A worker takes a RUNNABLE process and runs
its VM with `lisp_try`. The program calls into the scheduler (spawn, send, exit, wait,
set-timeout, read the mailbox). When the run returns, the worker activates the
children spawned during the run and stores the process's next state. The
scheduler loop reclaims SHUTDOWN processes, unlinking them from their parent. It also
makes WAITING processes that have mail or a due timeout RUNNABLE.

The correctness properties each part should have:

* Scheduler:
  * no VM is executed by two threads at once;
  * no process is reclaimed while a worker runs it;
  * a post never uses a freed mailbox;
  * the parent/children lists stay consistent;
  * a WAITING process with mail eventually runs;
  * a RUNNABLE process is eventually taken;
  * a finished process is eventually reclaimed.
* Mailbox: a message is delivered whole or not at all, and bytes come out in the order they went in.
* Memory manager: nothing reachable from the roots is freed.
* Dictionaries: the hash index finds exactly what the linear search would.
* Evaluator: `throw` restores the stack to the depth of its `catch`.
* Ports: the characters read equal the characters in the source, an ungotten one included.

These are the goals. Section 5 says which of them a passing run checks, which only
a violation run reaches, and which no run checks.

## 2. Plan

The modules, in the order they are built:

1. `Scheduler` and `MC_Scheduler`: the scheduler, which holds the system's
   concurrency and most of its hazards. *(built)*
2. `Mailbox`, `MailboxQueue` and `MC_Mailbox`: the byte-level ring buffer and the
   begin/add/end protocol, shown to refine an abstract byte queue. *(built)*
3. `Dictionary`, `DictMap` and `MC_Dictionary`: the open-addressing index shown to
   implement an abstract finite map (`INSTANCE ... WITH`). *(built)*
4. `GC`: mark and sweep over a small object graph, with allocation that collects.
   *(only the part a dictionary depends on, in `Dictionary`: see section 6)*
5. `Evaluator` and `MC_Evaluator`: the evaluation stack, tail calls and catch frames. *(built)*
6. `Port`: the buffered port.
7. `Regexp` and `MC_Regexp`: the regexp compiler, optimiser and VM, checked
   against a reference matcher. *(built)*

## 3. Module `Scheduler` (src/src/twk.c)

### State

| Variable | Code |
|---|---|
| `state[s]` | `processes[s].state` |
| `parent[s]`, `children[s]` | `proc->parent`, the `children`/`sib_next` list (newest first) |
| `mbox[s]` | the number of messages in `proc->mbox`, or `NoMbox` for NULL |
| `timer[s]` | `proc->sched_time > 0` |
| `initDone[s]` | `proc->run` is no longer `process_init` |
| `wpc`, `wproc`, `wok`, `wtgt`, `wnext` | each worker thread's position in `thread_main` or in the program it runs, the process it runs, the result of `lisp_try`, the target of a post, and the state it decided to store |
| `spc`, `sidx`, `stgt` | the scheduler loop's position and the slot it looks at |
| `last`, `nextPid` | the statics of `find_runnable` and `twk_create_process` |
| `fault` | the runtime aborted: NULL mailbox (`null_mbox`) or `assert(child != NULL)` with a full table (`no_slot`) |
| `sends` | a bound on `send-message` calls |

### Actions

Every unlocked read that the code acts on later is its own step, so the model
interleaves the threads wherever the code does. Each section under one mutex is a
single step.

| Action | Code |
|---|---|
| `FetchRunnable` | `thread_main`'s loop under `runnable_lock`: `find_runnable`, the RUNNING claim, and `process_init`'s check that the spawning process is PENDING or DONE |
| `Block` | `pthread_cond_wait` |
| `Spawn`, `SpawnNoSlot`, `SpawnInit` | `twk_create_process` (the claim under `pid_lock`, then the memset outside it) and `op_spawn` (link at the head of `children`, post the arguments) |
| `Send`, `PostWrite`, `PostSched`, `PostSet` | `op_send_message` and `twk_post_message`: the unlocked check, the write under `mbox_lock`, the re-read of the state, and `twk_sched`'s store |
| `Exit`, `Wait`, `SetTimeout`, `Recv` | `op_exit`, `op_wait`, `op_set_timeout`, `mbox_read` |
| `Return` | `lisp_try` returning, possibly in an error |
| `ActivateChildren`, `DecideState`, `StoreState` | `thread_main` after the run: the CREATED prefix of the children made RUNNABLE, the unlocked reads that choose the next state, and the store |
| `Scan`, `ShutdownProcess` | one iteration of `sched_loop`'s scan, with `shutdown_process` and `remove_child` |
| `SchedCheck`, `SchedSet` | `twk_sched` called by the loop: its check and its store |
| `Halted` | the loop has reached `Done` with all workers idle, or the runtime aborted |

`UserOps` is the set of scheduler calls the Lisp programs make. `SpawnThenWait`
restricts the programs to the contract that `op_spawn`'s comment and `process_init`'s
check state: a run that spawns ends with its process PENDING or DONE.

### Fairness

* The scheduler loop and every mechanical step of a worker are weakly fair. Both are
  OS threads, and the code never blocks them except in `pthread_cond_wait`.
* A worker blocked in `pthread_cond_wait` gets no fairness. Only a signal moves it,
  as in the code.
* `Return` is weakly fair: each run of a program ends.
* The program's own calls are not fair. A program may never send, exit or wait.

## 3b. Module `Mailbox` (src/src/fifo.c, src/src/twk.c l.259-421)

The `Scheduler` counts messages. `Mailbox` looks inside one mailbox at the bytes.

| Variable | Code |
|---|---|
| `size`, `buf`, `wpos`, `rpos` | `struct FIFO` (`buf` spans the largest ring; only `0..size-1` is used) |
| `lastWpos`, `overflow` | `proc->mbox_last_wpos`, `proc->mbox_overflow` |
| `session` | a writer holds `mbox_lock` between `twk_begin_message` and `twk_end_message` |
| `rpc` | the owner's position in `mbox_read`: the unlocked test, the locked resize, the unlocked `fifo_read` |
| `sent`, `got`, `cur` | ghost: the bytes of delivered messages, the bytes the owner read, the bytes of the open message |
| `posts`, `nadd` | bounds on posts and begun messages, and on pieces per message |

Each section under `mbox_lock` is one step: `PostMessage`, `ReadResize`, `OpenMbox`,
each `AddMessage`, and `BeginMessage` / `EndMessage`, which take and release the
lock. The owner's `ReadFifo` is unlocked, so it interleaves with an open message.
`FifoWriteBuf`/`FifoWritePos` and `FifoReadBytes`/`FifoReadPos` keep both
branches of `fifo_write` and `fifo_read`, the contiguous copy and the copy split at
the end of the ring. `FifoCopy` is `fifo_copy` and the resize in `mbox_read`.
`GrowToPow2` is `grow_to_power_of_2`.

`MailboxQueue` is what a mailbox promises: a bounded queue of bytes where a message
is appended whole and the owner takes a prefix. `MC_Mailbox` maps the ring onto it
with `queue <- Committed`, and `QueueRefinement` checks `Queue!Spec` as a property.
`Committed` is the bytes from `rpos` to `wpos`. While a message is open, it is only
the bytes before `mbox_last_wpos`: the open message joins the queue in one step, at
`twk_end_message`, or never, when it overflowed and was rolled back. The abstract
messages are the posted ones and every concatenation of up to `MaxPieces` pieces.

The Mailbox runs check only safety, so they assume no fairness.

## 3c. Module `Dictionary` (src/src/lisp.c l.1976-2333, 4936-5031)

A dictionary is a `Lisp_Array`. Its `items[1..count-1]` are binding pairs in the
order they were added. Its `items[0]` is NULL or a lookup table, which holds the same
pairs placed by linear probing from `lisp_string_hash(key) % (cap-1)`.

| Variable | Code |
|---|---|
| `cap`, `alloc` | `dict->cap`, and the pointers the block from `lisp_alloc` really holds (rounded to `BLKSIZE`) |
| `items` | `dict->items[1..count-1]`: records of the pair's `car` (a key) and `cdr` (a value); a pair is named by its position |
| `tcap`, `table` | `items[0]->cap` (0 while NULL) and its slots, each a position in `items` or `NoPair` |
| `aborted` | `add_to_lookup_table`'s `assert(0)` |
| `result` | what the last `dict-get` pushed |

Actions:

| Action | Code |
|---|---|
| `DictAdd` / `AddItem` | `lisp_dict_add`: `lisp_array_push`, growing at `count = cap`, then `lisp_dict_add_item`'s table upkeep |
| `DictSet` | `dict-set!` (and `lisp_defvar`): assoc, then update or add |
| `DictUnset`, `DictGet`, `DictClear` | `dict-unset!` via `lisp_dict_remove`, `dict-get`, `lisp_dict_clear` |

`Assoc` is `lisp_dict_assoc`. It uses `Probe` (`lookup`) once
`count > DICT_LOOKUP_COUNT`, and `LinearAssoc` below that. `DictMap` is the abstract
map. A key is `Absent`, or bound to a value, possibly `Undef`. `MC_Dictionary` maps
each key to the value of the first pair the brute-force search finds.
`MapRefinement` checks `Map!Spec`.

An abort has no successor state, so a failed `assert(0)` shows up as a deadlock.

What a collection keeps of a dictionary is not modelled (see section 6).

## 3d. Module `Regexp` (src/src/regexp.c, src/src/lisp_regexp.c)

The regexp engine follows the backtracking design of Pike and Cox.
`regexp_compile` compiles a pattern into a program of instructions by recursive
descent. `regexp_program_optimize` then gives each split a *look-ahead byte*.
`regexp_vm_exec` runs the program on the input with a backtrack stack.
`op_regexp_match` compiles with `REGEXP_COMPOPT_UNANCHORED`, so the program starts
with a loop that retries the pattern at each later position.

How the module corresponds to the code:

* **Compiler.** `regexp_compile_alt`, `_cat`, `_rep`, `_atom` and `_subexpr` are
  mutually `RECURSIVE` operators with the code's names.
  * Each takes the pattern, the position and a context record. The record holds
    the code, `subexpr_level`, `save_index`, `check_index`, and `err` for the
    `longjmp` of `regexp_compile_err`.
  * Each returns the new position and the new context.
  * Where a function makes a recursive call, the result goes to a non-recursive
    operator, which models the code after that call: `SubexprClose`,
    `RepQuantify`, `CatNext`, `AltRest` and `AltPatch`. This keeps every
    recursive result bound once, which TLC's coverage pass needs.
  * A pattern is a sequence of tokens. A `{m,n}` token stands for what `strtol`
    reads from it.
* **Optimiser.** `LookAhead` walks the code with two cursors, the loop index `i`
  and the instruction pointer `ip`, because the code has two. A forward `JMP` moves
  only `i`.
* **VM.**
  * The variables are the fields of `struct regexp_vm`. `Init` is what
    `op_regexp_match` does: set the string input, reset, set `start-pos`.
  * There is one action per instruction, and `BACKREF` is split by its outcome.
    Each action is a whole iteration of the exec loop: fetch, input action,
    dispatch, and the `regexp_vm_backtrack` or `regexp_vm_save_state` it calls.
  * A failed `assert` is the status `ABORT`. A run of the VM ends when the status
    leaves READY, so the runs have `CHECK_DEADLOCK FALSE`.
  * The range check on `vm->ip` (regexp.c:1065) has no action of its own.
    `IpInRange` states that it never fires.
  * `FairSpec` adds weak fairness on `Next`: `regexp_vm_exec` loops while the
    status is READY, and nothing else runs on the VM meanwhile.
* **Data.** Characters are code points below 128, so UTF-8 decoding reads one byte.

Checks against the C code, made while building the module:

* The compiler operators produce the same program, look-ahead bytes included, as
  the C compiler (built with `REGEXP_MAIN`) for all 11111 token strings of up to 4
  tokens over `a b ( ) | ? * + {1,2} \1`. That includes the ones both reject.
* The VM ends with the same status and the same match start and length as the C VM
  in all 19006 cases tried: every pattern of up to 3 tokens over 14 tokens, on
  every input of up to 2 characters, from every start position.

`MC_Regexp` adds a reference matcher, written from the meaning of the operators
rather than from the compiler. `Ends(lo, hi, i)` is the set of input positions at
which a match of tokens `lo..hi-1` that starts at `i` can end.

## 3e. Module `Evaluator` (src/src/lisp.c l.1622-1685, 2028-2062, 3431-3696, 3905-3917, 4420-4447, 5214-5224, 5811-5921)

The evaluator is a tree walker that recurses on the C stack. It keeps intermediate
results, EXPR_MARKs and FRAME_MARKs on the VM's value stack, and escapes with
`longjmp` to the `jmp_buf` that `vm->catch` points at.

The model makes the C recursion explicit:
* `cstack` is the sequence of live C activations, innermost last, one record each;
* a step is what the innermost activation does until it calls or returns;
* a `longjmp` cuts `cstack` back to the activation that owns `vm->catch`.

State:

| Variable | Code |
|---|---|
| `cstack` | the C activations: `lisp_vm_run`/`load` (`top`), `lisp_eval_core` (`eval`), `eval_expr` after its prologue (`apply`), `eval_list`, `apply_procedure`/`eval_procedure_body` (`proc`), `op_catch`, `with-output` |
| `vstack` | `vm->stack`, each item a tag (EXPR_MARK, FRAME_MARK, saved env, saved port, tail-call object, other) and what it holds |
| `level`, `env`, `catch`, `output` | `vm->eval_level`, `vm->env` (an env is named by the activation that made it), `vm->catch`, `vm->output` |
| `status`, `lastRaise` | `lisp_vm_run`'s result; what the last `longjmp` carried |

Actions:

| Action | Code |
|---|---|
| `EvalCore` | `lisp_eval_core`, plus `eval_expr`'s prologue: the `MAX_DEPTH` check, EXPR_MARK, the operator and the argument list |
| `Apply` | `lisp_apply`: a procedure (`ApplyProcedure`, or a tail-call object at tail), and the special forms `if` (`OpIf`), `begin`, `catch`, `throw`, `with-output`, the primitive `return` (`apply_primitive`), plus a primitive failing in `lisp_err` |
| `ApplyReturn` | `eval_expr` after `lisp_apply`: the trampoline loop, or the epilogue |
| `ReturnWrap` | `return`: its value wrapped in a pair with `is_return` set |
| `ListStep` | `eval_list`: the next expression, or return (at once after a return object) |
| `ProcStep` | `eval_procedure_body`: unwrap a return object (`Unwrap`), then the self tail-call loop, or `lisp_end_env` |
| `CatchReturn`, `WoutReturn` | the end of `op_catch` and of `with-output` |
| `TopRead`, `TopEof` | `load` reading and evaluating a form; end of input in `lisp_vm_run` |

`Raise` is `longjmp`. It lands in `op_catch` (`CatchLand`), or in `lisp_vm_run`,
which (not interactive) returns false.

The data is abstracted:
* an `if` test's truth is chosen;
* procedures take no arguments;
* operator lookup succeeds.

`MC_Evaluator` defines four procedures whose bodies exercise every path:
* self tail calls and mutual tail calls;
* a call inside `catch`;
* `throw`, `lisp_err` and normal return inside `with-output`;
* an uncaught `throw` at top level;
* `return` inside `begin`, and `return` around an `if` whose branch is a tail call.

`MAX_DEPTH` is set to 9, the deepest nesting of `eval_expr` the program has when
tail calls take no depth.

## 4. Runs

`MC_Scheduler` uses three process slots (the root and two children, or a child and a
grandchild), mailboxes of one message, and one or two workers.

| Run | Workers, programs | Checks | Result |
|---|---|---|---|
| `sched_safety` | 1, every call | `TypeOK`, `ChildrenConsistent` | pass (3.6M states) |
| `sched_null_mailbox` | 2, messaging | `NoNullMailbox` | violated: a post races the target's reclamation |
| `sched_double_run` | 2, trees keeping the spawn contract | `NoDoubleRun` | violated |
| `sched_lost_wakeup` | 1, trees | `RunnableRuns` | violated: the signal is lost |

`MC_Mailbox` uses a ring of 4 bytes (capacity 3) that can grow to 8. Messages are
one or two bytes, and every byte value is distinct. The owner's port reads 2 bytes
at a time. `mbox_queue` allows 3 posts or begun messages, with up to 2 pieces each.
Three two-byte messages already
overflow the initial ring, wrap around it and make the owner grow it.
`ReadsOutsideMessages`, an action constraint, keeps the owner idle while a message is
open. `mbox_torn_read` drops the constraint and lets the owner read during an open
message, the only interleaving in which the rollback can go wrong; there
`AllOrNothing` fails.

| Run | Operations | Checks | Result |
|---|---|---|---|
| `mbox_queue` | posts, begin/add/end, reads, resizes, `open-mbox`; owner not reading during an open message | `TypeOK`, `QueueRefinement` | pass (21k states) |
| `mbox_torn_read` | begin/add/end and the owner's reads, no constraint | `AllOrNothing` | violated: the rollback undoes bytes already read |

`MC_Dictionary` uses three keys whose hashes all collide in a table of 8 slots,
and one of them wraps at the table's end. There are two values, and dictionaries
hold up to 4 pairs. `DICT_LOOKUP_COUNT` is scaled from 8 to 2, so that few pairs
already exercise building the table, rebuilding it when the capacity doubles, and
extending it.

| Run | Dictionary | Checks | Result |
|---|---|---|---|
| `dict_map` | `lisp_dict_new(vm, 4)`, every operation | `TypeOK`, `MapRefinement`, no deadlock | pass |
| `dict_small_literal` | `lisp_dict_new(vm, 2)` from a two-binding literal | `ItemsInBlock` | violated: heap overflow |

`MC_Regexp` has three runs. Each one runs every program that compiles on every
input it lists, from every start position.

| Run | Patterns, inputs | Checks | Result |
|---|---|---|---|
| `regexp_lookahead` | every string of up to 6 tokens over `a ( ) | ?` (19531); `""`, `"a"`, `"c"` | `NoMissedMatch` | violated: `(a?|a)` does not match `""` |
| `regexp_match` | every string of up to 3 tokens over 13 tokens covering every instruction kind, with `(a)\1` and `(a*)\1`; inputs up to 2 characters over `a 1` | `NoFalseMatch`, `IpInRange`, `Terminates` | pass (169k states) |
| `regexp_stale_backref` | `(.)\1`, `(a|b)\1`, `(.*)\1`; inputs up to 3 characters over `a b` | `NoMissedRepeat` | violated: `(.)\1` does not match `"abb"` |

`regexp_match` reaches every VM action, including a backreference that compares
bytes and one that aborts. Three tokens are enough for each kind of loop: one whose
body always advances (`a*`), one whose body may not (`^*`, `(a?)`...), and one
alternative inside a group.

`NoMissedRepeat` extends the reference matcher to patterns `(X)\1`: some substring
matches X, and the same bytes follow it.

What the run shows:

* **Look-ahead bug.** `regexp_program_look_ahead` follows a forward `JMP`
  (regexp.c:547) by moving `i` but not `ip`. It then reads the instruction after
  the `JMP` instead of the `JMP`'s target.
  * A split whose saved branch starts with such a `JMP` gets a look-ahead byte
    that branch cannot read first. The VM then never tries the branch.
  * `(regexp-match "(a?|a)" "")` returns `#f`, and so does `(a?|b)c` on `"c"`.
  * Both were confirmed with the C code.

* **Stale backreference.** `REGEXP_OP_BACKREF` loads a new range only when
  `vm->backref` is empty ("If this is a new backref"). A mismatch backtracks with the
  range half compared, and `regexp_vm_backtrack` does not restore it. The next
  BACKREF then continues comparing against the old bytes.
  * `(.)\1` finds no match in `"abb"` or `"baa"`.
  * It reports `"ba"` in `"aba"` as a match.
  * Both were confirmed with the C code.

Three more defects found while modelling were confirmed by building `regexp.c`.
No property checks them, so they are listed as hazards:

* **Stale check points.** PROGRESS check points are not restored on backtracking.
  `(a|a)*b` on `"acb"` stops with "infinite loop".
* **Self-referencing backreference.** `(\1)` matched from a start position above
  0 fails `assert(begin < end)` and aborts the process.
* **Non-ASCII range.** `regexp_crange_not_ascii` starts at `0x128` where `0x80`
  was meant, so `.` and the unanchored search cannot pass U+0080..U+0127:
  `(regexp-match "b" "éb")` returns `#f`. The model's characters are ASCII, so
  this one is outside the module.

What the runs show:

* **One worker.** The passing runs use one worker. With a single worker the
  scheduler loop still runs concurrently with it, so the process-tree protocol
  (spawn, activation, wait, exit, reclaiming, waking the parent) and message delivery
  are checked against the loop's interleavings, and they are right.
* **Two workers.** With two workers, the code's own `MAX_THREADS` being 8, TLC
  finds three races, listed in PROJECT.json's findings, and a fourth that shares
  the second's window and is listed as a hazard:
  * posting to a process being reclaimed dereferences a NULL mailbox;
  * a child reclaimed while its parent's worker is in `thread_main`'s epilogue lets
    two workers run the parent's VM, even when programs keep the spawn contract;
  * a failed run whose last child is reclaimed before the store leaves its process
    DONE forever (for the root, the runtime never exits). No run checks it: every
    two-worker run meets the double run first, and with one worker `remove_child`
    turns DONE into SHUTDOWN in one step;
  * `pthread_cond_signal` without the mutex loses wakeups. This one needs only one
    worker.

* **Mailbox.**
  * Posts, the owner's unlocked reads and both ways of growing the ring keep it a
    FIFO queue of bytes. This holds through every wrap-around, with messages of
    two bytes straddling the end of a four-byte ring.
  * When nobody reads during an open message, `twk_end_message`'s rollback delivers
    each message whole or not at all.
  * When the owner does read during an open message, the rollback moves `wpos`
    behind `rpos` (`mbox_torn_read`). `fifo_bytes` then wraps to almost the whole ring, and the owner
    reads stale bytes. `fifo.h` calls the ring single-writer/single-reader, and a
    writer that moves `wpos` backwards breaks that contract.
  * Nothing in the repository calls the begin/add/end functions, but they are
    exported.

* **Dictionary.**
  * The hashed lookup always finds the pair the linear search finds: the first one
    added for the key. This holds through duplicate bindings, collisions,
    wrap-around, growth and clearing.
  * `lisp_array_new` records a capacity of at least 4 but allocates only the
    requested number of pointers (rounded to 16 bytes). A dictionary literal with
    two bindings therefore writes its second pair past the block.

**Bounds.**
* Three slots are the fewest in which a process has a live child while another
  slot is free for reuse.
* One-message mailboxes reach both the full and the empty mailbox.
* One send is enough to race a reclamation.
* Two workers are the fewest that can race each other.
* Not reached: the create race of `twk_create_process` needs four slots and two
  concurrent spawners. It is listed as a hazard.

`MC_Evaluator` runs one program: the four procedures above, and the top-level forms
`(f)` and `(if ? (throw 1) 1)`. `MAX_DEPTH` is 9. The run has 260 states, and every
path through the evaluator occurs: tail loops, catch landing, lisp_vm_run's error
exit, and end of input. Larger programs repeat the same activation shapes.

| Run | Program | Checks | Result |
|---|---|---|---|
| `eval_stack` | tail loops, catch, throw, lisp_err, with-output | `TypeOK`, `ContextMatchesFrames`, `CallstackMarks`, `NoMaxDepthError` | pass |

`CHECK_DEADLOCK FALSE`: `lisp_vm_run` returns at end of input or on an uncaught
error, and the model stops there.

## 5. Properties

Mailbox:
* `QueueRefinement`: the ring implements `MailboxQueue` under `queue <- Committed`.
* `AllOrNothing` (violated by `mbox_torn_read`): when no message is open, what the
  owner read followed by what is queued equals the delivered messages.
* `TypeOK`: positions stay within the ring, and the size stays a power of two.

Scheduler:

* `TypeOK`: the variables stay in their types.
* `ChildrenConsistent`: every listed child names its parent, lives, and is listed once.
* `NoDoubleRun` (violated by `sched_double_run`): no two workers execute the same VM.
* `NoNullMailbox` (violated by `sched_null_mailbox`): `twk_post_message` never uses
  a NULL mailbox.
* `RunnableRuns` (violated by `sched_lost_wakeup`): a RUNNABLE process is eventually
  picked by a worker.

With one worker no VM runs while the scheduler loop reclaims, and a post cannot
race a reclamation, so the races these properties are about exist only in the
two-worker runs; the passing run does not check them. For the same reason there is
no passing liveness run: the lost wakeup already stops a RUNNABLE process from
running with one worker.

Dictionary:
* `MapRefinement`: the dictionary implements `DictMap`. The hashed lookup finds what
  the brute-force search finds.
* `ItemsInBlock`: `lisp_array_push` stays inside the block `lisp_alloc` gave.

Evaluator:
* `ContextMatchesFrames`: `eval_level` counts the live `eval_expr` activations.
  `vm->env` is the env of the innermost live procedure, and `vm->catch` belongs to
  the innermost `op_catch`. Both hold across throws.
* `CallstackMarks`: every live `eval_expr`'s EXPR_MARK, and every live procedure's
  FRAME_MARK and saved env, are where they were pushed.
* `NoMaxDepthError`: tail calls never reach `MAX_DEPTH`.

`return` is modelled (its object ends `eval_list` and is unwrapped by
`eval_procedure_body`), but no property is stated about it: with procedures that
take no arguments a return object is made in one place and consumed in one place.

Regexp:
* `NoMissedMatch`: when the VM reports UNMATCH, no substring of the input from
  `start-pos` on matches the pattern according to the reference matcher.
* `NoFalseMatch`: when the VM reports MATCH, the span between `save_pos[0]` and
  `save_pos[1]` starts at or after `start-pos` and matches the whole pattern.
  Patterns with backreferences are excluded.
* `IpInRange`: every jump offset that `regexp_compile` patches lands inside the
  program.
* `Terminates` (under `FairSpec`): `regexp_vm_exec` returns on every pattern and
  input.
* `NoMissedRepeat`: for `(X)\1`, UNMATCH only when no substring is a match of X
  followed by the same bytes.

## 6. Not modelled, and why

* **Ports restored after a throw.** `op_catch` does not restore `vm->output` or
  `vm->input`, so `(catch (with-output p (throw 1)))` leaves output on `p`.
  `eval_stack` reaches that state, and TLC confirms that vm->output is then not
  stdout. No run states this as a property, so it is listed as a hazard. The spec
  (8.9) asks only for the stack depth and env to be restored.
* **The rest of the evaluator:**
  * argument binding and variable lookup;
  * macros, `define`, `let`, `cond` and the other special forms;
  * the primitives;
  * the interactive restart of `lisp_vm_run`;
  * debug mode.

  Each of these is data handling on top of the same activations that `Evaluator`
  already covers.

* **The memory manager.** This covers:
  * the pools and free lists (`lisp_alloc`, `lisp_free`);
  * `new_obj`'s collect-then-grow;
  * the sweep over an object graph;
  * `lisp_keep_alive`.

  A faithful model needs object identities: the addresses a sweep frees and an
  allocation reuses. A trial that added them to `Dictionary` (three pair and two
  table addresses, with a pool counter) took dict_map from 14k states to more than
  200k. That is over five minutes, with no symmetry to recover it, because the
  addresses are ordered by allocation. Keeping only the pool's size and no
  identities still multiplied the states by 15. Without identities, what `mark`
  keeps of a dictionary (`items[0]` marked but not traced, l.770-780) reduces to a
  restatement of `lisp_dict_clear`, so it is left out too.
* **`backref` across matches.** `Regexp`'s `Init` starts `vm->backref` empty for
  every match, but `op_regexp_compile` makes one VM that every `regexp-match`
  reuses, and neither `regexp_vm_reset` nor `set_string_input` clears `backref`.
  A range left half-compared by one match therefore carries into the next. No
  property depends on the initial value.

* **`print_processes`** reads `proc->mbox->size` after releasing `mbox_lock`. It
  is listed as a hazard. It only formats a listing, so no module includes it.
* **The file-descriptor side of `sched_loop`** (`select`, `wake_sched`, socket
  servers): these are I/O readiness events, not state changes. A due timeout stands
  for them.
* **The reader and printer.** Their data is text, which TLC can only enumerate
  character by character.
* **Parts of the regexp engine:**
  * bracketed classes and their treap (`regexp_compile_cclass`, `regexp_crange_*`);
  * streaming input (`regexp_vm_add_stream_input`, the WAIT status, which
    `lisp_regexp.c` never uses);
  * multi-byte UTF-8 and `CHAR32`.

  The compiler's `REGEXP_MAX_CODE` check needs patterns of thousands of
  instructions. The `vm->status == REGEXP_VM_WAIT` comparison at regexp.c:1092,
  where an assignment was meant, is reachable only with malformed UTF-8 input.
* **Crypto, base58, utf8, fs, sqlite, zlib, sockets, http, microtime and main**:
  wrappers over libraries and the OS, with no concurrency or protocol of their own.
* **Start-up.** `twk_start_threads` creates the workers before the root process
  exists. The model starts with the root already RUNNABLE and the workers about to
  look for work. A lost wakeup at start-up is the same hazard that
  `sched_lost_wakeup` shows.
