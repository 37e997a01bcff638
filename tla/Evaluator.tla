------------------------------ MODULE Evaluator ------------------------------
(***************************************************************************)
(* The evaluator of one Lisp VM (src/src/lisp.c): lisp_vm_run's load      *)
(* loop, lisp_eval_core, eval_expr with its tail-call trampoline,         *)
(* eval_list, apply_procedure with its self tail-call loop, the special   *)
(* forms if, begin, catch, throw, return and with-output, and lisp_err.   *)
(*                                                                         *)
(* The C evaluator recurses on the host stack; here that stack is the     *)
(* variable `cstack', one record per activation, innermost last, and a    *)
(* step is what the innermost activation does until it calls or returns.  *)
(* longjmp (throw, lisp_err) cuts `cstack' back to the frame whose        *)
(* jmp_buf vm->catch points at.  The value stack vm->stack is `vstack';   *)
(* an item keeps only what the evaluator tests: its tag (an EXPR_MARK, a  *)
(* FRAME_MARK, a saved env or port, a tail-call object, or any other      *)
(* object) and, for the last three, what it holds.                        *)
(*                                                                         *)
(* Data is abstracted away: an `if' test is a constant whose truth is     *)
(* chosen, procedures take no arguments, and lisp_getvar of an operator   *)
(* always succeeds.                                                       *)
(***************************************************************************)
EXTENDS Naturals, Sequences, SequencesExt

CONSTANTS
  Procs,     \* the procedures the program defines (O_PROC objects)
  Body,      \* Body[f]: the expressions of f's lambda body, never empty
  Forms,     \* the top-level forms load reads, in order
  Ports,     \* the output ports a with-output form may install
  StdOut,    \* vm->output when lisp_vm_run starts
  MaxDepth   \* MAX_DEPTH

VARIABLES
  cstack,    \* the C activations of the evaluator, innermost last
  vstack,    \* vm->stack->items[0 .. count-1]
  level,     \* vm->eval_level
  env,       \* vm->env: 0 is the root env, i the env made by cstack[i]
  catch,     \* vm->catch: the position in cstack of the frame owning it
  output,    \* vm->output
  status,    \* "running", then lisp_vm_run's result: "ok" or "error"
  lastRaise  \* what the last longjmp carried: "none", "throw", "err", "depth"

vars == <<cstack, vstack, level, env, catch, output, status, lastRaise>>

-----------------------------------------------------------------------------
(* Value-stack items.  A tail-call object (expr . (op . args)) keeps its   *)
(* expression, whose `f' is the procedure to call.                        *)
Item(t, v) == [t |-> t, v |-> v]
Obj        == Item("x", 0)

Top(s)     == s[Len(s)]
PopN(s, n) == SubSeq(s, 1, Len(s) - n)

IsTail(o)  == o.t = "tail"
IsReturn(o) == o.t = "ret"   \* a pair with is_return set: (value . nil)

(* Activations.  `k' names the C function; `e' is the expression (or the *)
(* call) it works on, `b' the list eval_list walks and `i' its position; *)
(* `n' is vm->stack->count when it started, and `lvl', `env', `cat' the   *)
(* eval_level, env and catch op_catch saved.                              *)
Frame(k, e, tail) ==
  [k |-> k, e |-> e, b |-> <<>>, tail |-> tail, i |-> 0,
   n |-> 0, lvl |-> 0, env |-> 0, cat |-> 0]

Inner == cstack[Len(cstack)]
Outer == SubSeq(cstack, 1, Len(cstack) - 1)

(* eval_list(vm, l, at_tail) starting: push l->car and evaluate it, at    *)
(* tail only if it is the last expression.                                *)
StartList(b, tail) ==
  <<[Frame("list", b[1], tail) EXCEPT !.b = b, !.i = 1],
    Frame("eval", b[1], tail /\ Len(b) = 1)>>

-----------------------------------------------------------------------------
(* longjmp to vm->catch, with the value `vs' left on top.  In op_catch   *)
(* setjmp returns non-zero and the code after eval_list runs: eval_level, *)
(* vm->catch and vm->env are restored and the top becomes the catch's     *)
(* value.  In lisp_vm_run (not interactive) count, eval_level and env are *)
(* restored, vm->catch cleared, the three saved slots dropped, and the    *)
(* run returns false.                                                     *)
(* op_catch without `vm->eval_level = old_level' *)
CatchLandKeepLevel(fr, vs) ==
  /\ level' = level /\ catch' = fr.cat /\ env' = fr.env
  /\ vstack' = Append(SubSeq(vs, 1, fr.n), Top(vs))

(* op_catch storing the value at items[cnt-1], count = cnt *)
CatchLandShort(fr, vs) ==
  /\ level' = fr.lvl /\ catch' = fr.cat /\ env' = fr.env
  /\ vstack' = Append(SubSeq(vs, 1, fr.n - 1), Top(vs))

CatchLand(fr, vs) ==
  /\ level' = fr.lvl /\ catch' = fr.cat /\ env' = fr.env
  /\ vstack' = Append(SubSeq(vs, 1, fr.n), Top(vs))

Raise(vs, kind) ==
  LET fr == cstack[catch] IN
  /\ lastRaise' = kind
  /\ IF fr.k = "catch"
     THEN /\ cstack' = SubSeq(cstack, 1, catch - 1)
          /\ CatchLand(fr, vs)
          /\ UNCHANGED <<output, status>>
     ELSE /\ cstack' = <<>> /\ vstack' = <<>>
          /\ level' = 0 /\ env' = 0 /\ catch' = 0
          /\ status' = "error"
          /\ UNCHANGED output

(* lisp_err / throw_error: the message goes to the error port, then     *)
(* (error . nil) is pushed and the VM jumps with 1                       *)
LispErr(kind) == Raise(Append(vstack, Obj), kind)

-----------------------------------------------------------------------------
(* apply_procedure: lisp_begin_env pushes FRAME_MARK and the old env and *)
(* makes a new env; eval_procedure_body binds the arguments (clear_env)  *)
(* and evaluates the body with eval_list(lbody, 1).                       *)
ApplyProcedure(call, cs, vs) ==
  LET p == [Frame("proc", call, FALSE) EXCEPT !.n = Len(vs)] IN
  /\ cstack' = (cs \o <<p>>) \o StartList(Body[call.f], TRUE)
  /\ vstack' = vs \o <<Item("frame", 0), Item("env", env), Obj>>
  /\ env' = Len(cs) + 1

(* lisp_eval_core: a constant evaluates to itself; a pair goes to         *)
(* eval_expr, which bumps eval_level (lisp_err past MAX_DEPTH), pushes    *)
(* EXPR_MARK and the operator, and pushes the argument list (cdr for a    *)
(* special form, eval_args' list otherwise).                              *)
EvalCore ==
  /\ status = "running" /\ Inner.k = "eval"
  /\ IF Inner.e.op = "const"
     THEN /\ cstack' = Outer
          /\ UNCHANGED <<vstack, level, env, catch, output, status, lastRaise>>
     ELSE IF level + 1 > MaxDepth
          THEN LispErr("depth")
          ELSE /\ level' = level + 1
               /\ cstack' = Append(Outer, [Inner EXCEPT !.k = "apply", !.n = Len(vstack)])
               /\ vstack' = vstack \o <<Item("mark", 0), Obj, Obj>>
               /\ UNCHANGED <<env, catch, output, status, lastRaise>>

(* op_if: the test is evaluated and popped; the chosen branch is pushed *)
(* and evaluated with lisp_eval_tail.                                    *)
(* op_if evaluating the branch with lisp_eval, not lisp_eval_tail *)
OpIfNoTail(e, c) == Frame("eval", e.kids[c], FALSE)

OpIf(e, c) == Frame("eval", e.kids[c], TRUE)

(* eval_expr calling lisp_apply.  At tail a call of a procedure is not   *)
(* made: the tail-call object is built, and the epilogue (lisp_pop 5,    *)
(* push) leaves it as the value.                                         *)
Apply ==
  /\ status = "running" /\ Inner.k = "apply" /\ Inner.i = 0
  /\ LET e   == Inner.e
         me  == [Inner EXCEPT !.i = 1]
     IN
     CASE e.op = "return" ->
            /\ cstack' = Outer \o <<me, Frame("ret", e, FALSE), Frame("eval", e.kids[1], TRUE)>>
            /\ vstack' = Append(vstack, Obj)
            /\ UNCHANGED <<level, env, catch, output, status, lastRaise>>
       [] e.op = "call" /\ Inner.tail ->
            /\ cstack' = Outer
            /\ vstack' = Append(PopN(vstack, 4), Item("tail", e))
            /\ level' = level - 1
            /\ UNCHANGED <<env, catch, output, status, lastRaise>>
       [] e.op = "call" ->
            /\ ApplyProcedure(e, Append(Outer, me), vstack)
            /\ UNCHANGED <<level, catch, output, status, lastRaise>>
       [] e.op = "if" ->
            /\ \E c \in 1 .. 2 : cstack' = Outer \o <<me, OpIf(e, c)>>
            /\ vstack' = Append(vstack, Obj)
            /\ UNCHANGED <<level, env, catch, output, status, lastRaise>>
       [] e.op = "begin" ->
            /\ cstack' = (Outer \o <<me>>) \o StartList(e.kids, TRUE)
            /\ vstack' = Append(vstack, Obj)
            /\ UNCHANGED <<level, env, catch, output, status, lastRaise>>
       [] e.op = "catch" ->
            /\ cstack' = (Outer \o <<me, [Frame("catch", e, FALSE) EXCEPT
                            !.n = Len(vstack), !.lvl = level, !.env = env,
                            !.cat = catch]>>) \o StartList(e.kids, FALSE)
            /\ catch' = Len(cstack) + 1
            /\ vstack' = Append(vstack, Obj)
            /\ UNCHANGED <<level, env, output, status, lastRaise>>
       [] e.op = "throw" ->
            /\ Raise(Append(vstack, Obj), "throw")
       [] e.op = "err" ->
            /\ LispErr("err")
       [] e.op = "wout" ->
            /\ cstack' = (Outer \o <<me, Frame("wout", e, FALSE)>>)
                           \o StartList(e.kids, FALSE)
            /\ output' = e.f
            /\ vstack' = vstack \o <<Item("port", output), Obj>>
            /\ UNCHANGED <<level, env, catch, status, lastRaise>>

(* eval_expr after lisp_apply returned.  Not at tail, a tail-call object *)
(* on top is the trampoline: the expression, operator and arguments are  *)
(* replaced by the tail call's (count--) and the procedure is applied    *)
(* again.  Otherwise the epilogue: lisp_pop(vm, 5), push the value,      *)
(* eval_level--.                                                         *)
ApplyReturn ==
  /\ status = "running" /\ Inner.k = "apply" /\ Inner.i = 1
  /\ IF ~Inner.tail /\ IsTail(Top(vstack))
     THEN LET t == Top(vstack).v IN
          /\ ApplyProcedure(t, Append(Outer, [Inner EXCEPT !.e = t]), PopN(vstack, 1))
          /\ UNCHANGED <<level, catch, output, status, lastRaise>>
     ELSE /\ cstack' = Outer
          /\ vstack' = Append(PopN(vstack, 5), Top(vstack))
          /\ level' = level - 1
          /\ UNCHANGED <<env, catch, output, status, lastRaise>>

(* return after lisp_eval_tail of its argument: push nil, cons, and set *)
(* is_return on the pair                                                *)
ReturnWrap ==
  /\ status = "running" /\ Inner.k = "ret"
  /\ cstack' = Outer
  /\ vstack' = Append(PopN(vstack, 1), Item("ret", Top(vstack)))
  /\ UNCHANGED <<level, env, catch, output, status, lastRaise>>

(* eval_list after one expression returned: pop its value and evaluate  *)
(* the next one; return at once when it was a return object, or after   *)
(* the last one.                                                        *)
ListStep ==
  /\ status = "running" /\ Inner.k = "list"
  /\ IF Inner.i < Len(Inner.b) /\ ~IsReturn(Top(vstack))
     THEN LET j == Inner.i + 1 IN
          /\ cstack' = Outer \o <<[Inner EXCEPT !.i = j],
                                   Frame("eval", Inner.b[j], Inner.tail /\ j = Len(Inner.b))>>
          /\ vstack' = Append(PopN(vstack, 1), Obj)
     ELSE /\ cstack' = Outer /\ UNCHANGED vstack
  /\ UNCHANGED <<level, env, catch, output, status, lastRaise>>

(* eval_procedure_body: a return object is replaced by its car *)
Unwrap(o) == IF IsReturn(o) THEN o.v ELSE o

(* eval_procedure_body after the body returned; a return object is first *)
(* replaced by its car.  A tail call of the same                         *)
(* procedure loops in a new env (lisp_env_new, bind_args, pop the tail   *)
(* object); anything else ends the env: lisp_end_env restores vm->env    *)
(* from the slot above FRAME_MARK and moves the value down two slots.    *)
ProcStep ==
  /\ status = "running" /\ Inner.k = "proc"
  /\ LET t  == Unwrap(Top(vstack))
         vs == Append(PopN(vstack, 1), t)
     IN
     IF IsTail(t) /\ t.v.f = Inner.e.f
     THEN /\ cstack' = cstack \o StartList(Body[Inner.e.f], TRUE)
          /\ vstack' = Append(PopN(vs, 1), Obj)
          /\ env' = Len(cstack)
     ELSE /\ cstack' = Outer
          /\ env' = vs[Len(vs) - 1].v
          /\ vstack' = Append(PopN(vs, 3), t)
  /\ UNCHANGED <<level, catch, output, status, lastRaise>>

(* op_catch after eval_list returned normally *)
CatchReturn ==
  /\ status = "running" /\ Inner.k = "catch"
  /\ cstack' = Outer
  /\ CatchLand(Inner, vstack)
  /\ UNCHANGED <<output, status, lastRaise>>

(* with-output restoring vm->output from the top slot (lisp_shift 1) *)
WoutReturnTop ==
  /\ status = "running" /\ Inner.k = "wout"
  /\ cstack' = Outer
  /\ output' = Top(vstack).v
  /\ vstack' = Append(PopN(vstack, 2), Top(vstack))
  /\ UNCHANGED <<level, env, catch, status, lastRaise>>

(* with-output after eval_list returned: vm->output = lisp_shift(vm, 2) *)
WoutReturn ==
  /\ status = "running" /\ Inner.k = "wout"
  /\ cstack' = Outer
  /\ output' = vstack[Len(vstack) - 1].v
  /\ vstack' = Append(PopN(vstack, 2), Top(vstack))
  /\ UNCHANGED <<level, env, catch, status, lastRaise>>

-----------------------------------------------------------------------------
(* lisp_vm_run pushes env, input and output and sets vm->catch; load     *)
(* reads a form, drops the previous form's value and evaluates it.       *)
TopRead ==
  /\ status = "running" /\ Len(cstack) = 1 /\ Inner.i <= Len(Forms)
  /\ cstack' = <<[Inner EXCEPT !.i = Inner.i + 1], Frame("eval", Forms[Inner.i], FALSE)>>
  /\ vstack' = Append(PopN(vstack, IF Inner.i > 1 THEN 1 ELSE 0), Obj)
  /\ UNCHANGED <<level, env, catch, output, status, lastRaise>>

(* load at EOF: the last value becomes last_eval; lisp_vm_run drops its  *)
(* three slots, restores vm->catch and returns true.                     *)
TopEof ==
  /\ status = "running" /\ Len(cstack) = 1 /\ Inner.i > Len(Forms)
  /\ cstack' = <<>> /\ vstack' = <<>> /\ catch' = 0
  /\ status' = "ok"
  /\ UNCHANGED <<level, env, output, lastRaise>>

Init ==
  /\ cstack = <<[Frame("top", Forms[1], FALSE) EXCEPT !.i = 1]>>
  /\ vstack = <<Item("env", 0), Obj, Item("port", StdOut)>>
  /\ level = 0 /\ env = 0 /\ catch = 1
  /\ output = StdOut
  /\ status = "running" /\ lastRaise = "none"

Next ==
  \/ EvalCore \/ Apply \/ ApplyReturn \/ ListStep \/ ProcStep
  \/ ReturnWrap \/ CatchReturn \/ WoutReturn \/ TopRead \/ TopEof

(* lisp_vm_run returns when the input ends or an error is not caught. *)
Spec == Init /\ [][Next]_vars
=============================================================================
