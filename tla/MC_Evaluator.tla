---------------------------- MODULE MC_Evaluator ----------------------------
(***************************************************************************)
(* Evaluator instantiated for TLC with a program of four procedures:       *)
(*                                                                         *)
(*   (define (f) (if ? (f) (g)))            self tail call, tail call of g *)
(*   (define (g) (h) (return (if ? 1 (f))))  a call, then end or tail to f *)
(*   (define (h) (catch (k) 1) 1)            a call under catch            *)
(*   (define (k) (with-output p1                                           *)
(*      (if ? (throw 1) (if ? (car 1) (begin (return 1) 1)))))             *)
(*                                                                         *)
(* and the top-level forms (f) and (if ? (throw 1) 1).  (car 1) is a      *)
(* primitive that fails through lisp_err.  f and g loop through tail      *)
(* calls for ever; the deepest nesting of eval_expr is 9, MAX_DEPTH here. *)
(***************************************************************************)
EXTENDS Evaluator, FiniteSets, TLC

CONSTANTS f, g, h, k, none, stdout, p1

Const         == [op |-> "const", f |-> none, kids |-> <<>>]
Call(p)       == [op |-> "call", f |-> p, kids |-> <<>>]
If(a, b)      == [op |-> "if", f |-> none, kids |-> <<a, b>>]
Begin(l)      == [op |-> "begin", f |-> none, kids |-> l]
Catch(l)      == [op |-> "catch", f |-> none, kids |-> l]
WithOut(p, l) == [op |-> "wout", f |-> p, kids |-> l]
Throw         == [op |-> "throw", f |-> none, kids |-> <<>>]
Err           == [op |-> "err", f |-> none, kids |-> <<>>]
Return(a)     == [op |-> "return", f |-> none, kids |-> <<a>>]

MCProcs == {f, g, h, k}
MCBody  == (f :> << If(Call(f), Call(g)) >>)
        @@ (g :> << Call(h), Return(If(Const, Call(f))) >>)
        @@ (h :> << Catch(<< Call(k), Const >>), Const >>)
        @@ (k :> << WithOut(p1, << If(Throw, If(Err, Begin(<< Return(Const), Const >>))) >>) >>)
MCForms == << Call(f), If(Throw, Const) >>

Kinds == {"top", "eval", "apply", "list", "proc", "catch", "wout", "ret"}
Tags  == {"x", "mark", "frame", "env", "port", "tail", "ret"}

(* the type of every variable *)
TypeOK ==
  /\ \A i \in DOMAIN cstack : cstack[i].k \in Kinds
  /\ \A i \in DOMAIN vstack : vstack[i].t \in Tags
  /\ level \in 0 .. MaxDepth
  /\ env \in 0 .. Len(cstack) /\ catch \in 0 .. Len(cstack)
  /\ output \in Ports \cup {StdOut}
  /\ status \in {"running", "ok", "error"}
  /\ lastRaise \in {"none", "throw", "err", "depth"}

FramesOf(K) == {i \in DOMAIN cstack : cstack[i].k \in K}

(* What the VM believes its context is matches the activations that are  *)
(* live: eval_level counts the eval_expr activations, vm->env is the env *)
(* of the innermost procedure activation (the root env outside any), and *)
(* vm->catch is the jmp_buf of the innermost op_catch (or lisp_vm_run's). *)
(* op_catch restores all three after a throw or lisp_err unwinds         *)
(* activations that changed them.                                        *)
ContextMatchesFrames ==
  status = "running" =>
    /\ level = Cardinality(FramesOf({"apply"}))
    /\ env = IF FramesOf({"proc"}) = {} THEN 0 ELSE Max(FramesOf({"proc"}))
    /\ catch = Max(FramesOf({"catch", "top"}))

(* show_callstack scans vm->stack for EXPR_MARK back to FRAME_MARK, and  *)
(* lisp_end_env restores vm->env from the slot above FRAME_MARK: every   *)
(* live eval_expr finds its EXPR_MARK, and every live procedure its      *)
(* FRAME_MARK and saved env, where it pushed them, after any number of   *)
(* trampolined tail calls, self tail calls and catches.                   *)
CallstackMarks ==
  \A i \in DOMAIN cstack :
    /\ cstack[i].k = "apply" =>
         cstack[i].n + 1 <= Len(vstack) /\ vstack[cstack[i].n + 1].t = "mark"
    /\ cstack[i].k = "proc" =>
         /\ cstack[i].n + 2 <= Len(vstack)
         /\ vstack[cstack[i].n + 1].t = "frame"
         /\ vstack[cstack[i].n + 2].t = "env"

(* Tail calls take no depth: f and g call each other in tail position    *)
(* without end, and eval_expr never fails with "exceeding max depth"     *)
(* when MAX_DEPTH is the depth the program needs without them.           *)
NoMaxDepthError == lastRaise /= "depth"

=============================================================================
