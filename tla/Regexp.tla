------------------------------- MODULE Regexp -------------------------------
(***************************************************************************)
(* The regular-expression engine of regexp.c: the recursive-descent       *)
(* compiler (the regexp_compile functions), the look-ahead optimiser    *)
(* (regexp_program_optimize) and the backtracking virtual machine          *)
(* (regexp_vm_exec) as driven by op_regexp_match in lisp_regexp.c.         *)
(*                                                                         *)
(* A pattern is a sequence of tokens: one-character tokens ("a", "(",     *)
(* "|", "*", ...), two-character escapes ("\\w", "\\1", ...) and repeat    *)
(* counts ("{1,2}"); the parse of the digits by strtol is abstracted into  *)
(* the RepBounds table. Characters are code points below 128, so          *)
(* Utf8_decode reads one byte and CHAR32 is never emitted. Bracketed       *)
(* classes ("[...]", regexp_compile_cclass) are not modelled.              *)
(*                                                                         *)
(* The compiler and optimiser are pure operators; executing the program is *)
(* the state machine, one step per instruction of the exec loop.           *)
(***************************************************************************)
EXTENDS Integers, Sequences, SequencesExt

CONSTANTS
    Patterns,     \* the pattern strings given to regexp-compile
    Inputs,       \* the input strings given to regexp-match
    CharCode,     \* a character token -> its code point
    RepBounds,    \* a "{m,n}" token -> <<m, n>> as strtol reads them
    StackMax,     \* REGEXP_VM_STACK_MAX, the backtrack stack depth
    CheckMax,     \* REGEXP_VM_CHECK_MAX, the PROGRESS check points
    MaxBackref    \* REGEXP_MAX_BACKREF

Nul == "\\0"                        \* the terminating NUL of the pattern
Tok(p, s) == IF s <= Len(p) THEN p[s] ELSE Nul

\* An instruction (struct regexp_inst): op, the byte a and the 16-bit b.
Inst(op, a, b) == [op |-> op, a |-> a, b |-> b]

\* The predefined classes (regexp_cclasses), restricted to ASCII.
DIGIT == 48..57
SPACE == {9, 10, 11, 12, 13, 32}
WORD  == DIGIT \cup 65..90 \cup 97..122 \cup {95}
Class == [c \in {"DIGIT", "SPACE", "WORD", "ANY", "ALL"} |->
            CASE c = "DIGIT" -> DIGIT
              [] c = "SPACE" -> SPACE
              [] c = "WORD"  -> WORD
              [] c = "ANY"   -> (0..127) \ {10, 13}
              [] c = "ALL"   -> 0..127]

\* isword(): isalnum(ch) || ch == '_'; isalnum(-1) is false.
IsWord(ch) == ch \in WORD

\* The escapes of regexp_compile_atom that emit one fixed instruction.
Escape == [e \in {"\\w", "\\W", "\\d", "\\D", "\\s", "\\S", "\\b", "\\B",
                  "\\n", "\\t", "\\r"} |->
             CASE e = "\\w" -> Inst("CCLASS", "WORD", 0)
               [] e = "\\W" -> Inst("NCCLASS", "WORD", 0)
               [] e = "\\d" -> Inst("CCLASS", "DIGIT", 0)
               [] e = "\\D" -> Inst("NCCLASS", "DIGIT", 0)
               [] e = "\\s" -> Inst("CCLASS", "SPACE", 0)
               [] e = "\\S" -> Inst("NCCLASS", "SPACE", 0)
               [] e = "\\b" -> Inst("BOUNDARY", 0, 0)
               [] e = "\\B" -> Inst("NBOUNDARY", 0, 0)
               [] e = "\\n" -> Inst("CHAR", 0, 10)
               [] e = "\\t" -> Inst("CHAR", 0, 9)
               [] e = "\\r" -> Inst("CHAR", 0, 13)]
BackrefTok == [t \in {"\\1", "\\2", "\\3"} |->
                 CASE t = "\\1" -> 1 [] t = "\\2" -> 2 [] t = "\\3" -> 3]

(***************************************************************************)
(* The compiling context (struct regexp_comp with its program): the code, *)
(* subexpr_level, save_index, check_index, and err for the longjmp of     *)
(* regexp_compile_err. A compiling step returns [s, c]: the pattern       *)
(* position after what it compiled and the context.                        *)
(***************************************************************************)
Failed(c) == [c EXCEPT !.err = TRUE]
Ret(s, c) == [s |-> s, c |-> c]

regexp_emit(c, i) == [c EXCEPT !.code = Append(@, i)]

\* regexp_program_insert_inst: a negative loc counts from the end.
regexp_emit_at(c, loc, i) ==
    LET l == IF loc < 0 THEN Len(c.code) + loc ELSE loc
    IN  [c EXCEPT !.code = InsertAt(@, l + 1, i)]

\* regexp_program_dup: append a copy of the last n instructions.
regexp_emit_dup(c, n) ==
    [c EXCEPT !.code = @ \o SubSeq(@, Len(@) - n + 1, Len(@))]

regexp_program_pop(c, n) == [c EXCEPT !.code = SubSeq(@, 1, Len(@) - n)]

\* regexp_emit_save drops indexes past the 16 save pairs.
regexp_emit_save(c, index) ==
    IF index > MaxBackref * 2 + 1 THEN c
    ELSE regexp_emit(c, Inst("SAVE", 0, index))

\* regexp_will_advance_pos: the first instruction that decides is one that
\* reads a character; a split or a jump before it gives up.
regexp_will_advance_pos(code) ==
    LET k == SelectInSeq(code, LAMBDA i : i.op \in {"CHAR", "CHAR32",
                              "CCLASS", "NCCLASS", "SPLIT1", "SPLIT2", "JMP"})
    IN  k > 0 /\ code[k].op \in {"CHAR", "CHAR32", "CCLASS", "NCCLASS"}

RECURSIVE regexp_compile_alt(_, _, _), regexp_compile_cat(_, _, _),
          regexp_compile_rep(_, _, _), regexp_compile_atom(_, _, _),
          regexp_compile_subexpr(_, _, _)

\* The end of ( alt ): r is what regexp_compile_alt returned inside it.
SubexprClose(p, r) ==
    LET c2 == [r.c EXCEPT !.level = @ - 1] IN
    CASE r.c.err              -> r
      [] Tok(p, r.s) # ")"    -> Ret(r.s, Failed(r.c))
      [] c2.level = 0         ->
           Ret(r.s + 1, regexp_emit_save([c2 EXCEPT !.save = @ + 1], c2.save))
      [] OTHER                -> Ret(r.s + 1, c2)

\* ( alt ): the outermost group saves its bounds in save_index pairs.
regexp_compile_subexpr(p, s, c) ==
    LET c1 == IF c.level = 0
              THEN regexp_emit_save([c EXCEPT !.save = @ + 1], c.save)
              ELSE c
    IN  SubexprClose(p, regexp_compile_alt(p, s, [c1 EXCEPT !.level = @ + 1]))

regexp_compile_atom(p, s, c) ==
    LET t == Tok(p, s) IN
    CASE t \in {Nul, "|", ")"}                 -> Ret(s, c)
      [] t \in {"*", "+", "?", "{", "}"} \cup DOMAIN RepBounds
                                               -> Ret(s, Failed(c))
      [] t = "^"  -> Ret(s + 1, regexp_emit(c, Inst("BOL", 0, 0)))
      [] t = "$"  -> Ret(s + 1, regexp_emit(c, Inst("EOL", 0, 0)))
      [] t = "("  -> regexp_compile_subexpr(p, s + 1, c)
      [] t = "."  -> Ret(s + 1, regexp_emit(c, Inst("CCLASS", "ANY", 0)))
      [] t \in DOMAIN Escape     -> Ret(s + 1, regexp_emit(c, Escape[t]))
      [] t \in DOMAIN BackrefTok ->
             Ret(s + 1, regexp_emit(c, Inst("BACKREF", BackrefTok[t], 0)))
      [] t \in DOMAIN CharCode   ->
             Ret(s + 1, regexp_emit(c, Inst("CHAR", 0, CharCode[t])))
      [] OTHER                   -> Ret(s, Failed(c))

\* The split that tries the next instruction first is SPLIT1; "forward" is
\* whether the greedy form of this construct uses it.
Split(greedy, forward) == IF greedy = forward THEN "SPLIT1" ELSE "SPLIT2"

\* e*, e+, e?, e{m,n}, each optionally lazy: the code of e is already at
\* the end of c.code, len instructions long.
RepInfinite(c, m, greedy, len) ==
    LET sc == IF regexp_will_advance_pos(SubSeq(c.code, Len(c.code) - len + 1,
                                                Len(c.code)))
              THEN 0 ELSE 1
        c1 == IF sc = 1
              THEN [regexp_emit(c, Inst("PROGRESS", c.check, 0))
                       EXCEPT !.check = @ + 1]
              ELSE c
    IN  IF m = 0
        THEN LET c0 == regexp_emit_at(c, -len,
                           Inst(Split(greedy, TRUE), 0, len + 1 + sc))
                 c2 == IF sc = 1
                       THEN [regexp_emit(c0, Inst("PROGRESS", c0.check, 0))
                                EXCEPT !.check = @ + 1]
                       ELSE c0
             IN  regexp_emit(c2, Inst("JMP", 0, -(len + 2 + sc)))
        ELSE regexp_emit(c1, Inst(Split(greedy, FALSE), 0, -(len + 1 + sc)))

RECURSIVE DupTimes(_, _, _)
DupTimes(c, n, k) == IF k <= 0 THEN c ELSE DupTimes(regexp_emit_dup(c, n), n, k - 1)

RepFinite(c, m, n, greedy, len) ==
    LET c1 == DupTimes(c, len, m - 1)
        c2 == IF m > 0 THEN regexp_emit_dup(c1, len) ELSE c1
        c3 == regexp_emit_at(c2, -len, Inst(Split(greedy, TRUE), 0, len))
    IN  CASE m = n /\ m = 0 -> regexp_program_pop(c1, len)
          [] m = n          -> c1
          [] OTHER          -> DupTimes(c3, len + 1, (n - m) - 1)

\* The quantifier after an atom: r is what regexp_compile_atom returned, the
\* atom's code starting after index start.
RepQuantify(p, r, start) ==
    LET t     == Tok(p, r.s)
        mn    == CASE t = "*" -> <<0, -1>>
                   [] t = "+" -> <<1, -1>>
                   [] t = "?" -> <<0, 1>>
                   [] OTHER   -> RepBounds[t]
        lazy  == Tok(p, r.s + 1) = "?"
        s1    == IF lazy THEN r.s + 2 ELSE r.s + 1
        len   == Len(r.c.code) - start
    IN  CASE r.c.err -> r
          [] t \notin {"*", "+", "?"} \cup DOMAIN RepBounds -> r
          [] mn[2] >= 0 /\ (mn[1] < 0 \/ mn[2] < mn[1]) -> Ret(s1, Failed(r.c))
          [] mn[2] < 0 /\ len = 0 -> Ret(s1, Failed(r.c))
          [] mn[2] < 0 -> Ret(s1, RepInfinite(r.c, mn[1], ~lazy, len))
          [] OTHER     -> Ret(s1, RepFinite(r.c, mn[1], mn[2], ~lazy, len))

regexp_compile_rep(p, s, c) ==
    RepQuantify(p, regexp_compile_atom(p, s, c), Len(c.code))

\* One more rep of a concatenation, and the rest of it.
CatNext(p, r) == IF r.c.err THEN r ELSE regexp_compile_cat(p, r.s, r.c)

regexp_compile_cat(p, s, c) ==
    IF Tok(p, s) \in {Nul, ")", "|"} THEN Ret(s, c)
    ELSE CatNext(p, regexp_compile_rep(p, s, c))

\* mutant of AltPatch: the offset counts one instruction too many
AltPatchLong(r2, jmp) ==
    IF r2.c.err THEN r2
    ELSE Ret(r2.s, [r2.c EXCEPT !.code[jmp].b = Len(r2.c.code) - jmp + 1])

\* The JMP at index jmp, emitted after e1, jumps past e2: r2 is what
\* regexp_compile_alt returned for e2.
AltPatch(r2, jmp) ==
    IF r2.c.err THEN r2
    ELSE Ret(r2.s, [r2.c EXCEPT !.code[jmp].b = Len(r2.c.code) - jmp])

\* What follows e1, whose code starts after index start: r is what
\* regexp_compile_cat returned for it.
AltRest(p, r, start) ==
    LET c1 == regexp_emit(regexp_emit_at(r.c, start,
                  Inst("SPLIT1", 0, Len(r.c.code) - start + 1)),
                  Inst("JMP", 0, 0))
    IN  CASE r.c.err                  -> r
          [] Tok(p, r.s) = "|"        ->
               AltPatch(regexp_compile_alt(p, r.s + 1, c1), Len(c1.code))
          [] Tok(p, r.s) \notin {Nul, ")"} -> Ret(r.s, Failed(r.c))
          [] OTHER                    -> r

\* e1 | e2  =>  SPLIT1 L1; e1; JMP L2; L1: e2; L2:
regexp_compile_alt(p, s, c) ==
    AltRest(p, regexp_compile_cat(p, s, c), Len(c.code))

(***************************************************************************)
(* regexp_program_look_ahead: the first byte the code from index i can    *)
(* read, 0 when it cannot tell. It walks two cursors, the index i and the *)
(* instruction pointer ip; a forward JMP moves i to its target but leaves *)
(* ip where it was, and both then advance by one.                         *)
(***************************************************************************)
RECURSIVE LookAhead(_, _, _)
LookAhead(code, i, ip) ==
    IF i >= Len(code) THEN 0
    ELSE LET op == code[ip + 1].op
             b  == code[ip + 1].b
         IN  CASE op = "CHAR"                 -> b
               [] op = "JMP" /\ b >= 0        -> LookAhead(code, i + 1 + b + 1, ip + 1)
               [] op \in {"PROGRESS", "SAVE", "BOL", "BOUNDARY", "NBOUNDARY", "NOP"}
                                              -> LookAhead(code, i + 1, ip + 1)
               [] OTHER                       -> 0

regexp_program_look_ahead(code, i) == LookAhead(code, i, i)

\* regexp_program_optimize: each split learns the first byte of the branch
\* it saves for later (SPLIT1 its target, SPLIT2 the next instruction).
regexp_program_optimize(code) ==
    [k \in DOMAIN code |->
        CASE code[k].op = "SPLIT1" ->
               [code[k] EXCEPT !.a = regexp_program_look_ahead(code, k + code[k].b)]
          [] code[k].op = "SPLIT2" ->
               [code[k] EXCEPT !.a = regexp_program_look_ahead(code, k)]
          [] OTHER -> code[k]]

\* regexp_compile_start with REGEXP_COMPOPT_UNANCHORED, as op_regexp_compile
\* calls it; the result is the program, or err when regexp_compile fails.
regexp_compile(p) ==
    LET c0 == [code |-> <<Inst("SPLIT2", 0, 2), Inst("CCLASS", "ALL", 0),
                          Inst("JMP", 0, -3)>>,
               level |-> 0, save |-> 2, check |-> 0, err |-> FALSE]
        r  == regexp_compile_alt(p, 1, regexp_emit_save(c0, 0))
    IN  IF r.c.err \/ Tok(p, r.s) # Nul
        THEN [err |-> TRUE, code |-> <<>>]
        ELSE [err |-> FALSE,
              code |-> regexp_program_optimize(
                          regexp_emit(r.c, Inst("MATCH", 0, 0)).code)]
-----------------------------------------------------------------------------
(***************************************************************************)
(* The VM (struct regexp_vm) running one regexp-match: op_regexp_match    *)
(* sets the string input, resets the VM, sets the start position and      *)
(* calls regexp_vm_exec, which runs until status leaves READY. An assert  *)
(* that fails aborts the process: status ABORT.                            *)
(***************************************************************************)
VARIABLES
    pattern,      \* the pattern compiled by regexp-compile
    code,         \* prog->code
    input,        \* the input string, as code points
    startPos,     \* start-pos of regexp-match
    ip,           \* vm->ip
    pos,          \* vm->input.pos
    stack,        \* vm->stack[0..sp-1], each [next_ip, pos]
    status,       \* vm->status
    saveMask,     \* the bits set in vm->save_mask
    savePos,      \* vm->save_pos
    checkPoints,  \* vm->check_points
    backref       \* vm->backref: [begin, end]

vars == <<pattern, code, input, startPos, ip, pos, stack, status, saveMask,
          savePos, checkPoints, backref>>

Init ==
    /\ \E p \in Patterns :
         LET prog == regexp_compile(p) IN
         /\ ~prog.err
         /\ pattern = p
         /\ code = prog.code
    /\ input \in Inputs
    /\ startPos \in 0..Len(input)
    /\ ip = 0 /\ pos = startPos /\ stack = <<>> /\ status = "READY"
    /\ saveMask = {}
    /\ savePos = [i \in 0..31 |-> 0]
    /\ checkPoints = [i \in 0..CheckMax - 1 |-> 0]
    /\ backref = [begin |-> 0, end |-> 0]     \* calloc in regexp_vm_create

\* The character at a position (_regexp_vm_getchar), -1 at the end.
CharAt(k) == IF k < Len(input) THEN input[k + 1] ELSE -1
\* regexp_vm_get_previous_char
PrevChar == IF pos <= 0 THEN -1 ELSE input[pos]
\* regexp_vm_get_byte_at_pos: the terminating NUL reads as 0.
ByteAt(k) == IF k < Len(input) THEN input[k + 1] ELSE 0

\* Fetch: the instruction at ip when the loop runs one more instruction.
Running(op) ==
    /\ status = "READY"
    /\ ip \in 0..Len(code) - 1
    /\ code[ip + 1].op = op
I == code[ip + 1]

\* An input action of kind GET advances past the character it read.
Got == CharAt(pos)
PosAfterGet == IF Got >= 0 THEN pos + 1 ELSE pos

Continue(nip, npos) ==
    /\ ip' = nip /\ pos' = npos
    /\ UNCHANGED <<stack, status>>

\* regexp_vm_backtrack: resume the newest saved state, or fail the match.
regexp_vm_backtrack(nip, npos) ==
    IF stack # <<>>
    THEN /\ ip' = Last(stack).next_ip /\ pos' = Last(stack).pos
         /\ stack' = Front(stack)
         /\ UNCHANGED status
    ELSE /\ ip' = nip /\ pos' = npos
         /\ status' = "UNMATCH"
         /\ UNCHANGED stack

Test(ok, nip, npos) ==
    IF ok THEN Continue(nip, npos) ELSE regexp_vm_backtrack(nip, npos)

\* regexp_vm_save_state: push, or stop with an error at REGEXP_VM_STACK_MAX.
regexp_vm_save_state(curr, nip) ==
    IF Len(stack) >= StackMax
    THEN status' = "ERROR" /\ UNCHANGED stack
    ELSE stack' = Append(stack, [next_ip |-> nip, pos |-> curr])
         /\ UNCHANGED status

Unchanged(v) == UNCHANGED <<pattern, code, input, startPos>> /\ UNCHANGED v

ExecMatch ==
    /\ Running("MATCH")
    /\ savePos' = [savePos EXCEPT ![1] = pos]
    /\ saveMask' = saveMask \cup {1}
    /\ status' = "MATCH" /\ ip' = ip + 1
    /\ Unchanged(<<pos, stack, checkPoints, backref>>)

ExecSave ==
    /\ Running("SAVE")
    /\ savePos' = [savePos EXCEPT ![I.b] = pos]
    /\ saveMask' = saveMask \cup {I.b}
    /\ Continue(ip + 1, pos)
    /\ Unchanged(<<checkPoints, backref>>)

\* Beginning of line: after \n, or after a \r that is not followed by \n.
ExecBol ==
    /\ Running("BOL")
    /\ Test(PrevChar = -1 \/ PrevChar = 10 \/ (PrevChar = 13 /\ Got # 10),
            ip + 1, pos)
    /\ Unchanged(<<saveMask, savePos, checkPoints, backref>>)

ExecEol ==
    /\ Running("EOL")
    /\ Test(Got = -1 \/ Got = 13 \/ (Got = 10 /\ PrevChar # 13), ip + 1, pos)
    /\ Unchanged(<<saveMask, savePos, checkPoints, backref>>)

ExecBoundary ==
    /\ Running("BOUNDARY")
    /\ Test(IsWord(PrevChar) # IsWord(Got), ip + 1, pos)
    /\ Unchanged(<<saveMask, savePos, checkPoints, backref>>)

ExecNBoundary ==
    /\ Running("NBOUNDARY")
    /\ Test(IsWord(PrevChar) = IsWord(Got), ip + 1, pos)
    /\ Unchanged(<<saveMask, savePos, checkPoints, backref>>)

ExecCclass ==
    /\ Running("CCLASS")
    /\ Test(Got # -1 /\ Got \in Class[I.a], ip + 1, PosAfterGet)
    /\ Unchanged(<<saveMask, savePos, checkPoints, backref>>)

\* mutant of ExecNcclass: the end of the input passes a negated class
ExecNcclassEof ==
    /\ Running("NCCLASS")
    /\ Test(Got \notin Class[I.a], ip + 1, PosAfterGet)
    /\ Unchanged(<<saveMask, savePos, checkPoints, backref>>)

ExecNcclass ==
    /\ Running("NCCLASS")
    /\ Test(Got # -1 /\ Got \notin Class[I.a], ip + 1, PosAfterGet)
    /\ Unchanged(<<saveMask, savePos, checkPoints, backref>>)

ExecChar ==
    /\ Running("CHAR")
    /\ Test(Got = I.b, ip + 1, PosAfterGet)
    /\ Unchanged(<<saveMask, savePos, checkPoints, backref>>)

ExecJmp ==
    /\ Running("JMP")
    /\ Continue(ip + 1 + I.b, pos)
    /\ Unchanged(<<saveMask, savePos, checkPoints, backref>>)

\* SPLIT1 goes on and saves its target, unless the look-ahead byte a is
\* set and differs from the next input byte.
ExecSplit1 ==
    /\ Running("SPLIT1")
    /\ ip' = ip + 1 /\ pos' = pos
    /\ IF I.a # 0 /\ I.a # Got
       THEN UNCHANGED <<stack, status>>
       ELSE regexp_vm_save_state(pos, ip + 1 + I.b)
    /\ Unchanged(<<saveMask, savePos, checkPoints, backref>>)

\* SPLIT2 jumps to its target, saving the next instruction under the same
\* look-ahead test.
ExecSplit2 ==
    /\ Running("SPLIT2")
    /\ ip' = ip + 1 + I.b /\ pos' = pos
    /\ IF I.a = 0 \/ I.a = Got
       THEN regexp_vm_save_state(pos, ip + 1)
       ELSE UNCHANGED <<stack, status>>
    /\ Unchanged(<<saveMask, savePos, checkPoints, backref>>)

\* mutant of ExecProgress: the check point is recorded but never tested
ExecProgressNoCheck ==
    /\ Running("PROGRESS")
    /\ ip' = ip + 1
    /\ checkPoints' = [checkPoints EXCEPT ![I.a] = pos]
    /\ Unchanged(<<pos, stack, status, saveMask, savePos, backref>>)

\* PROGRESS gives up with an error when the loop body has not moved the
\* position since this check point was last passed.
ExecProgress ==
    /\ Running("PROGRESS")
    /\ ip' = ip + 1
    /\ IF checkPoints[I.a] = pos
       THEN status' = "ERROR" /\ UNCHANGED checkPoints
       ELSE checkPoints' = [checkPoints EXCEPT ![I.a] = pos]
            /\ UNCHANGED status
    /\ Unchanged(<<pos, stack, saveMask, savePos, backref>>)
(***************************************************************************)
(* BACKREF \i compares the input with the text group i matched, one byte  *)
(* per execution: vm->backref holds the part still to compare, and the    *)
(* instruction re-executes itself until it is empty. A new comparison    *)
(* starts only when begin = end.                                           *)
(***************************************************************************)
BackrefFresh == backref.begin = backref.end
BackrefRange ==
    IF BackrefFresh
    THEN [begin |-> savePos[2 * I.a], end |-> savePos[2 * I.a + 1]]
    ELSE backref

\* The group matched the empty string: nothing to compare.
ExecBackrefEmpty ==
    /\ Running("BACKREF")
    /\ BackrefFresh /\ BackrefRange.begin = BackrefRange.end
    /\ backref' = BackrefRange
    /\ Continue(ip + 1, pos)
    /\ Unchanged(<<saveMask, savePos, checkPoints>>)

\* assert(vm->backref.begin < vm->backref.end)
ExecBackrefAbort ==
    /\ Running("BACKREF")
    /\ ~(BackrefFresh /\ BackrefRange.begin = BackrefRange.end)
    /\ ~(BackrefRange.begin < BackrefRange.end)
    /\ status' = "ABORT" /\ backref' = BackrefRange
    /\ Unchanged(<<ip, pos, stack, saveMask, savePos, checkPoints>>)

ExecBackrefByte ==
    /\ Running("BACKREF")
    /\ BackrefRange.begin < BackrefRange.end
    /\ LET br == BackrefRange
           b0 == ByteAt(br.begin)
       IN  IF b0 = Got
           THEN /\ backref' = [br EXCEPT !.begin = @ + 1]
                /\ Continue(IF br.begin + 1 # br.end THEN ip ELSE ip + 1,
                            PosAfterGet)
           ELSE /\ backref' = br
                /\ regexp_vm_backtrack(ip + 1, PosAfterGet)
    /\ Unchanged(<<saveMask, savePos, checkPoints>>)

Next ==
    \/ ExecMatch \/ ExecSave \/ ExecBol \/ ExecEol
    \/ ExecBoundary \/ ExecNBoundary \/ ExecCclass \/ ExecNcclass
    \/ ExecChar \/ ExecJmp \/ ExecSplit1 \/ ExecSplit2 \/ ExecProgress
    \/ ExecBackrefEmpty \/ ExecBackrefAbort \/ ExecBackrefByte

\* regexp_vm_exec returns once status leaves READY: a run of the VM stops.
Spec == Init /\ [][Next]_vars

\* regexp_vm_exec's while loop executes the next instruction for as long as
\* the status is READY; nothing else runs on the VM meanwhile.
FairSpec == Spec /\ WF_vars(Next)
====
