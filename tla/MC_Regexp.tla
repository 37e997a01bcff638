------------------------------ MODULE MC_Regexp ------------------------------
(***************************************************************************)
(* Model-checking instance of Regexp: every token string up to             *)
(* MaxPatLen over a small token alphabet is compiled, and each program     *)
(* that compiles is run on every short input from every start position.   *)
(*                                                                         *)
(* The reference matcher below is written from the meaning of a regular    *)
(* expression, not from the compiler: Ends(lo, hi, i) is the set of input  *)
(* positions j such that the pattern tokens lo..hi-1 match input[i+1..j].  *)
(***************************************************************************)
EXTENDS Regexp, FiniteSets

MaxPatLen == 6
PatTokens == {"a", "(", ")", "|", "?"}
MCPatterns == BoundedSeq(PatTokens, MaxPatLen)
MCInputs == BoundedSeq({97, 99}, 1)          \* "a" and "c"
MCCharCode == [t \in {"a", "b", "c"} |->
                 CASE t = "a" -> 97 [] t = "b" -> 98 [] t = "c" -> 99]
MCRepBounds == [t \in {} |-> <<0, 0>>]

\* Every instruction kind: anchors, boundaries, classes, loops whose body
\* may not advance (PROGRESS), and a backreference; inputs of "a" and "1".
PassTokens == {"a", "(", ")", "|", "*", "?", "^", "$", "\\b", "\\B", ".",
               "\\D", "\\1"}
\* with the shortest ones whose backreference compares bytes: (a)\1, (a*)\1
PassPatterns == BoundedSeq(PassTokens, 3) \cup
                {<<"(", "a", ")", "\\1">>, <<"(", "a", "*", ")", "\\1">>}
PassInputs == BoundedSeq({97, 49}, 2)

\* A group and its backreference: (.)\1 (any byte twice), (a|b)\1, (.*)\1,
\* against every input of up to three bytes over "a" and "b".
RepeatPatterns == {<<"(", ".", ")", "\\1">>, <<"(", "a", "|", "b", ")", "\\1">>,
                   <<"(", ".", "*", ")", "\\1">>}
RepeatInputs == BoundedSeq({97, 98}, 3)

TypeOK ==
    /\ status \in {"READY", "MATCH", "UNMATCH", "ERROR", "ABORT"}
    /\ ip \in Int /\ pos \in 0..Len(input)
    /\ stack \in Seq([next_ip : Int, pos : 0..Len(input)])
    /\ Len(stack) <= StackMax

-----------------------------------------------------------------------------
\* The reference matcher over the tokens of pattern p and the input s.
Depth(p, lo, k) ==
    Cardinality({j \in lo..k - 1 : p[j] = "("})
      - Cardinality({j \in lo..k - 1 : p[j] = ")"})

\* The first "|" of lo..hi-1 outside every group, or 0.
TopBar(p, lo, hi) ==
    LET bars == {k \in lo..hi - 1 : p[k] = "|" /\ Depth(p, lo, k) = 0}
    IN  IF bars = {} THEN 0 ELSE CHOOSE k \in bars : \A j \in bars : k <= j

\* One past the atom that starts at lo: a group runs to its ")".
AtomEnd(p, lo) ==
    IF p[lo] = "("
    THEN 1 + CHOOSE k \in lo + 1..Len(p) :
                 /\ p[k] = ")" /\ Depth(p, lo + 1, k) = 0
                 /\ \A j \in lo + 1..k - 1 : ~(p[j] = ")" /\ Depth(p, lo + 1, j) = 0)
    ELSE lo + 1

Quantifiers == {"*", "+", "?"} \cup DOMAIN RepBounds
\* One past the atom and its quantifier, with the lazy "?" after it.
UnitEnd(p, lo) ==
    LET ae == AtomEnd(p, lo)
    IN  CASE ae > Len(p)                               -> ae
          [] p[ae] \notin Quantifiers                  -> ae
          [] ae + 1 <= Len(p) /\ p[ae + 1] = "?"       -> ae + 2
          [] OTHER                                     -> ae + 1

LineStart(s, i) == i = 0 \/ s[i] = 10 \/ (s[i] = 13 /\ (i = Len(s) \/ s[i + 1] # 10))
LineEnd(s, i)   == i = Len(s) \/ s[i + 1] = 13 \/ (s[i + 1] = 10 /\ (i = 0 \/ s[i] # 13))
WordAt(s, i)    == i \in 1..Len(s) /\ IsWord(s[i])
Boundary(s, i)  == WordAt(s, i) # WordAt(s, i + 1)
OneChar(s, i, S) == IF i < Len(s) /\ s[i + 1] \in S THEN {i + 1} ELSE {}

RECURSIVE Ends(_, _, _, _, _), CatEnds(_, _, _, _, _), AtomEnds(_, _, _, _),
          Closure(_, _, _, _, _)

Ends(p, s, lo, hi, i) ==
    LET k == TopBar(p, lo, hi)
    IN  IF k = 0 THEN CatEnds(p, s, lo, hi, i)
        ELSE CatEnds(p, s, lo, k, i) \cup Ends(p, s, k + 1, hi, i)

AtomEnds(p, s, lo, i) ==
    LET t == p[lo] IN
    CASE t = "("  -> Ends(p, s, lo + 1, AtomEnd(p, lo) - 1, i)
      [] t = "^"  -> IF LineStart(s, i) THEN {i} ELSE {}
      [] t = "$"  -> IF LineEnd(s, i) THEN {i} ELSE {}
      [] t = "\\b" -> IF Boundary(s, i) THEN {i} ELSE {}
      [] t = "\\B" -> IF Boundary(s, i) THEN {} ELSE {i}
      [] t = "."  -> OneChar(s, i, Class["ANY"])
      [] t \in DOMAIN Escape /\ Escape[t].op = "CCLASS" ->
                     OneChar(s, i, Class[Escape[t].a])
      [] t \in DOMAIN Escape /\ Escape[t].op = "NCCLASS" ->
                     OneChar(s, i, (0..127) \ Class[Escape[t].a])
      [] t \in DOMAIN Escape -> OneChar(s, i, {Escape[t].b})
      [] OTHER    -> OneChar(s, i, {CharCode[t]})

\* The positions reached from the set S by n or fewer more repetitions.
Closure(p, s, lo, S, n) ==
    IF n = 0 THEN S
    ELSE Closure(p, s, lo, S \cup UNION {AtomEnds(p, s, lo, j) : j \in S}, n - 1)

\* Exactly k repetitions, starting from the set S.
RECURSIVE Power(_, _, _, _, _)
Power(p, s, lo, S, k) ==
    IF k = 0 THEN S ELSE Power(p, s, lo, UNION {AtomEnds(p, s, lo, j) : j \in S}, k - 1)

UnitEnds(p, s, lo, i) ==
    LET ae == AtomEnd(p, lo)
        q  == IF ae <= Len(p) THEN p[ae] ELSE Nul
        one == AtomEnds(p, s, lo, i)
    IN  CASE q = "?" -> {i} \cup one
          [] q = "*" -> Closure(p, s, lo, {i}, Len(s) + 1)
          [] q = "+" -> Closure(p, s, lo, one, Len(s) + 1)
          [] q \in DOMAIN RepBounds ->
               UNION {Power(p, s, lo, {i}, k) : k \in RepBounds[q][1]..RepBounds[q][2]}
          [] OTHER   -> one

CatEnds(p, s, lo, hi, i) ==
    IF lo >= hi THEN {i}
    ELSE UNION {CatEnds(p, s, UnitEnd(p, lo), hi, j) : j \in UnitEnds(p, s, lo, i)}

\* Some substring of the input at or after start-pos matches the pattern.
RefMatches == \E st \in startPos..Len(input) : Ends(pattern, input, 1, Len(pattern) + 1, st) # {}

-----------------------------------------------------------------------------
(***************************************************************************)
(* NoMissedMatch: regexp_vm_exec reports UNMATCH, and regexp-match returns *)
(* #f, only when no substring of the input from start-pos on matches the  *)
(* pattern. The look-ahead byte that regexp_program_optimize stores in a  *)
(* split lets the VM skip saving a branch; the skip is sound only if the  *)
(* byte is really the first one that branch can read.                      *)
(***************************************************************************)
NoMissedMatch == status = "UNMATCH" => ~RefMatches

\* The reference matcher has no backreferences.
HasBackref(p) == \E i \in DOMAIN p : p[i] \in DOMAIN BackrefTok

(***************************************************************************)
(* NoFalseMatch: when regexp_vm_exec reports MATCH, the text between the  *)
(* positions SAVE 0 and MATCH recorded (save_pos[0], save_pos[1], which   *)
(* regexp-match returns) starts at or after start-pos and matches the     *)
(* whole pattern. The compiled jumps and splits, the look-ahead bytes and *)
(* the backtracking all bear on it.                                        *)
(***************************************************************************)
NoFalseMatch ==
    status = "MATCH" /\ ~HasBackref(pattern) =>
        /\ savePos[0] >= startPos
        /\ savePos[1] \in Ends(pattern, input, 1, Len(pattern) + 1, savePos[0])

(***************************************************************************)
(* IpInRange: every jump and split offset regexp_compile computes lands   *)
(* inside the program, so regexp_vm_exec's range check on vm->ip          *)
(* (regexp.c:1065) never fires while the VM runs.                          *)
(***************************************************************************)
IpInRange == status = "READY" => ip \in 0..Len(code) - 1

(***************************************************************************)
(* Terminates: regexp_vm_exec returns on every pattern and input. Loops   *)
(* whose body may not advance are cut by PROGRESS check points and the    *)
(* backtrack stack is bounded by REGEXP_VM_STACK_MAX.                      *)
(***************************************************************************)
Terminates == <>(status # "READY")

\* A pattern (X)\1: one group, with no backreference inside, repeated.
RepeatPattern(p) ==
    /\ Len(p) >= 4 /\ p[1] = "(" /\ p[Len(p)] = "\\1"
    /\ AtomEnd(p, 1) = Len(p) /\ ~HasBackref(SubSeq(p, 1, Len(p) - 1))

\* The bytes input[st+1..e] occur again right after e.
Repeated(s, st, e) ==
    e + (e - st) <= Len(s) /\ \A k \in 1..e - st : s[st + k] = s[e + k]

\* Some substring from start-pos on is a match of X followed by its copy.
RefRepeatMatches ==
    \E st \in startPos..Len(input) :
        \E e \in Ends(pattern, input, 2, Len(pattern) - 1, st) : Repeated(input, st, e)

(***************************************************************************)
(* NoMissedRepeat: for a pattern (X)\1, regexp_vm_exec reports UNMATCH    *)
(* only when no substring from start-pos on is a match of X followed by   *)
(* the same bytes again. BACKREF keeps the comparison it has begun in     *)
(* vm->backref ("If this is a new backref"), and regexp_vm_backtrack does *)
(* not reset it.                                                           *)
(***************************************************************************)
NoMissedRepeat == status = "UNMATCH" /\ RepeatPattern(pattern) => ~RefRepeatMatches
====
