------------------------------ MODULE Dictionary ------------------------------
(***************************************************************************)
(* One Lisp dictionary (src/src/lisp.c, "Dictionary"): a Lisp_Array whose *)
(* items[1..count-1] are binding pairs in the order they were added and   *)
(* whose items[0] is NULL or a lookup table, an array of the same pairs   *)
(* placed by open addressing with linear probing.  While count is at most *)
(* DICT_LOOKUP_COUNT a lookup is a linear search; beyond it the table is  *)
(* used.  A pair is named by its position in `items'.                     *)
(***************************************************************************)
EXTENDS Naturals, Sequences, SequencesExt, FiniteSets

CONSTANTS
  Keys,             \* symbols
  Vals,             \* values bound to them
  Undef,            \* LISP_UNDEF
  Hash,             \* lisp_string_hash, a function from Keys to Nat
  DictLookupCount,  \* DICT_LOOKUP_COUNT
  InitSizes,        \* the n of lisp_dict_new(vm, n) calls
  MaxItems          \* bound on the pairs a dictionary holds

BlkSize == 16   \* BLKSIZE
PtrSize == 8    \* sizeof(Lisp_Object*)

(* ROUND_BLOCK_SIZE: lisp_alloc's rounding; the pointers an allocation holds *)
AllocSlots(n) == (((n * PtrSize + BlkSize - 1) \div BlkSize) * BlkSize) \div PtrSize

(* lisp_array_new's recorded capacity *)
ArrayNewCap(n) == IF n > 4 THEN n ELSE 4

MaxCap == ArrayNewCap(MaxItems + 1) * 2
TableCapMax == 2 * MaxCap
NoPair == 0   \* NULL

VARIABLES
  cap,      \* dict->cap
  alloc,    \* the pointers the items block really holds
  items,    \* dict->items[1 .. count-1], records [key, val] (pair car, cdr)
  tcap,     \* items[0]->cap, or 0 while items[0] is NULL
  table,    \* items[0]->items: slot -> position in `items', or NoPair
  aborted,  \* assert(0) in add_to_lookup_table fired
  result    \* what the last dict-get pushed

vars == <<cap, alloc, items, tcap, table, aborted, result>>

Count == Len(items) + 1   \* dict->count

EmptyTable == [i \in 0 .. TableCapMax - 1 |-> NoPair]

(* the pairs in the table *)
Entries(t, tc) == {i \in 0 .. tc - 1 : t[i] /= NoPair}

RECURSIVE FreeSlotLate(_, _, _, _)
(* mutant of FreeSlot: the wrap test `++i >= cap' written as `> cap'     *)
FreeSlotLate(t, tc, i, n) ==
  IF n >= tc THEN -1
  ELSE IF t[i] = NoPair THEN i
  ELSE FreeSlotLate(t, tc, IF i + 1 > tc THEN 0 ELSE i + 1, n + 1)

RECURSIVE FreeSlot(_, _, _, _)
(* add_to_lookup_table's probe: first empty slot from i, or -1 after tc steps *)
FreeSlot(t, tc, i, n) ==
  IF n >= tc THEN -1
  ELSE IF t[i] = NoPair THEN i ELSE FreeSlot(t, tc, (i + 1) % tc, n + 1)

(* mutant of AddToLookupTable: probe from h % cap, unlike lookup *)
AddToLookupTableModCap(t, tc, k, p) ==
  LET s == FreeSlot(t, tc, Hash[k] % tc, 0)
  IN IF s < 0 THEN t ELSE [t EXCEPT ![s] = p]

(* add_to_lookup_table(table, pair p of key k) *)
AddToLookupTable(t, tc, k, p) ==
  LET s == FreeSlot(t, tc, Hash[k] % (tc - 1), 0)
  IN IF s < 0 THEN t ELSE [t EXCEPT ![s] = p]

RECURSIVE BuildTable(_, _, _)
(* a fresh table with the pairs its[1..i] added in order *)
BuildTable(its, tc, i) ==
  IF i = 0 THEN EmptyTable
  ELSE AddToLookupTable(BuildTable(its, tc, i - 1), tc, its[i].key, i)

RECURSIVE Probe(_, _, _)
(* lookup: follow the probe sequence to the key or to an empty slot *)
Probe(k, i, n) ==
  IF n >= tcap \/ table[i] = NoPair THEN NoPair
  ELSE IF items[table[i]].key = k THEN table[i]
  ELSE Probe(k, (i + 1) % tcap, n + 1)

(* the brute-force search of lisp_dict_assoc *)
LinearAssoc(k) == SelectInSeq(items, LAMBDA e : e.key = k)

(* lisp_dict_assoc *)
Assoc(k) ==
  IF Count > DictLookupCount THEN Probe(k, Hash[k] % (tcap - 1), 0)
                             ELSE LinearAssoc(k)

Init ==
  \E n \in InitSizes :
    /\ cap = ArrayNewCap(n) /\ alloc = AllocSlots(n)
    /\ items = <<>>
    /\ tcap = 0 /\ table = EmptyTable
    /\ aborted = FALSE
    /\ result = Undef

(* lisp_dict_add: lisp_array_push (growing when count = cap), then       *)
(* lisp_dict_add_item's index upkeep: a new table of 2*cap when there is *)
(* none or it is smaller than 2*cap, else the new pair added to it.      *)
DictAdd(k, v) ==
  LET grow == Count = cap
      cap1 == IF grow THEN 2 * cap ELSE cap
      its  == Append(items, [key |-> k, val |-> v])
      rebuild == tcap = 0 \/ tcap < cap1 * 2
      tc1  == ArrayNewCap(cap1 * 2)
  IN /\ ~aborted /\ Len(items) < MaxItems
     /\ cap' = cap1
     /\ alloc' = IF grow THEN AllocSlots(2 * cap) ELSE alloc
     /\ items' = its
     /\ IF Count + 1 > DictLookupCount
        THEN IF rebuild
             THEN /\ tcap' = tc1 /\ table' = BuildTable(its, tc1, Len(its))
                  /\ aborted' = (Len(its) > tc1)
             ELSE /\ table' = AddToLookupTable(table, tcap, k, Len(its))
                  /\ aborted' = (Cardinality(Entries(table, tcap)) = tcap)
                  /\ UNCHANGED tcap
        ELSE UNCHANGED <<tcap, table, aborted>>
     /\ UNCHANGED result

(* (dict ...), a #(...) literal (mkdict) or a let binding: lisp_dict_add *)
AddItem(k, v) == DictAdd(k, v)

(* dict-set!: update the pair lisp_dict_assoc finds, or add one *)
DictSet(k, v) ==
  /\ ~aborted
  /\ IF Assoc(k) /= NoPair
     THEN /\ items' = [items EXCEPT ![Assoc(k)].val = v]
          /\ UNCHANGED <<cap, alloc, tcap, table, aborted, result>>
     ELSE DictAdd(k, v)

(* dict-unset!: lisp_dict_remove binds the pair found to UNDEF *)
DictUnset(k) ==
  /\ ~aborted
  /\ IF Assoc(k) /= NoPair THEN items' = [items EXCEPT ![Assoc(k)].val = Undef]
                           ELSE UNCHANGED items
  /\ UNCHANGED <<cap, alloc, tcap, table, aborted, result>>

(* dict-get *)
DictGet(k) ==
  /\ ~aborted
  /\ result' = IF Assoc(k) /= NoPair THEN items[Assoc(k)].val ELSE Undef
  /\ UNCHANGED <<cap, alloc, items, tcap, table, aborted>>

(* lisp_dict_clear: drop the table and every pair, keep the items block *)
DictClear ==
  /\ ~aborted
  /\ items' = <<>> /\ tcap' = 0 /\ table' = EmptyTable
  /\ UNCHANGED <<cap, alloc, aborted, result>>

Next ==
  \/ \E k \in Keys, v \in Vals : AddItem(k, v) \/ DictSet(k, v)
  \/ \E k \in Keys : DictUnset(k) \/ DictGet(k)
  \/ DictClear

(* Every action requires ~aborted: an abort in add_to_lookup_table      *)
(* leaves no step, which TLC reports as a deadlock.                    *)
Spec == Init /\ [][Next]_vars
=============================================================================
