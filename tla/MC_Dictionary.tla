---------------------------- MODULE MC_Dictionary ----------------------------
(***************************************************************************)
(* Dictionary instantiated for TLC.  DICT_LOOKUP_COUNT is scaled from 8   *)
(* to 2 so that the lookup table is built, grown and probed with a few    *)
(* pairs; the hashes make all three keys collide in a table of 8 slots    *)
(* (h % 7) and one of them wrap around its end.                           *)
(***************************************************************************)
EXTENDS Dictionary, TLC

CONSTANTS k1, k2, k3, v1, v2, undef, absent

MCKeys == {k1, k2, k3}
MCVals == {v1, v2}
MCHash == (k1 :> 0) @@ (k2 :> 7) @@ (k3 :> 13)

(* the type of every variable *)
TypeOK ==
  /\ cap \in {4, 8, 16} /\ alloc \in 1 .. MaxCap
  /\ items \in Seq([key : Keys, val : Vals \cup {Undef}]) /\ Len(items) <= MaxItems
  /\ tcap \in {0, 8, 16, 32}
  /\ table \in [0 .. TableCapMax - 1 -> 0 .. MaxItems]
  /\ \A i \in tcap .. TableCapMax - 1 : table[i] = NoPair
  /\ aborted \in BOOLEAN
  /\ result \in Vals \cup {Undef}

(* dict-get, dict-set!, dict-unset!, lisp_dict_add and lisp_dict_clear,   *)
(* looking keys up through the hash table once count > DICT_LOOKUP_COUNT, *)
(* implement a map in which the first pair added for a key is its binding *)
(* (what the brute-force search finds).                                   *)
Map == INSTANCE DictMap WITH
         mp <- [k \in Keys |-> IF LinearAssoc(k) = NoPair THEN absent
                               ELSE items[LinearAssoc(k)].val],
         Absent <- absent
MapRefinement == Map!Spec

(* lisp_array_push writes items[count] inside the block lisp_alloc gave   *)
(* the array: every pair and the table slot fit in `alloc' pointers.      *)
ItemsInBlock == Count <= alloc

=============================================================================
