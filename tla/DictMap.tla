------------------------------- MODULE DictMap -------------------------------
(***************************************************************************)
(* What a Lisp dictionary promises: a finite map from symbols to values.  *)
(* A key is Absent until it is bound; dict-unset! leaves it bound to       *)
(* Undef.  Adding a binding for a key already bound changes nothing that   *)
(* can be looked up.  `result' is what the last dict-get returned.        *)
(***************************************************************************)
CONSTANTS Keys, Vals, Undef, Absent

VARIABLES mp, result

Init == mp = [k \in Keys |-> Absent] /\ result = Undef

Set(k, v) == mp' = [mp EXCEPT ![k] = v] /\ UNCHANGED result

Add(k, v) == mp[k] = Absent /\ Set(k, v)

Unset(k) == mp[k] /= Absent /\ mp' = [mp EXCEPT ![k] = Undef] /\ UNCHANGED result

Get(k) == result' = (IF mp[k] = Absent THEN Undef ELSE mp[k]) /\ UNCHANGED mp

Clear == mp' = [k \in Keys |-> Absent] /\ UNCHANGED result

Next == \/ \E k \in Keys, v \in Vals : Set(k, v) \/ Add(k, v)
        \/ \E k \in Keys : Unset(k) \/ Get(k)
        \/ Clear

Spec == Init /\ [][Next]_<<mp, result>>
=============================================================================
