----------------------------- MODULE Dictionary -----------------------------
(***************************************************************************)
(* What the share map promises its callers: a value for each key that was  *)
(* set and not removed, the last one that was set.                         *)
(***************************************************************************)
CONSTANTS Keys, Values, NoValue

VARIABLE dict

Init == dict = [k \in Keys |-> NoValue]

Set(k, v) == dict' = [dict EXCEPT ![k] = v]

Remove(k) == dict' = [dict EXCEPT ![k] = NoValue]

Next == \E k \in Keys : Remove(k) \/ \E v \in Values : Set(k, v)

Spec == Init /\ [][Next]_dict
=============================================================================
