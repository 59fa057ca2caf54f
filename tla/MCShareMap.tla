----------------------------- MODULE MCShareMap -----------------------------
(***************************************************************************)
(* Five keys in a map of four nodes: four of them share a bucket, so that  *)
(* a chain has a first, a middle and a last node, and the node that moves  *)
(* can be a neighbour of the one that goes, of the same chain or another.  *)
(***************************************************************************)
EXTENDS ShareMap, TLC

CONSTANT Alone  \* the key with a bucket of its own

MCHash == [k \in Keys |-> IF k = Alone THEN 1 ELSE 2]

(* Keys of one bucket, and values, are interchangeable. *)
Symmetric == Permutations(Keys \ {Alone}) \cup Permutations(Values)
=============================================================================
