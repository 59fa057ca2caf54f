---------------------------- MODULE MCStoreFlush ----------------------------
(* Two keys in one table, the fewest flush leaves one of. *)
EXTENDS StoreFlush, TLC

CONSTANTS k1, k2, t1

MCTableOf == (k1 :> t1) @@ (k2 :> t1)
MCSize == (t1 :> 2)
=============================================================================
