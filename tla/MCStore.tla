------------------------------- MODULE MCStore -------------------------------
(***************************************************************************)
(* Three keys compete for the two slots of one table: the first, the last  *)
(* and the only slot in use are freed, and a put meets the full table.     *)
(***************************************************************************)
EXTENDS Store, TLC

CONSTANTS k1, k2, k3, t1, s1, s2

KeySymmetry == Permutations({k1, k2, k3})

MCTableOf == (k1 :> t1) @@ (k2 :> t1) @@ (k3 :> t1)
MCSize == (t1 :> 2)
=============================================================================
