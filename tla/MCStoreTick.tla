----------------------------- MODULE MCStoreTick -----------------------------
(***************************************************************************)
(* Tick and a worker.  Three keys wait in a query_map_ that holds all of   *)
(* them, so that pop_front moves a node and a key may be passed over.      *)
(***************************************************************************)
EXTENDS StoreTick

CONSTANTS k1, k2, k3
=============================================================================
