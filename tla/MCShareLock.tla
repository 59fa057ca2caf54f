---------------------------- MODULE MCShareLock ----------------------------
(* Processes attach one segment: two threads in the first, one in the      *)
(* second, and one in a third that only the run of the start-up uses,      *)
(* where it runs in the recover model.                                     *)
EXTENDS ShareLock, TLC

CONSTANTS p1, p2, p3, t1, t2, t3, t4

MCProcOf == t1 :> p1 @@ t2 :> p1 @@ t3 :> p2

MCProcOfAll == MCProcOf @@ t4 :> p3
=============================================================================
