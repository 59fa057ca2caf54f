------------------------------ MODULE MCKernel ------------------------------
(***************************************************************************)
(* Two threads, so that one can be stopped while the other starts, and two *)
(* calls of stop, as --stop makes them.  Of three tasks the second is      *)
(* between two ends of a node, where the queue can be torn.                *)
(***************************************************************************)
EXTENDS Kernel
=============================================================================
