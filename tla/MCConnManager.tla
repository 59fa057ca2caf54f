--------------------------- MODULE MCConnManager ---------------------------
(***************************************************************************)
(* Three slots: the tick can remove the first connection, move the last    *)
(* one to its place and still have one between them.  remove takes the id  *)
(* set for shorter than it is.  At most two accepts in a tick.             *)
(***************************************************************************)
EXTENDS Listener
=============================================================================
