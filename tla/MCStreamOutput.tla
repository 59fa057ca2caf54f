--------------------------- MODULE MCStreamOutput ---------------------------
(***************************************************************************)
(* A ring of four bytes that is still flushed with six: a write that wraps *)
(* in it, one that just fits, and one that resizes it with its head at any *)
(* place.                                                                  *)
(***************************************************************************)
EXTENDS StreamOutput

MCValues == {<<1>>, <<0, 1>>, <<1, 1, 0>>}
=============================================================================
