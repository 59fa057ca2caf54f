----------------------------- MODULE MCProtocol -----------------------------
(***************************************************************************)
(* Packets of three and four bytes in a ring that holds four and may grow: *)
(* a packet comes in parts, goes over the end of the buffer, or fills it.  *)
(***************************************************************************)
EXTENDS Protocol

MCBody == [p \in Packets |-> IF p = 8 THEN <<5>> ELSE <<6, 7>>]
=============================================================================
