------------------------------ MODULE ByteQueue ------------------------------
(***************************************************************************)
(* What a receiving stream promises its connection: the bytes the peer     *)
(* sent come out in the order they were sent, none is lost, doubled or     *)
(* made up, however they are cut into receives and reads.                  *)
(***************************************************************************)
EXTENDS Integers, Sequences

VARIABLES
  wire,   \* bytes on their way
  queue,  \* bytes in the stream
  got     \* what the last read returned

First(s, n) == SubSeq(s, 1, n)
Rest(s, n) == SubSeq(s, n + 1, Len(s))

Init == wire = <<>> /\ queue = <<>> /\ got = <<>>

(* The peer sends one or more bytes. *)
Arrive ==
  /\ Len(wire') > Len(wire)
  /\ First(wire', Len(wire)) = wire
  /\ UNCHANGED <<queue, got>>

Receive(n) ==
  /\ queue' = queue \o First(wire, n)
  /\ wire' = Rest(wire, n)
  /\ UNCHANGED got

Read(n) ==
  /\ got' = First(queue, n)
  /\ queue' = Rest(queue, n)
  /\ UNCHANGED wire

Skip(n) == queue' = Rest(queue, n) /\ UNCHANGED <<wire, got>>

(* The connection is gone and its place is given to another one. *)
Clear == wire' = <<>> /\ queue' = <<>> /\ got' = <<>>

Next ==
  \/ Arrive
  \/ \E n \in 1 .. Len(wire) : Receive(n)
  \/ \E n \in 1 .. Len(queue) : Read(n) \/ Skip(n)
  \/ Clear

Spec == Init /\ [][Next]_<<wire, queue, got>>
=============================================================================
