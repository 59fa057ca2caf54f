----------------------------- MODULE StreamInput -----------------------------
(***************************************************************************)
(* stream::Input of a connection, without compression                      *)
(* (src/pf/core/src/net/stream/input.cc), as process_input of the          *)
(* connection and command of the protocol call it.                         *)
(*                                                                         *)
(* One thread fills and reads.  wire holds what the peer has sent and fill *)
(* has not received.  Its bytes come to the socket at any time, also       *)
(* between two receives of one fill: a receive therefore takes any number  *)
(* of them, and available counts any number.                               *)
(***************************************************************************)
EXTENDS StreamBasic, FiniteSetsExt

VARIABLES
  stream,  \* streamdata_
  wire,    \* bytes the peer has sent, in order
  got      \* what the last read returned

-----------------------------------------------------------------------------

(* What read and peek copy. *)
Copied(s, length) ==
  LET right == s.bufferlength - s.head
  IN  IF s.head < s.tail \/ length < right
      THEN [i \in 1 .. length |-> s.buffer[s.head + i - 1]]
      ELSE [i \in 1 .. right |-> s.buffer[s.head + i - 1]]
           \o [i \in 1 .. length - right |-> s.buffer[i - 1]]

Skipped(s, length) == [s EXCEPT !.head = (@ + length) % s.bufferlength]

(***************************************************************************)
(* fill.  A receive gets the address of tail and the free bytes from there *)
(* on, of which the last one is kept free; r says what has been received   *)
(* so far: the stream and the number of bytes of wire that are in it.      *)
(***************************************************************************)
(* Mutant: the byte that is kept free is counted.                          *)
MutantFreeToTheEnd(s) ==
  IF s.head > s.tail THEN s.head - s.tail - 1 ELSE s.bufferlength - s.tail

Free(s) ==
  IF s.head > s.tail THEN s.head - s.tail - 1
  ELSE IF s.head = 0 THEN s.bufferlength - s.tail - 1
  ELSE s.bufferlength - s.tail

(* Mutant: tail is not taken modulo the length of the buffer. *)
MutantReceivePastEnd(s, data) ==
  [Put(s, s.tail, data) EXCEPT !.tail = @ + Len(data)]

Receive(s, data) ==
  [Put(s, s.tail, data) EXCEPT !.tail = (@ + Len(data)) % s.bufferlength]

Receives(r, free) ==
  {[stream |-> Receive(r.stream, SubSeq(wire, r.taken + 1, n)), taken |-> n] :
    n \in r.taken .. Min({r.taken + free, Len(wire)})}

(* The first receive, and a second one at the front of the buffer when the *)
(* first has filled it up to its end and head is not there.                *)
Received ==
  LET first == Receives([stream |-> stream, taken |-> 0], Free(stream))
      wraps(r) == stream.head # 0 /\ stream.head <= stream.tail /\ r.stream.tail = 0
  IN  UNION {IF wraps(r) THEN Receives(r, Free(r.stream)) ELSE {r} : r \in first}

(* Every free byte is used, and fill asks what is still available.  A full *)
(* stream whose head is 0 it leaves as it is.                              *)
AsksForMore(r) == Free(r.stream) = 0 /\ ~(stream.head = 0 /\ Free(stream) = 0)

TooLong(r, available) == r.stream.bufferlength + available + 1 > BufferMax

Filled ==
  UNION {IF AsksForMore(r)
         THEN {r} \cup UNION {
                Receives([r EXCEPT !.stream = Resized(@, available + 1)], available) :
                available \in {n \in 1 .. Len(wire) - r.taken : ~TooLong(r, n)}}
         ELSE {r} : r \in Received}

InputInit ==
  /\ stream = New(BufferLength)
  /\ wire = <<>>
  /\ got = <<>>

(* The peer sends.  *)
Arrive(data) ==
  /\ wire' = wire \o data
  /\ UNCHANGED <<stream, got>>

(* A full stream whose head is 0: fill receives nothing. *)
Stuck == stream.head = 0 /\ Free(stream) = 0

Fill ==
  /\ \E r \in Filled :
       /\ r.taken > 0
       /\ stream' = r.stream
       /\ wire' = SubSeq(wire, r.taken + 1, Len(wire))
  /\ UNCHANGED got

(* The stream of a connection that is cleared. *)
Clear ==
  /\ stream' = Cleared(stream)
  /\ wire' = <<>>
  /\ got' = <<>>

Read(n) ==
  /\ n <= RealLength(stream)
  /\ got' = Copied(stream, n)
  /\ stream' = Skipped(stream, n)
  /\ UNCHANGED wire

Skip(n) ==
  /\ n <= RealLength(stream)
  /\ stream' = Skipped(stream, n)
  /\ UNCHANGED <<wire, got>>

-----------------------------------------------------------------------------

StreamOK ==
  /\ IsStream(stream)
  /\ wire \in Seq(Bytes)
  /\ got \in Seq(Bytes)

Q == INSTANCE ByteQueue WITH queue <- Content(stream)

(* The ring implements a queue of bytes: over the end of the buffer, over  *)
(* a resize in the middle of a fill and over a connection that is given    *)
(* away, the protocol reads what the peer sent.                            *)
ImplementsByteQueue == Q!Spec
=============================================================================
