---------------------------- MODULE StreamOutput ----------------------------
(***************************************************************************)
(* stream::Output of a connection, without encryption and compression      *)
(* (src/pf/core/src/net/stream/output.cc), as the protocol writes to it    *)
(* and process_output of the connection flushes it.                        *)
(*                                                                         *)
(* The socket takes any number of the bytes a send offers.                 *)
(***************************************************************************)
EXTENDS StreamBasic

CONSTANTS
  Values,    \* what the protocol and the packets write in one call
  MaxLength  \* bound: no write to a ring that is longer

ASSUME StreamOutputAssumption ==
  /\ Values \subseteq Seq(Bytes) \ {<<>>}
  /\ MaxLength \in Nat

VARIABLES
  ostream,  \* streamdata_
  sent      \* what the last flush gave to the socket, in order

outputvars == <<ostream, sent>>

-----------------------------------------------------------------------------

FreeToWrite(s) ==
  IF s.head <= s.tail THEN s.bufferlength - s.tail + s.head - 1
  ELSE s.head - s.tail - 1

(* Mutants: the ring is never resized, and tail is not taken modulo the    *)
(* length of the buffer.                                                   *)
MutantWrittenInPlace(s, data) ==
  LET right == s.bufferlength - s.tail - 1
  IN  [(IF Len(data) > right
        THEN Put(Put(s, s.tail, SubSeq(data, 1, right)),
                 0, SubSeq(data, right + 1, Len(data)))
        ELSE Put(s, s.tail, data)) EXCEPT !.tail = (s.tail + Len(data)) % s.bufferlength]

MutantWrittenPastEnd(s, data) ==
  LET s1 == IF Len(data) >= FreeToWrite(s) THEN Resized(s, Len(data) - FreeToWrite(s) + 1) ELSE s
  IN  [Put(s1, s.tail, data) EXCEPT !.tail = s.tail + Len(data)]

(* write.  Head and tail are read before the ring may be resized, and the  *)
(* free bytes from tail to the end are counted without the last byte.      *)
Written(s, data) ==
  LET length == Len(data)
      s1 == IF length >= FreeToWrite(s) THEN Resized(s, length - FreeToWrite(s) + 1) ELSE s
      right == s1.bufferlength - s.tail - 1
      copied == IF s.head <= s.tail /\ length > right
                THEN Put(Put(s1, s.tail, SubSeq(data, 1, right)),
                         0, SubSeq(data, right + 1, length))
                ELSE Put(s1, s.tail, data)
  IN  [copied EXCEPT !.tail = (s.tail + length) % s1.bufferlength]

(***************************************************************************)
(* flush: what is left up to tail or up to the end of the buffer, and then *)
(* what is left at its front.  r says how far it is; a send that takes     *)
(* less than it was offered ends it.                                       *)
(***************************************************************************)
Sends(r, left) ==
  LET head == r.stream.head
  IN  {[stream |-> [r.stream EXCEPT !.head = @ + n],
        sent |-> r.sent \o [i \in 1 .. n |-> r.stream.buffer[head + i - 1]],
        ends |-> n < left] : n \in 0 .. left}

SendsFront(r) ==
  IF r.ends \/ r.stream.head <= r.stream.tail THEN {r}
  ELSE LET front == [r.stream EXCEPT !.head = 0]
       IN  Sends([r EXCEPT !.stream = front], front.tail)

(* Mutant: a flush starts the ring over wherever it stops. *)
MutantRewoundAlways(r) == [r EXCEPT !.stream = Cleared(@)]

Rewound(r) ==
  IF ~r.ends /\ r.stream.head = r.stream.tail
  THEN [r EXCEPT !.stream = Cleared(@)] ELSE r

Flushed ==
  LET left == IF ostream.head < ostream.tail THEN ostream.tail - ostream.head
              ELSE ostream.bufferlength - ostream.head
      begun == [stream |-> ostream, sent |-> <<>>, ends |-> FALSE]
  IN  {Rewound(r) : r \in UNION {SendsFront(q) : q \in Sends(begun, left)}}

OutputInit ==
  /\ ostream = New(BufferLength)
  /\ sent = <<>>

Write(data) ==
  /\ ostream.bufferlength <= MaxLength
  /\ ostream' = Written(ostream, data)
  /\ UNCHANGED sent

Flush ==
  /\ RealLength(ostream) # 0
  /\ ostream.bufferlength <= BufferMax
  /\ \E r \in Flushed :
       /\ ostream' = r.stream
       /\ sent' = r.sent

(* A send fails, or the ring has grown over its maximum: the manager       *)
(* removes and clears the connection.  The ring stays as long as it is.    *)
OutputDisconnect ==
  /\ ostream' = Cleared(ostream)
  /\ sent' = <<>>

OutputNext ==
  \/ \E data \in Values : Write(data)
  \/ Flush
  \/ OutputDisconnect

OutputSpec == OutputInit /\ [][OutputNext]_outputvars

-----------------------------------------------------------------------------

OutputOK ==
  /\ IsStream(ostream)
  /\ sent \in Seq(Bytes)

(* A flush gives the socket what the ring holds from its head on, in       *)
(* order, and keeps the rest, wherever a send stops: before the end of the *)
(* buffer, at the end, or at the front again.                              *)
FlushKeepsOrder ==
  [][Flush => Content(ostream) = sent' \o Content(ostream')]_outputvars

(* A write to a ring of which nothing has been sent since it was empty     *)
(* appends its bytes, and resizes the ring when they do not fit.           *)
WriteBeforeSendAppends ==
  [][\A data \in Values :
       ostream.head = 0 /\ Write(data) => Content(ostream') = Content(ostream) \o data]_outputvars

(* The drawing in write: the bytes are written after the ones the ring     *)
(* holds, over the end of the buffer when tail is not before head.  The    *)
(* code leaves out the last byte of the buffer, and it uses the old head   *)
(* and tail in a ring that has been resized.                               *)
WriteAppends ==
  [][\A data \in Values :
       Write(data) => Content(ostream') = Content(ostream) \o data]_outputvars
=============================================================================
