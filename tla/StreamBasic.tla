----------------------------- MODULE StreamBasic -----------------------------
(***************************************************************************)
(* The ring of bytes both streams of a connection are made of:             *)
(* stream::Basic (src/pf/core/src/net/stream/basic.cc).                    *)
(*                                                                         *)
(* The bytes from head on to tail are the ones the stream holds; head and  *)
(* tail are equal when it holds none.  Bytes that were taken out stay in   *)
(* the buffer until something is written over them.                        *)
(***************************************************************************)
EXTENDS Integers, Sequences

CONSTANTS
  Bytes,         \* the values of a byte
  Zero,          \* the one memset writes
  BufferLength,  \* bufferlength
  BufferMax      \* bufferlength_max

ASSUME StreamBasicAssumption ==
  /\ Zero \in Bytes
  /\ BufferLength \in Nat \ {0, 1}
  /\ BufferMax \in Nat

Larger(m, n) == IF m >= n THEN m ELSE n

IsStream(s) ==
  LET n == s.bufferlength
  IN  /\ n \in Nat \ {0}
      /\ s \in [bufferlength : {n}, buffer : [0 .. n - 1 -> Bytes],
                head : 0 .. n - 1, tail : 0 .. n - 1]

New(length) == [bufferlength |-> length, buffer |-> [i \in 0 .. length - 1 |-> Zero],
                head |-> 0, tail |-> 0]

RealLength(s) ==
  IF s.head <= s.tail THEN s.tail - s.head ELSE s.bufferlength - s.head + s.tail

(* The i-th byte from head on. *)
ByteAt(s, i) == s.buffer[(s.head + i) % s.bufferlength]

(* The bytes the stream holds, in order. *)
Content(s) == [i \in 1 .. RealLength(s) |-> ByteAt(s, i - 1)]

(* memcpy to position at. *)
Put(s, at, data) ==
  [s EXCEPT !.buffer = [i \in DOMAIN s.buffer |->
     IF i >= at /\ i < at + Len(data) THEN data[i - at + 1] ELSE s.buffer[i]]]

(* Mutant: only the bytes from head to the end of the buffer are moved. *)
MutantResizedRightPart(s, size) ==
  LET length == s.bufferlength + Larger(size, s.bufferlength \div 2)
      copied == IF s.head < s.tail THEN RealLength(s) ELSE s.bufferlength - s.head
  IN  [bufferlength |-> length,
       buffer |-> [i \in 0 .. length - 1 |-> IF i < copied THEN ByteAt(s, i) ELSE Zero],
       head |-> 0,
       tail |-> RealLength(s)]

(* resize: the bytes start at 0 of a buffer that is at least half as long  *)
(* again.  A ring that holds nothing is copied as if it were full.         *)
Resized(s, size) ==
  LET length == s.bufferlength + Larger(size, s.bufferlength \div 2)
      copied == IF s.head < s.tail THEN RealLength(s)
                ELSE s.bufferlength - s.head + s.tail
  IN  [bufferlength |-> length,
       buffer |-> [i \in 0 .. length - 1 |-> IF i < copied THEN ByteAt(s, i) ELSE Zero],
       head |-> 0,
       tail |-> RealLength(s)]

(* clear: what the ring has grown to stays. *)
Cleared(s) == [bufferlength |-> s.bufferlength, buffer |-> s.buffer,
               head |-> 0, tail |-> 0]
=============================================================================
