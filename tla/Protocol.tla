------------------------------ MODULE Protocol ------------------------------
(***************************************************************************)
(* Packets over the input stream of a connection: what process_input and   *)
(* process_command do in a tick of the net thread                          *)
(* (src/pf/core/src/net/connection/basic.cc and protocol/basic.cc).        *)
(*                                                                         *)
(* A packet is a header, of which the model keeps the id and the length,   *)
(* and a body.  The peer is the same protocol and sends whole packets; the *)
(* bytes of one come in parts, since a fill may take any number of them.   *)
(***************************************************************************)
EXTENDS StreamInput, SequencesExt

CONSTANTS
  Packets,      \* ids of packets
  Body,         \* the body of each
  ExecuteCount, \* execute_count_pretick_
  MaxPending    \* bound: packets sent and not executed

HeaderSize == 2

Frame(p) == <<p, Len(Body[p])>> \o Body[p]

ASSUME ProtocolAssumption ==
  /\ Bytes \subseteq Nat
  /\ ExecuteCount \in Nat \ {0}
  /\ MaxPending \in Nat
  /\ \A p \in Packets :
       /\ Body[p] \in Seq(Bytes) \ {<<>>}
       /\ Frame(p) \in Seq(Bytes)

VARIABLES
  pending,  \* packets sent and not executed, in order
  phase,    \* the part of the tick that is under way
  left,     \* bytes of the body the packet has not read yet
  count     \* i of the loop in command

progress == <<phase, left, count>>
vars == <<stream, wire, got, pending, progress>>

Init ==
  /\ InputInit
  /\ pending = <<>>
  /\ phase = "input"
  /\ left = 0
  /\ count = 0

SendPacket(p) ==
  /\ Len(pending) < MaxPending
  /\ pending' = Append(pending, p)
  /\ Arrive(Frame(p))
  /\ UNCHANGED progress

(* process_input: epoll reports a socket to which bytes have come since    *)
(* the last report.  What a fill leaves at the socket came after it,       *)
(* unless the stream was stuck.                                            *)
Input ==
  /\ phase = "input"
  /\ IF wire = <<>> \/ Stuck THEN UNCHANGED <<stream, wire, got>> ELSE Fill
  /\ phase' = "command"
  /\ UNCHANGED <<pending, left, count>>

(***************************************************************************)
(* command                                                                 *)
(***************************************************************************)
Header == Copied(stream, HeaderSize)

(* Mutant: a packet that ends where the stream ends counts as incomplete.  *)
MutantComplete ==
  /\ RealLength(stream) >= HeaderSize
  /\ RealLength(stream) > HeaderSize + Header[2]

(* Mutant: a packet counts as complete with its header. *)
MutantHeaderOnly == RealLength(stream) >= HeaderSize

Complete ==
  /\ RealLength(stream) >= HeaderSize
  /\ RealLength(stream) >= HeaderSize + Header[2]

CommandHeader ==
  /\ phase = "command"
  /\ count < ExecuteCount
  /\ Complete
  /\ Header[1] \in Packets
  /\ Skip(HeaderSize)
  /\ phase' = "body"
  /\ left' = Header[2]
  /\ UNCHANGED <<pending, count>>

(* A packet reads its body field by field. *)
ReadField ==
  /\ phase = "body"
  /\ \E n \in 1 .. left : Read(n) /\ left' = left - n
  /\ UNCHANGED <<pending, phase, count>>

(* The packet is executed and answers continue or break. *)
Execute ==
  /\ phase = "body"
  /\ left = 0
  /\ pending' = Tail(pending)
  /\ \/ phase' = "command" /\ count' = count + 1
     \/ phase' = "input" /\ count' = 0
  /\ UNCHANGED <<stream, wire, got, left>>

CommandEnd ==
  /\ phase = "command"
  /\ count = ExecuteCount \/ ~Complete
  /\ phase' = "input"
  /\ count' = 0
  /\ UNCHANGED <<stream, wire, got, pending, left>>

(* A receive or a packet fails, more is available than the ring may grow   *)
(* by, or the program disconnects: the connection is cleared.              *)
Disconnect ==
  /\ Clear
  /\ pending' = <<>>
  /\ phase' = "input"
  /\ left' = 0
  /\ count' = 0

Tick == Input \/ CommandHeader \/ ReadField \/ Execute \/ CommandEnd

Next ==
  \/ \E p \in Packets : SendPacket(p)
  \/ Input \/ CommandHeader \/ ReadField \/ Execute \/ CommandEnd
  \/ Disconnect

Spec == Init /\ [][Next]_vars

(* The net thread ticks again and again. *)
FairSpec == Spec /\ WF_vars(Tick)

-----------------------------------------------------------------------------

TypeOK ==
  /\ StreamOK
  /\ pending \in Seq(Packets)
  /\ phase \in {"input", "command", "body"}
  /\ left \in Nat
  /\ count \in 0 .. ExecuteCount

(* What the packet that is being read has left, and the packets behind it. *)
Expected ==
  IF phase = "body"
  THEN LET body == Body[Head(pending)]
       IN  SubSeq(body, Len(body) - left + 1, Len(body))
           \o FlattenSeq([i \in 1 .. Len(pending) - 1 |-> Frame(pending[i + 1])])
  ELSE FlattenSeq([i \in 1 .. Len(pending) |-> Frame(pending[i])])

(* The protocol never loses the border of a packet, in whatever parts its  *)
(* bytes come and wherever a fill, the count of a tick or a break cuts:    *)
(* the ring and the socket hold the rest of the packet that is being read  *)
(* and the packets behind it.                                              *)
Framed == Content(stream) \o wire = Expected

(* A packet is read when the whole of it has come: no read of its body     *)
(* fails for bytes that are still under way.                               *)
BodyIsReceived == phase = "body" => left <= RealLength(stream)

(* Each packet fits into the ring as it is at first: one that does not can *)
(* leave the stream full with head 0, and fill never receives again.       *)
FitsRing == \A p \in Packets : Len(Frame(p)) < BufferLength

(* Packets that were sent are executed, again and again, or the connection *)
(* goes, provided that each fits into the ring: the tick is not left with  *)
(* a complete packet it never looks at.                                    *)
PacketsAreExecuted ==
  FitsRing => []<>(pending = <<>>) \/ []<><<Len(pending') < Len(pending)>>_pending
=============================================================================
