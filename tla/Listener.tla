------------------------------ MODULE Listener ------------------------------
(***************************************************************************)
(* A manager that connects or listens: what Listener::accept does to the   *)
(* slots and how Epoll::process_input comes to call it (src/pf/core/src/   *)
(* net/connection/manager/listener.cc and epoll.cc).  All else is          *)
(* ConnManager's.                                                          *)
(***************************************************************************)
EXTENDS ConnManager

CONSTANTS
  OneStepAccept,  \* onestep_accept_
  MaxBacklog      \* bound: clients that wait to be accepted

ASSUME ListenerAssumption ==
  /\ OneStepAccept \in Nat
  /\ MaxBacklog \in Nat

VARIABLES
  listening,  \* is_service
  backlog     \* clients that wait to be accepted

ListenerSocket == -2  \* the event of the listener's own socket

netvars == <<vars, listening, backlog>>

NetInit ==
  /\ Init
  /\ listening \in BOOLEAN
  /\ backlog = 0

Client ==
  /\ backlog < MaxBacklog
  /\ backlog' = backlog + 1
  /\ UNCHANGED vars

(* The listener's event comes in any place among those of the connections. *)
ServiceSelect ==
  /\ phase = "idle"
  /\ phase' = "input"
  /\ index' = 0
  /\ events' \in SetToSeqs(arrived \cup (IF backlog > 0 THEN {ListenerSocket} ELSE {}))
  /\ upto' = Len(events')
  /\ arrived' = {}
  /\ UNCHANGED <<tables, sending, held, history, backlog>>

AtListener ==
  /\ phase = "input"
  /\ index < upto
  /\ Current = ListenerSocket

(* The loop over accept counts in the variable of the loop over events. *)
AcceptBegin ==
  /\ AtListener
  /\ phase' = "accept"
  /\ index' = 0
  /\ UNCHANGED <<tables, sockets, upto, events, held, history, backlog>>

AcceptEnd ==
  /\ phase' = "input"
  /\ index' = index + 1
  /\ UNCHANGED <<upto, events, held, history>>

(* accept clears the slot create gave it, which makes it empty again, and  *)
(* only then takes a client.                                               *)
Accept ==
  /\ phase = "accept"
  /\ index < OneStepAccept
  /\ backlog > 0
  /\ \E c \in Created :
       /\ Add(c, [Taken EXCEPT !.empty = TRUE])
       /\ position' = (c + 1) % MaxSize
       /\ sending' = sending \ {c}
       /\ arrived' = arrived \ {c}
  /\ free' = (free - 1) % CountWidth
  /\ backlog' = backlog - 1
  /\ index' = index + 1
  /\ UNCHANGED <<phase, upto, events, held, history>>

(* No slot, no client, a client whose socket fails, or no room in the      *)
(* manager: the slot is cleared and the loop ends.                         *)
AcceptFails ==
  /\ phase = "accept"
  /\ index < OneStepAccept
  /\ \/ /\ Created = {}
        /\ UNCHANGED <<tables, sockets, backlog>>
     \/ \E c \in Created :
          /\ slot' = [slot EXCEPT ![c] = Cleared]
          /\ position' = (c + 1) % MaxSize
          /\ sending' = sending \ {c}
          /\ arrived' = arrived \ {c}
          /\ backlog' = IF backlog = 0 THEN 0 ELSE backlog - 1
          /\ UNCHANGED <<free, idset, size>>
  /\ AcceptEnd

AcceptDone ==
  /\ phase = "accept"
  /\ index >= OneStepAccept
  /\ AcceptEnd
  /\ UNCHANGED <<tables, sockets, backlog>>

Other ==
  /\ UNCHANGED backlog
  /\ phase # "accept" /\ ~AtListener
  /\ \/ \E c \in Ids : Disconnect(c) \/ ProgramRemoves(c) \/ Send(c) \/ Arrive(c)
     \/ EndPhase \/ Skip \/ Serve \/ Drop
     \/ Execute \/ Executed \/ ExecuteFails

ServiceNext ==
  \/ /\ ~Wrapped
     /\ \/ Client \/ ServiceSelect \/ AcceptBegin \/ Accept \/ AcceptFails \/ AcceptDone
        \/ Other
  \/ RunsWild /\ UNCHANGED backlog

NetNext ==
  /\ UNCHANGED listening
  /\ \/ ~listening /\ Next /\ UNCHANGED backlog
     \/ listening /\ ServiceNext

NetSpec == NetInit /\ [][NetNext]_netvars

(* The thread ticks a manager that connects again and again.  The tick of  *)
(* one that listens need not end: after an accept that fails the loop over *)
(* the events goes on at the second one, and comes to the listener again.  *)
NetFairSpec == NetSpec /\ WF_netvars(~listening /\ ~Wrapped /\ Tick /\ UNCHANGED <<listening, backlog>>)

-----------------------------------------------------------------------------

NetTypeOK ==
  /\ TablesOK
  /\ phase \in {"idle", "input", "accept", "output", "command", "heartbeat"}
  /\ index \in Nat
  /\ upto \in 0..(MaxSize + 1)
  /\ events \in Seq(Ids \cup {ListenerSocket})
  /\ listening \in BOOLEAN
  /\ backlog \in 0..MaxBacklog

(* The count of empty slots in the pool of a manager that connects, as in  *)
(* FreeIsCounted.  accept of one that listens leaves the slots it takes    *)
(* marked empty.                                                           *)
ConnectorFreeIsCounted == ~listening => FreeIsCounted

(* A new connection of a manager that connects gets a slot that no         *)
(* connection uses, and one that fails clears none that is up.             *)
ConnectTakesFreeSlot ==
  [][~listening /\ (Connect \/ ConnectFails)
       => \A c \in Ids : Live(c) => slot'[c] = slot[c]]_netvars

(* The bytes of a connection of a manager that connects are sent, or the   *)
(* connection goes, as long as no connection lost its place.               *)
ConnectorSendIsServed ==
  \A c \in Ids : (~listening /\ c \in sending) ~> c \notin sending \/ again > 0

(* create looks for a free slot: accept leaves the connections alone that  *)
(* are up.  False: the slots accept takes look empty to the next create.   *)
AcceptTakesFreeSlot ==
  [][phase = "accept" => \A c \in Ids : Live(c) => slot'[c] = slot[c]]_netvars
=============================================================================
