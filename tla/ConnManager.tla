---------------------------- MODULE ConnManager ----------------------------
(***************************************************************************)
(* The connections of a net manager: the pool's slots, the manager's id    *)
(* set and the tick that goes over it (src/pf/core/src/net/connection/     *)
(* pool.cc, basic.cc, manager/interface.cc, manager/epoll.cc,              *)
(* manager/connector.cc and manager/basic.cc).                             *)
(*                                                                         *)
(* A manager belongs to one thread, which ticks it and connects between    *)
(* two ticks or while it executes a packet, as                             *)
(* src/applications/pf_simple/src/main.cc does.  What is in the streams is *)
(* left out: a connection has bytes to send or it has none.                *)
(*                                                                         *)
(* Nothing asks whether a connection that is removed is up.  One that is   *)
(* not has no place in the id set, its managerid_ is -1: remove then       *)
(* writes before the array, takes the last id out of the set and leaves    *)
(* the connection it belongs to without a place.  With an empty set it     *)
(* reads before the array too, and size_, which is unsigned, goes round.   *)
(***************************************************************************)
EXTENDS Integers, Sequences, FiniteSets, SequencesExt

CONSTANTS
  MaxSize,      \* max_size_ of the pool and of the manager
  RemoveLimit,  \* sizeof(connection_idset_), which remove takes for its length
  CountWidth,   \* the values of the pool's size_: 2^32
  SizeWidth,    \* the values of the manager's size_: 2^16
  Before,       \* the id the bytes before connection_idset_ are read as
  MaxDrops,     \* bound: connections the program disconnects by itself
  MaxAgain,     \* bound: removals of connections that are not up
  MaxBusy       \* bound: connections with bytes to receive, and to send

Ids == 0..(MaxSize - 1)

Invalid == -1  \* ID_INVALID

Places == -1..(MaxSize - 1)  \* those of the id set and the one before them

(* Bytes that are no id of the pool count as Invalid: Pool::get has none.  *)
ASSUME ConnManagerAssumption ==
  /\ MaxSize \in Nat \ {0}
  /\ RemoveLimit \in Nat
  /\ CountWidth \in Nat
  /\ CountWidth > MaxSize
  /\ SizeWidth \in Nat
  /\ SizeWidth > MaxSize + 1
  /\ Before \in Ids \cup {Invalid}
  /\ MaxDrops \in Nat
  /\ MaxAgain \in Nat
  /\ MaxBusy \in Nat

VARIABLES
  slot,      \* connections_: the flags and the managerid_ of each connection
  position,  \* position_ of the pool
  free,      \* size_ of the pool
  idset,     \* connection_idset_, with the place before it
  size,      \* size_ of the manager
  arrived,   \* connections with bytes at their socket that epoll did not report
  sending,   \* connections with bytes in their output stream
  phase,     \* the part of the tick that is under way
  index,     \* i of its loop
  upto,      \* _size of its loop
  events,    \* polldata_.events: the connections epoll reported
  held,      \* the connection whose packets are executed, or Invalid
  drops,     \* history: slots in use that disconnect cleared
  again      \* history: removals of connections that were not up

tables == <<slot, position, free, idset, size>>
sockets == <<arrived, sending>>
loop == <<phase, index, upto, events>>
ticking == <<loop, held>>
history == <<drops, again>>
vars == <<tables, sockets, ticking, history>>

Slots == [ready : BOOLEAN, empty : BOOLEAN, disconnect : BOOLEAN,
          managerid : Ids \cup {Invalid}]

(* What the constructor makes: no socket yet, and not disconnected. *)
Unused == [ready |-> FALSE, empty |-> TRUE, disconnect |-> FALSE,
           managerid |-> Invalid]

(* What Basic::clear leaves of a connection that was used. *)
Cleared == [ready |-> TRUE, empty |-> TRUE, disconnect |-> TRUE,
            managerid |-> Invalid]

(* The connection is up. *)
Live(c) == slot[c].ready /\ ~slot[c].disconnect

(* size_ has gone round: the loops read what lies behind the id set. *)
Wrapped == size > MaxSize

-----------------------------------------------------------------------------

(* The pool creates all connections at once. *)
Init ==
  /\ slot = [c \in Ids |-> Unused]
  /\ position = 0
  /\ free = MaxSize
  /\ idset = [k \in Places |-> IF k = -1 THEN Before ELSE Invalid]
  /\ size = 0
  /\ arrived = {}
  /\ sending = {}
  /\ phase = "idle"
  /\ index = 0
  /\ upto = 0
  /\ events = <<>>
  /\ held = Invalid
  /\ drops = 0
  /\ again = 0

(***************************************************************************)
(* Pool.                                                                   *)
(***************************************************************************)

Around(n) == (position + n) % MaxSize

MutantCreated ==  \* the slot is not asked whether it is empty
  {position}

(* The slot Pool::create finds: the first empty one from position_ on. *)
Created ==
  {Around(n) : n \in {m \in Ids : /\ slot[Around(m)].empty
                                  /\ \A l \in 0..(m - 1) : ~slot[Around(l)].empty}}

MutantErase(c) ==  \* the moved connection keeps its managerid
  LET m == slot[c].managerid
      last == idset[size - 1]
  IN  IF m >= RemoveLimit \/ last = Invalid
      THEN /\ slot' = [slot EXCEPT ![c] = Cleared]
           /\ UNCHANGED <<idset, size>>
      ELSE /\ slot' = [slot EXCEPT ![c] = Cleared]
           /\ idset' = [idset EXCEPT ![m] = last, ![size - 1] = Invalid]
           /\ size' = (size - 1) % SizeWidth

MutantEraseGap(c) ==  \* the last place of the id set keeps its id
  LET m == slot[c].managerid
      last == idset[size - 1]
  IN  IF m >= RemoveLimit \/ last = Invalid
      THEN /\ slot' = [slot EXCEPT ![c] = Cleared]
           /\ UNCHANGED <<idset, size>>
      ELSE /\ slot' = [slot EXCEPT ![last].managerid = m, ![c] = Cleared]
           /\ idset' = [idset EXCEPT ![m] = last]
           /\ size' = (size - 1) % SizeWidth

(***************************************************************************)
(* Interface::remove of a connection: erase puts the last id in its place, *)
(* unless its managerid_ is not below RemoveLimit or there is no last id,  *)
(* and in any case the pool clears the connection.                         *)
(***************************************************************************)
Erase(c) ==
  LET m == slot[c].managerid
      last == idset[size - 1]
  IN  IF m >= RemoveLimit \/ last = Invalid
      THEN /\ slot' = [slot EXCEPT ![c] = Cleared]
           /\ UNCHANGED <<idset, size>>
      ELSE /\ slot' = [slot EXCEPT ![last].managerid = m, ![c] = Cleared]
           /\ idset' = [idset EXCEPT ![m] = last, ![size - 1] = Invalid]
           /\ size' = (size - 1) % SizeWidth

MutantRemoveConnection(c) ==  \* the slot is not counted free again
  /\ Live(c) \/ again < MaxAgain
  /\ Erase(c)
  /\ sending' = sending \ {c}
  /\ arrived' = arrived \ {c}
  /\ again' = IF Live(c) THEN again ELSE again + 1
  /\ UNCHANGED <<position, free, drops>>

RemoveConnection(c) ==
  /\ Live(c) \/ again < MaxAgain
  /\ Erase(c)
  /\ sending' = sending \ {c}
  /\ arrived' = arrived \ {c}
  /\ free' = (free + 1) % CountWidth
  /\ again' = IF Live(c) THEN again ELSE again + 1
  /\ UNCHANGED <<position, drops>>

(***************************************************************************)
(* What the program does between two ticks and while it executes packets.  *)
(***************************************************************************)

(* Packets of a connection are executed, or those of the cache, which      *)
(* process_command_cache takes after the loop.                             *)
ProgramRuns == phase = "idle" \/ held # Invalid \/ (phase = "command" /\ index >= upto)

Taken == [ready |-> TRUE, empty |-> FALSE, disconnect |-> FALSE, managerid |-> Invalid]

MutantAdd(c, created) ==  \* add does not ask whether the manager is full
  /\ slot' = [slot EXCEPT ![c] = [created EXCEPT !.managerid = size]]
  /\ idset' = [idset EXCEPT ![size] = c]
  /\ size' = size + 1

(* Interface::add of a connection create made and set_disconnect(false). *)
Add(c, created) ==
  /\ size < MaxSize
  /\ IF idset[size] = Invalid
     THEN /\ slot' = [slot EXCEPT ![c] = [created EXCEPT !.managerid = size]]
          /\ idset' = [idset EXCEPT ![size] = c]
          /\ size' = size + 1
     ELSE /\ slot' = [slot EXCEPT ![c] = created]
          /\ UNCHANGED <<idset, size>>

(* connect and group_connect: the socket is connected and the manager has  *)
(* room for the connection.                                                *)
Connect ==
  /\ ProgramRuns
  /\ \E c \in Created :
       /\ Add(c, Taken)
       /\ position' = (c + 1) % MaxSize
  /\ free' = (free - 1) % CountWidth
  /\ UNCHANGED <<sockets, ticking, history>>

(* The socket fails, or the manager is full: the slot goes back. *)
ConnectFails ==
  /\ ProgramRuns
  /\ \E c \in Created :
       /\ slot' = [slot EXCEPT ![c] = Cleared]
       /\ position' = (c + 1) % MaxSize
  /\ UNCHANGED <<free, idset, size, sockets, ticking, history>>

(* Connection::disconnect clears a connection that stays in the id set. *)
Disconnect(c) ==
  /\ ProgramRuns
  /\ slot[c].ready
  /\ slot[c].empty \/ drops < MaxDrops
  /\ drops' = IF slot[c].empty THEN drops ELSE drops + 1
  /\ slot' = [slot EXCEPT ![c] = Cleared]
  /\ sending' = sending \ {c}
  /\ arrived' = arrived \ {c}
  /\ UNCHANGED <<position, free, idset, size, ticking, again>>

(* The program removes a connection it knows: one that is up, or was. *)
ProgramRemoves(c) ==
  /\ ProgramRuns
  /\ slot[c].ready
  /\ RemoveConnection(c)
  /\ UNCHANGED ticking

Send(c) ==
  /\ ProgramRuns
  /\ Live(c)
  /\ c \notin sending
  /\ Cardinality(sending) < MaxBusy
  /\ sending' = sending \cup {c}
  /\ UNCHANGED <<tables, arrived, ticking, history>>

(* The peer sends something.  What comes while a tick is under way is seen *)
(* by the select of the next: it may as well come before that.             *)
Arrive(c) ==
  /\ phase = "idle"
  /\ Live(c)
  /\ c \notin arrived
  /\ Cardinality(arrived) < MaxBusy
  /\ arrived' = arrived \cup {c}
  /\ UNCHANGED <<tables, sending, ticking, history>>

(***************************************************************************)
(* tick: select, then a loop over the reported events and three over the   *)
(* id set, whose length is read before the loop.                           *)
(***************************************************************************)

Select ==
  /\ phase = "idle"
  /\ phase' = "input"
  /\ index' = 0
  /\ events' \in SetToSeqs(arrived)
  /\ upto' = Len(events')
  /\ arrived' = {}
  /\ UNCHANGED <<tables, sending, held, history>>

NextPhase ==
  [input |-> "output", output |-> "command", command |-> "heartbeat",
   heartbeat |-> "idle"]

EndPhase ==
  /\ phase # "idle"
  /\ held = Invalid
  /\ index >= upto
  /\ phase' = NextPhase[phase]
  /\ index' = 0
  /\ upto' = IF phase' = "idle" THEN 0 ELSE size
  /\ events' = <<>>
  /\ UNCHANGED <<tables, sockets, held, history>>

(* The connection the loop is at: -1 for a place that was vacated. *)
Current == IF phase = "input" THEN events[index + 1] ELSE idset[index]

CurrentLive == Current \in Ids /\ Live(Current)

Looping ==
  /\ phase # "idle"
  /\ index < upto
  /\ held = Invalid

GoesOn == index' = index + 1 /\ UNCHANGED <<phase, upto, events>>

(* An empty place, or a connection the program disconnected. *)
Skip ==
  /\ Looping
  /\ ~CurrentLive
  /\ GoesOn
  /\ UNCHANGED <<tables, sockets, held, history>>

MutantServe ==  \* flush leaves the bytes
  /\ Looping
  /\ CurrentLive
  /\ phase # "command"
  /\ GoesOn
  /\ UNCHANGED <<tables, sockets, held, history>>

(* The step of the phase succeeds: the output phase sends the bytes. *)
Serve ==
  /\ Looping
  /\ CurrentLive
  /\ phase # "command"
  /\ sending' = IF phase = "output" THEN sending \ {Current} ELSE sending
  /\ GoesOn
  /\ UNCHANGED <<tables, arrived, held, history>>

(* The socket has an error or the step fails. *)
Drop ==
  /\ Looping
  /\ CurrentLive
  /\ RemoveConnection(Current)
  /\ GoesOn
  /\ UNCHANGED held

(* process_command keeps the connection while its packets are executed, in *)
(* which the program may disconnect it, remove it, and connect again...    *)
Execute ==
  /\ Looping
  /\ phase = "command"
  /\ CurrentLive
  /\ held' = Current
  /\ UNCHANGED <<tables, sockets, loop, history>>

(* ... and when they are done the loop goes on, ... *)
Executed ==
  /\ held # Invalid
  /\ held' = Invalid
  /\ GoesOn
  /\ UNCHANGED <<tables, sockets, history>>

(* ... or one has failed: the connection goes, whatever became of it.      *)
ExecuteFails ==
  /\ held # Invalid
  /\ RemoveConnection(held)
  /\ held' = Invalid
  /\ GoesOn

Turn == EndPhase \/ Skip \/ Serve \/ Drop \/ Execute \/ Executed \/ ExecuteFails

Tick == Select \/ Turn

(* What the tick reads behind the id set is not modelled. *)
RunsWild == Wrapped /\ UNCHANGED vars

Next ==
  \/ /\ ~Wrapped
     /\ \/ Connect \/ ConnectFails
        \/ \E c \in Ids : Disconnect(c) \/ ProgramRemoves(c) \/ Send(c) \/ Arrive(c)
        \/ Select \/ EndPhase \/ Skip \/ Serve \/ Drop
        \/ Execute \/ Executed \/ ExecuteFails
  \/ RunsWild

Spec == Init /\ [][Next]_vars

(* The thread ticks its manager again and again, and a packet's execute    *)
(* returns.                                                                *)
FairSpec == Spec /\ WF_vars(~Wrapped /\ Tick)

-----------------------------------------------------------------------------

TablesOK ==
  /\ slot \in [Ids -> Slots]
  /\ position \in Ids
  /\ free \in 0..(CountWidth - 1)
  /\ idset \in [Places -> Ids \cup {Invalid}]
  /\ size \in 0..MaxSize \cup {SizeWidth - 1}
  /\ Wrapped => again > 0
  /\ arrived \subseteq Ids
  /\ sending \subseteq Ids
  /\ held \in Ids \cup {Invalid}
  /\ drops \in 0..MaxDrops
  /\ again \in 0..MaxAgain

TypeOK ==
  /\ TablesOK
  /\ phase \in {"idle", "input", "output", "command", "heartbeat"}
  /\ index \in Nat
  /\ upto \in 0..MaxSize
  /\ events \in Seq(Ids)

(* Up, and without a place in the id set: no tick comes to it. *)
Lost == {c \in Ids : Live(c) /\ slot[c].managerid = Invalid}

(* The id set holds every connection that is up, at the place the          *)
(* connection itself names: remove moves the last id into the gap and has  *)
(* to tell that connection, or the next remove takes out another one.      *)
(* Each removal of a connection that is not up can cost one other its      *)
(* place, and not more: not even when the one without a place is removed.  *)
LiveAreManaged ==
  /\ Cardinality(Lost) <= again
  /\ ~Wrapped => \A c \in Ids : slot[c].managerid # Invalid =>
       /\ slot[c].managerid < size
       /\ idset[slot[c].managerid] = c

(* The id set has no gaps, or add would find no place for a connection. *)
Packed == ~Wrapped => \A k \in Ids : idset[k] # Invalid <=> k < size

(* The pool's count of its empty slots is wrong by exactly the slots that  *)
(* disconnect emptied and the removals of what was empty already.          *)
FreeIsCounted ==
  free = (Cardinality({c \in Ids : slot[c].empty}) - drops + again) % CountWidth

(* The bytes of a connection are sent or the connection goes, though the   *)
(* tick steps over a connection that remove moves to a place it has        *)
(* passed; as long as no connection lost its place.                        *)
SendIsServed == \A c \in Ids : c \in sending ~> c \notin sending \/ again > 0
=============================================================================
