----------------------------- MODULE StoreFlush -----------------------------
(***************************************************************************)
(* DBStore::flush (src/pf/core/src/cache/db_store.cc): the cache of Store, *)
(* where key_map_ also has its nodes, and the loop of flush that walks     *)
(* over them and forgets one key after the other.                          *)
(*                                                                         *)
(* The nodes of a Map are dense: a new key takes the next node, and the    *)
(* last node fills the place of one that is removed.  The iterator of the  *)
(* loop is a node number that only grows, and ends where it equals the     *)
(* number of nodes there are at that moment; past it, first is null and    *)
(* forget returns at once.                                                 *)
(***************************************************************************)
EXTENDS Store, Sequences

VARIABLES
  nodes,  \* the keys of key_map_ by node, the first is node 0
  cursor  \* current_ of the iterator in flush, or None outside of it

flushVars == <<vars, nodes, cursor>>

FlushInit == Init /\ nodes = <<>> /\ cursor = None

NodeOf(k) == CHOOSE n \in 1 .. Len(nodes) : nodes[n] = k

(* Map::remove and MapPool::delete_obj. *)
Removed(k) ==
  SubSeq([nodes EXCEPT ![NodeOf(k)] = nodes[Len(nodes)]], 1, Len(nodes) - 1)

(* forget, with the key's node. *)
ForgetNode(k, answer) == Forget(k, answer) /\ nodes' = Removed(k)

(* The caller of flush is the only one there is: what it does otherwise. *)
Call ==
  /\ cursor = None
  /\ \E k \in Keys :
       \/ \E v \in Texts : Add(k, v) /\ nodes' = Append(nodes, k)
       \/ \E answer \in Answers : ForgetNode(k, answer)
       \/ /\ nodes' = nodes
          /\ \/ \E v \in Texts : Replace(k, v)
             \/ \E row \in Rows \cup {Partial} : Write(k, row)
             \/ \E status \in Statuses : SetStatus(k, status)
             \/ Hook(k)
             \/ \E answer \in Answers : Query(k, answer)
  /\ UNCHANGED cursor

Flush ==
  /\ cursor = None
  /\ cursor' = 0
  /\ UNCHANGED <<vars, nodes>>

(* The body of the loop and ++it. *)
FlushStep ==
  /\ cursor # None
  /\ cursor # Len(nodes)
  /\ IF cursor < Len(nodes)
     THEN \E answer \in Answers : ForgetNode(nodes[cursor + 1], answer)
     ELSE UNCHANGED <<vars, nodes>>
  /\ cursor' = IF cursor < Len(nodes) THEN cursor + 1 ELSE cursor

(* The iterator equals end(). *)
FlushEnd ==
  /\ cursor = Len(nodes)
  /\ cursor' = None
  /\ UNCHANGED <<vars, nodes>>

FlushNext == Call \/ Flush \/ FlushStep \/ FlushEnd

FlushSpec == FlushInit /\ [][FlushNext]_flushVars

-----------------------------------------------------------------------------

(* flush is to "remove all items from the cache": no key is cached when it  *)
(* returns.                                                                 *)
FlushRemovesAll ==
  [][FlushEnd => \A k \in Keys : ~IsCached(k)']_flushVars
=============================================================================
