-------------------------------- MODULE Cache --------------------------------
(***************************************************************************)
(* What pf_cache::StoreInterface promises its callers                      *)
(* (src/pf/core/include/pf/cache/storeinterface.h): a map from keys to     *)
(* items, in which no operation on one key changes the item of another,    *)
(* and in which each table holds at most as many items as it was           *)
(* configured for.  The keys of a table share a header of columns, which   *)
(* once it is there stays, with or without items.                          *)
(* Store implements it with arrays of slots that are kept dense.           *)
(***************************************************************************)
EXTENDS Integers, FiniteSets

CONSTANTS
  Keys,      \* "table#only_key"
  Tables,    \* the table names
  TableOf,   \* the table of each key
  Size,      \* how many items a table holds
  Entries,   \* what an item can be
  Absent,    \* what get returns for a key that is not cached
  Headers,   \* the columns a table can have
  NoHeader   \* columns not known yet

VARIABLES cache, header

Cached(t) == {k \in Keys : TableOf[k] = t /\ cache[k] # Absent}

Init ==
  /\ cache = [k \in Keys |-> Absent]
  /\ header = [t \in Tables |-> NoHeader]

(* Only the item of k is another one, which may be any. *)
Changes(k) == cache' = [cache EXCEPT ![k] = cache'[k]] /\ cache'[k] \in Entries

(* Only the header of k's table is another one. *)
Fetches(k) ==
  LET t == TableOf[k]
  IN  header' = [header EXCEPT ![t] = header'[t]] /\ header'[t] \in Headers

(* put of a key that is not cached. *)
Add(k) ==
  /\ cache[k] = Absent
  /\ Cardinality(Cached(TableOf[k])) < Size[TableOf[k]]
  /\ Changes(k)
  /\ UNCHANGED header

(* Everything that changes an item in place. *)
Change(k) ==
  /\ cache[k] # Absent
  /\ Changes(k)
  /\ UNCHANGED header \/ Fetches(k)

Forget(k) ==
  /\ cache' = [cache EXCEPT ![k] = Absent]
  /\ UNCHANGED header \/ (cache[k] # Absent /\ Fetches(k))

Next == \E k \in Keys : Add(k) \/ Change(k) \/ Forget(k)

Spec == Init /\ [][Next]_<<cache, header>>
=============================================================================
