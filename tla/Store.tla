-------------------------------- MODULE Store --------------------------------
(***************************************************************************)
(* The database cache pf_cache::DBStore called by one thread at a time     *)
(* (src/pf/core/src/cache/db_store.cc), on the memory of GroupPool         *)
(* (src/pf/core/src/sys/memory/share.cc) and as the script functions of    *)
(* src/pf/plugin/lua/src/cache.cc use it.                                  *)
(*                                                                         *)
(* A table owns an array of slots in shared memory of which the first      *)
(* pool_position are in use, and key_map_ holds the slot of every cached   *)
(* key.  A slot that is freed is filled with the last one in use, whose    *)
(* key_map_ entry forget rewrites.  Each table has a share_key of its own. *)
(*                                                                         *)
(* An item's data is either a statement put there as text or the rows a    *)
(* select fetched.  The columns of those rows are not the item's: a table  *)
(* with same_columns has one header, which the last select that fetched    *)
(* something wrote, whatever its key, and which nothing clears.  Without   *)
(* same_columns GroupPool reserves no slots at all (it multiplies by its   *)
(* local size, 0, for the item's), so there is no such table here.         *)
(***************************************************************************)
EXTENDS Integers

CONSTANTS
  Keys,        \* "table#only_key"
  Tables,      \* the table names
  TableOf,     \* the table of each key
  Size,        \* slots of each table
  Rows,        \* contents a row can have; as text: a statement that stores it
  Selects,     \* the texts of selects; in a header: the columns one fetches
  DeleteText,  \* the text of a delete
  NoRow,       \* no row in the database
  NoColumns,   \* a header no select has written
  Partial,     \* rows cut off where they did not fit, with a row count of 0
  Statuses,    \* kQueryInvalid .. kQuerySuccess
  Blank        \* the bytes of a slot nobody uses

None == -1  \* INDEX_INVALID

Texts == Rows \cup Selects \cup {DeleteText}

ItemsOf(values, raw) == [key : Keys, value : values, raw : {raw},
                         status : Statuses, hooked : BOOLEAN]

Items == ItemsOf(Texts, TRUE) \cup ItemsOf(Rows \cup {Partial}, FALSE)

ASSUME StoreAssumption ==
  /\ TableOf \in [Keys -> Tables]
  /\ Size \in [Tables -> Nat]
  /\ Selects \cap Rows = {}
  /\ DeleteText \notin Rows \cup Selects
  /\ NoRow \notin Rows
  /\ NoColumns \notin Selects
  /\ {"invalid", "error", "insert", "delete", "select", "success"} \subseteq Statuses
  /\ Blank \notin Items

VARIABLES
  position,  \* header->pool_position of each table
  slot,      \* the slots of each table
  columns,   \* the column header of each table
  index,     \* key_map_: the slot of each key, or None
  db         \* the row of each key in the database

vars == <<position, slot, columns, index, db>>

SlotNumbers(t) == 0 .. Size[t] - 1

IsCached(k) == index[k] # None

Item(k) == slot[TableOf[k]][index[k]]

SetItem(k, item) == slot' = [slot EXCEPT ![TableOf[k]][index[k]] = item]

(* A slot after memset and db_item_t::clear, with only_key and data filled. *)
Fresh(k, v) == [key |-> k, value |-> v, raw |-> TRUE, status |-> "invalid",
                hooked |-> FALSE]

(***************************************************************************)
(* query, on an item and the row of its key.  generate_sql makes a         *)
(* statement only of the text of an insert, a delete or a select: the      *)
(* pf_db::Query it builds the text of an update with was never given a     *)
(* manager, so update and where return at once and the text stays empty.   *)
(* Rows sent as text are not a statement.                                  *)
(*                                                                         *)
(* The answer is the database's: it fails, it is done, or it is done and   *)
(* what a select finds is more than the item has room for.                 *)
(***************************************************************************)
Answers == {"failed", "done", "full"}

IsStatement(item) == item.raw /\ item.status \in {"insert", "delete", "select"}

RowAfter(item, row, answer) ==
  IF IsStatement(item) /\ answer # "failed" /\ item.value \notin Selects
  THEN IF item.value = DeleteText THEN NoRow ELSE item.value
  ELSE row

MutantFetches(item, row, answer) ==  \* fetch takes an empty result for rows
  /\ IsStatement(item) /\ item.status = "select"
  /\ answer # "failed"
  /\ item.value \in Selects

(* fetch finds rows: from here on it writes over the header and the data. *)
Fetches(item, row, answer) ==
  /\ IsStatement(item) /\ item.status = "select"
  /\ answer # "failed"
  /\ item.value \in Selects
  /\ row # NoRow

MutantItemAfter(item, row, answer) ==  \* the last assignment is missing
  IF Fetches(item, row, answer)
  THEN IF answer = "full"
       THEN [item EXCEPT !.status = "error", !.value = Partial, !.raw = FALSE]
       ELSE [item EXCEPT !.value = row, !.raw = FALSE]
  ELSE IF IsStatement(item) /\ answer # "failed" /\ item.status # "select"
       THEN item
       ELSE [item EXCEPT !.status = "error"]

ItemAfter(item, row, answer) ==
  IF Fetches(item, row, answer)
  THEN IF answer = "full"
       THEN [item EXCEPT !.status = "error", !.value = Partial, !.raw = FALSE]
       ELSE [item EXCEPT !.status = "success", !.value = row, !.raw = FALSE]
  ELSE IF IsStatement(item) /\ answer # "failed" /\ item.status # "select"
       THEN [item EXCEPT !.status = "success"]
       ELSE [item EXCEPT !.status = "error"]

(* What query leaves in the header and in the database. *)
Runs(k, answer) ==
  /\ db' = [db EXCEPT ![k] = RowAfter(Item(k), @, answer)]
  /\ columns' = [columns EXCEPT ![TableOf[k]] =
       IF Fetches(Item(k), db[k], answer) THEN Item(k).value ELSE @]

-----------------------------------------------------------------------------

Init ==
  /\ position = [t \in Tables |-> 0]
  /\ slot = [t \in Tables |-> [i \in SlotNumbers(t) |-> Blank]]
  /\ columns = [t \in Tables |-> NoColumns]
  /\ index = [k \in Keys |-> None]
  /\ db \in [Keys -> Rows \cup {NoRow}]

(* put of a key that is not cached.  A table that is full drops it: no key *)
(* is ever in recycle_map_, so recycle_free finds none to make room with.  *)
Add(k, v) ==
  LET t == TableOf[k]
      i == position[t]  \* GroupPool::alloc
  IN  /\ ~IsCached(k)
      /\ i < Size[t]
      /\ position' = [position EXCEPT ![t] = i + 1]
      /\ slot' = [slot EXCEPT ![t][i] = Fresh(k, v)]
      /\ index' = [index EXCEPT ![k] = i]
      /\ UNCHANGED <<columns, db>>

(* put of a cached key replaces the data and nothing else of the item. *)
Replace(k, v) ==
  /\ IsCached(k)
  /\ SetItem(k, [Item(k) EXCEPT !.value = v, !.raw = TRUE])
  /\ UNCHANGED <<position, columns, index, db>>

(* dcache_settable: rows by the columns in the header, of whatever select; *)
(* a value that is no row ends it before the number of rows is written.    *)
Write(k, row) ==
  /\ IsCached(k)
  /\ columns[TableOf[k]] # NoColumns
  /\ SetItem(k, [Item(k) EXCEPT !.value = row, !.raw = FALSE])
  /\ UNCHANGED <<position, columns, index, db>>

(* dcache_setstatus. *)
SetStatus(k, status) ==
  /\ IsCached(k)
  /\ SetItem(k, [Item(k) EXCEPT !.status = status])
  /\ UNCHANGED <<position, columns, index, db>>

(* hook and set_cache_time, for some minutes: hook_time is above zero. *)
Hook(k) ==
  /\ IsCached(k)
  /\ SetItem(k, [Item(k) EXCEPT !.hooked = TRUE])
  /\ UNCHANGED <<position, columns, index, db>>

Query(k, answer) ==
  /\ IsCached(k)
  /\ SetItem(k, ItemAfter(Item(k), db[k], answer))
  /\ Runs(k, answer)
  /\ UNCHANGED <<position, index>>

MutantForgetLeavesHash(k, answer) ==  \* the moved item's key_map_ entry stays
  LET t == TableOf[k]
      i == index[k]
      last == position[t] - 1
  IN  /\ IsCached(k)
      /\ Runs(k, answer)
      /\ position' = [position EXCEPT ![t] = last]
      /\ slot' = [slot EXCEPT ![t][i] = slot[t][last], ![t][last] = Blank]
      /\ index' = [index EXCEPT ![k] = None]

MutantForgetLeavesSlot(k, answer) ==  \* the last item is not copied
  LET t == TableOf[k]
      i == index[k]
      last == position[t] - 1
      moved == slot[t][last].key
  IN  /\ IsCached(k)
      /\ Runs(k, answer)
      /\ position' = [position EXCEPT ![t] = last]
      /\ slot' = [slot EXCEPT ![t][last] = Blank]
      /\ index' = [index EXCEPT ![moved] = i, ![k] = None]

(* forget: the query, GroupPool::free and the new key_map_ entries. *)
Forget(k, answer) ==
  LET t == TableOf[k]
      i == index[k]
      last == position[t] - 1
      moved == slot[t][last].key
  IN  /\ IsCached(k)
      /\ Runs(k, answer)
      /\ position' = [position EXCEPT ![t] = last]
      /\ IF i < last
         THEN /\ slot' = [slot EXCEPT ![t][i] = slot[t][last], ![t][last] = Blank]
              /\ index' = [index EXCEPT ![moved] = i, ![k] = None]
         ELSE /\ slot' = [slot EXCEPT ![t][i] = Blank]
              /\ index' = [index EXCEPT ![k] = None]

Next == \E k \in Keys :
  \/ \E v \in Texts : Add(k, v) \/ Replace(k, v)
  \/ \E answer \in Answers : Query(k, answer) \/ Forget(k, answer)
  \/ \E row \in Rows \cup {Partial} : Write(k, row)
  \/ \E status \in Statuses : SetStatus(k, status)
  \/ Hook(k)

Spec == Init /\ [][Next]_vars

-----------------------------------------------------------------------------

TypeOK ==
  /\ position \in [Tables -> Nat]
  /\ DOMAIN slot = Tables
  /\ \A t \in Tables : slot[t] \in [SlotNumbers(t) -> Items \cup {Blank}]
  /\ columns \in [Tables -> Selects \cup {NoColumns}]
  /\ index \in [Keys -> Nat \cup {None}]
  /\ db \in [Keys -> Rows \cup {NoRow}]

(* The slots in use hold items, the others none, and key_map_ and the      *)
(* slots agree: a key that is cached has a slot in use with its own item,  *)
(* and every slot in use belongs to the key that key_map_ finds it by.     *)
(* The swap in GroupPool::free and the entry forget rewrites keep it so.   *)
SlotsMatchKeys ==
  /\ \A t \in Tables : position[t] <= Size[t]
  /\ \A k \in Keys : IsCached(k) => index[k] < position[TableOf[k]] /\ Item(k).key = k
  /\ \A t \in Tables : \A i \in SlotNumbers(t) :
       IF i < position[t]
       THEN slot[t][i] # Blank /\ TableOf[slot[t][i].key] = t /\ index[slot[t][i].key] = i
       ELSE slot[t][i] = Blank

(* The cache the callers see: what getitem returns for each key. *)
View == [k \in Keys |-> IF IsCached(k) THEN Item(k) ELSE Blank]

C == INSTANCE Cache WITH Entries <- Items, Absent <- Blank, cache <- View,
                         Headers <- Selects, NoHeader <- NoColumns,
                         header <- columns

(* The dense arrays implement the map of StoreInterface: whatever slots an *)
(* operation on one key moves, the items of the other keys stay the same   *)
(* and no table holds more than its size.  All that keys of one table      *)
(* share is the header of columns, which no put and no forget gives back.  *)
ImplementsCache == C!Spec

(* What reaches the database is a statement somebody put and marked, and   *)
(* query takes the mark away: neither the second query forget makes nor a  *)
(* later one runs it again.                                                *)
StatementRunsOnce ==
  [][\A k \in Keys :
      db'[k] # db[k] =>
        /\ IsCached(k) /\ IsStatement(Item(k))
        /\ IsCached(k)' => ~IsStatement(Item(k)')]_vars

(* A row changed in the cache and marked kQueryUpdate, "waiting for the    *)
(* database to update", is in the database once a query was carried out.   *)
(* False: the text generate_sql builds of an update is empty.              *)
UpdateIsSaved ==
  [][\A k \in Keys :
      /\ IsCached(k)
      /\ Item(k).status = "update"
      /\ columns[TableOf[k]] # NoColumns /\ ~Item(k).raw
      /\ Query(k, "done")
      => db'[k] = Item(k).value]_vars
=============================================================================
