----------------------------- MODULE Store_proofs -----------------------------
(***************************************************************************)
(* The slots and key_map_ of Store agree for every set of keys and tables  *)
(* and every size.  SlotsMatchKeys is inductive next to the types: a slot  *)
(* in use names its key and key_map_ leads back to the slot, so the key    *)
(* whose item fills a hole is the one whose entry forget rewrites.         *)
(* With it each step is one of the abstract Cache; the keys of a table are *)
(* counted by the injection key_map_ is into the slots in use.             *)
(***************************************************************************)
EXTENDS Store, FiniteSetTheorems, TLAPS

StoreInv == TypeOK /\ SlotsMatchKeys

-----------------------------------------------------------------------------

(* What the invariant says of one cached key. *)
LEMMA CachedItem ==
  ASSUME StoreInv, NEW k \in Keys, IsCached(k)
  PROVE  /\ TableOf[k] \in Tables
         /\ Size[TableOf[k]] \in Nat
         /\ index[k] \in SlotNumbers(TableOf[k])
         /\ index[k] < position[TableOf[k]]
         /\ position[TableOf[k]] \in Nat
         /\ position[TableOf[k]] <= Size[TableOf[k]]
         /\ Item(k) # Blank
         /\ Item(k) \in Items
         /\ Item(k).key = k
<1>1. TableOf[k] \in Tables /\ Size[TableOf[k]] \in Nat
  BY StoreAssumption
<1>2. /\ position[TableOf[k]] \in Nat
      /\ position[TableOf[k]] <= Size[TableOf[k]]
      /\ index[k] < position[TableOf[k]]
      /\ Item(k).key = k
  BY <1>1 DEF StoreInv, TypeOK, SlotsMatchKeys
<1>3. index[k] \in SlotNumbers(TableOf[k])
  BY <1>1, <1>2 DEF StoreInv, TypeOK, IsCached, SlotNumbers
<1>4. Item(k) # Blank
  BY <1>1, <1>2, <1>3 DEF StoreInv, SlotsMatchKeys, Item
<1>5. Item(k) \in Items
  BY <1>1, <1>3, <1>4 DEF StoreInv, TypeOK, Item
<1> QED
  BY <1>1, <1>2, <1>3, <1>4, <1>5

(* What the invariant says of one slot in use. *)
LEMMA UsedSlot ==
  ASSUME StoreInv, NEW t \in Tables, NEW i \in SlotNumbers(t), i < position[t]
  PROVE  /\ slot[t][i] \in Items
         /\ slot[t][i].key \in Keys
         /\ TableOf[slot[t][i].key] = t
         /\ index[slot[t][i].key] = i
<1>1. slot[t][i] \in Items
  BY DEF StoreInv, TypeOK, SlotsMatchKeys
<1>2. slot[t][i].key \in Keys
  BY <1>1 DEF Items, ItemsOf
<1> QED
  BY <1>1, <1>2 DEF StoreInv, SlotsMatchKeys

(* Another status leaves an item of text or of rows what it is.            *)
LEMMA StatusType ==
  ASSUME NEW item \in Items, NEW status \in Statuses
  PROVE  /\ [item EXCEPT !.status = status] \in Items
         /\ [item EXCEPT !.status = status].key = item.key
<1>1. CASE item \in ItemsOf(Texts, TRUE)
  <2>1. [item EXCEPT !.status = status] \in ItemsOf(Texts, TRUE)
    BY <1>1 DEF ItemsOf
  <2> QED
    BY <1>1, <2>1 DEF Items, ItemsOf
<1>2. CASE item \in ItemsOf(Rows \cup {Partial}, FALSE)
  <2>1. [item EXCEPT !.status = status] \in ItemsOf(Rows \cup {Partial}, FALSE)
    BY <1>2 DEF ItemsOf
  <2> QED
    BY <1>2, <2>1 DEF Items, ItemsOf
<1> QED
  BY <1>1, <1>2 DEF Items

(* Whatever an item holds, rows over its data make it an item of rows, and *)
(* text an item of text.                                                   *)
LEMMA DataType ==
  ASSUME NEW item \in Items
  PROVE  /\ item.key \in Keys /\ item.status \in Statuses /\ item.hooked \in BOOLEAN
         /\ \A v \in Texts : /\ [item EXCEPT !.value = v, !.raw = TRUE] \in Items
                              /\ [item EXCEPT !.value = v, !.raw = TRUE].key = item.key
         /\ \A v \in Rows \cup {Partial} :
              /\ [item EXCEPT !.value = v, !.raw = FALSE] \in Items
              /\ [item EXCEPT !.value = v, !.raw = FALSE].key = item.key
         /\ [item EXCEPT !.hooked = TRUE] \in Items
         /\ [item EXCEPT !.hooked = TRUE].key = item.key
<1>1. CASE item \in ItemsOf(Texts, TRUE)
  BY <1>1 DEF Items, ItemsOf
<1>2. CASE item \in ItemsOf(Rows \cup {Partial}, FALSE)
  BY <1>2 DEF Items, ItemsOf
<1> QED
  BY <1>1, <1>2 DEF Items

(* A statement leaves a row that the database can hold. *)
LEMMA RowAfterType ==
  ASSUME NEW item \in Items, NEW row \in Rows \cup {NoRow}, NEW answer
  PROVE  RowAfter(item, row, answer) \in Rows \cup {NoRow}
<1>1. CASE IsStatement(item)
  <2>1. item.value \in Texts
    BY <1>1 DEF IsStatement, Items, ItemsOf
  <2> QED
    BY <2>1 DEF RowAfter, Texts
<1>2. CASE ~IsStatement(item)
  BY <1>2 DEF RowAfter
<1> QED
  BY <1>1, <1>2

(* query leaves an item of the same key. *)
LEMMA ItemAfterType ==
  ASSUME NEW item \in Items, NEW row \in Rows \cup {NoRow}, NEW answer
  PROVE  /\ ItemAfter(item, row, answer) \in Items
         /\ ItemAfter(item, row, answer).key = item.key
<1>1. \A status \in {"error", "success"} :
        /\ [item EXCEPT !.status = status] \in Items
        /\ [item EXCEPT !.status = status].key = item.key
  BY StatusType, StoreAssumption
<1>2. CASE Fetches(item, row, answer)
  <2>1. row \in Rows
    BY <1>2 DEF Fetches
  <2>2. ASSUME NEW status \in {"error", "success"}, NEW v \in Rows \cup {Partial}
        PROVE  /\ [item EXCEPT !.status = status, !.value = v, !.raw = FALSE] \in Items
               /\ [item EXCEPT !.status = status, !.value = v, !.raw = FALSE].key = item.key
    <3> DEFINE marked == [item EXCEPT !.status = status]
    <3>1. marked \in Items /\ marked.key = item.key
      BY <1>1
    <3>2. /\ [marked EXCEPT !.value = v, !.raw = FALSE] \in Items
          /\ [marked EXCEPT !.value = v, !.raw = FALSE].key = marked.key
      <4> HIDE DEF marked
      <4> QED
        BY <3>1, DataType
    <3>3. [item EXCEPT !.status = status, !.value = v, !.raw = FALSE]
            = [marked EXCEPT !.value = v, !.raw = FALSE]
      BY DEF Items, ItemsOf
    <3> HIDE DEF marked
    <3> QED
      BY <3>1, <3>2, <3>3
  <2>3. CASE answer = "full"
    <3>1. ItemAfter(item, row, answer)
            = [item EXCEPT !.status = "error", !.value = Partial, !.raw = FALSE]
      BY <1>2, <2>3 DEF ItemAfter
    <3>2. "error" \in {"error", "success"} /\ Partial \in Rows \cup {Partial}
      OBVIOUS
    <3>3. /\ [item EXCEPT !.status = "error", !.value = Partial, !.raw = FALSE] \in Items
          /\ [item EXCEPT !.status = "error", !.value = Partial, !.raw = FALSE].key = item.key
      BY <2>2, <3>2
    <3> QED
      BY <3>1, <3>3
  <2>4. CASE answer # "full"
    <3>1. ItemAfter(item, row, answer)
            = [item EXCEPT !.status = "success", !.value = row, !.raw = FALSE]
      BY <1>2, <2>4 DEF ItemAfter
    <3>2. "success" \in {"error", "success"} /\ row \in Rows \cup {Partial}
      BY <2>1
    <3>3. /\ [item EXCEPT !.status = "success", !.value = row, !.raw = FALSE] \in Items
          /\ [item EXCEPT !.status = "success", !.value = row, !.raw = FALSE].key = item.key
      BY <2>2, <3>2
    <3> QED
      BY <3>1, <3>3
  <2> QED
    BY <2>3, <2>4
<1>3. CASE ~Fetches(item, row, answer)
  <2>1. \/ ItemAfter(item, row, answer) = [item EXCEPT !.status = "error"]
        \/ ItemAfter(item, row, answer) = [item EXCEPT !.status = "success"]
    BY <1>3 DEF ItemAfter, Fetches
  <2> QED
    BY <1>1, <2>1
<1> QED
  BY <1>2, <1>3

(* A query of k writes no header but that of k's table, and leaves columns *)
(* there or what there was.                                                *)
LEMMA RunsType ==
  ASSUME StoreInv, NEW k \in Keys, IsCached(k), NEW answer, Runs(k, answer)
  PROVE  /\ db' \in [Keys -> Rows \cup {NoRow}]
         /\ columns' \in [Tables -> Selects \cup {NoColumns}]
         /\ UNCHANGED columns \/ C!Fetches(k)
<1>1. /\ Item(k) \in Items /\ db[k] \in Rows \cup {NoRow}
      /\ TableOf[k] \in Tables
      /\ columns \in [Tables -> Selects \cup {NoColumns}]
  BY CachedItem DEF StoreInv, TypeOK
<1>2. db' \in [Keys -> Rows \cup {NoRow}]
  BY <1>1, RowAfterType DEF Runs, StoreInv, TypeOK
<1>3. CASE Fetches(Item(k), db[k], answer)
  <2>1. /\ Item(k).value \in Selects
        /\ columns' = [columns EXCEPT ![TableOf[k]] = Item(k).value]
    BY <1>3 DEF Fetches, Runs
  <2> QED
    BY <1>1, <1>2, <2>1 DEF C!Fetches
<1>4. CASE ~Fetches(Item(k), db[k], answer)
  <2>1. columns' = columns
    BY <1>1, <1>4 DEF Runs
  <2> QED
    BY <1>1, <1>2, <2>1
<1> QED
  BY <1>3, <1>4

-----------------------------------------------------------------------------
(* What the callers see.                                                   *)

(* A key is seen when it is cached, with the item key_map_ finds.          *)
LEMMA ViewOf ==
  ASSUME StoreInv, NEW k \in Keys
  PROVE  /\ View[k] = IF IsCached(k) THEN Item(k) ELSE Blank
         /\ View[k] # Blank <=> IsCached(k)
BY CachedItem DEF View

(* When the other keys look the same, only one key has changed.            *)
LEMMA ViewChanges ==
  ASSUME NEW k \in Keys, \A x \in Keys \ {k} : View'[x] = View[x]
  PROVE  View' = [View EXCEPT ![k] = View'[k]]
<1>1. View' = [x \in Keys |-> View'[x]]
  BY DEF View
<1>2. View = [x \in Keys |-> View[x]]
  BY DEF View
<1>3. [View EXCEPT ![k] = View'[k]] = [x \in Keys |-> IF x = k THEN View'[k] ELSE View[x]]
  BY <1>2
<1> QED
  BY <1>1, <1>3

(* Cache takes the cardinality from an instance of FiniteSets of its own.  *)
LEMMA SameCardinality ==
  ASSUME NEW S
  PROVE  C!Cardinality(S) = Cardinality(S)
<1>1. C!IsFiniteSet(S) <=> IsFiniteSet(S)
  BY DEF IsFiniteSet, C!IsFiniteSet
<1> QED
  BY <1>1 DEF Cardinality, C!Cardinality

(* A table holds no more keys than it has slots in use.                    *)
LEMMA TableCount ==
  ASSUME StoreInv, NEW t \in Tables
  PROVE  /\ Cardinality(C!Cached(t)) \in Nat
         /\ Cardinality(C!Cached(t)) <= position[t]
<1> DEFINE used == 0 .. position[t] - 1
           keys == C!Cached(t)
           f == [k \in keys |-> index[k]]
<1>1. position[t] \in Nat
  BY DEF StoreInv, TypeOK
<1>2. \A k \in keys : /\ k \in Keys /\ TableOf[k] = t
                     /\ index[k] \in used
                     /\ slot[t][index[k]].key = k
  <2> SUFFICES ASSUME NEW k \in keys
               PROVE  /\ k \in Keys /\ TableOf[k] = t
                      /\ index[k] \in used
                      /\ slot[t][index[k]].key = k
    OBVIOUS
  <2>1. k \in Keys /\ TableOf[k] = t /\ View[k] # Blank
    BY DEF C!Cached
  <2>2. IsCached(k)
    BY <2>1, ViewOf
  <2>3. /\ index[k] \in SlotNumbers(t)
        /\ index[k] < position[t]
        /\ slot[t][index[k]].key = k
    BY <2>1, <2>2, CachedItem DEF Item
  <2>4. index[k] \in used
    BY <2>1, <2>3, <1>1, StoreAssumption DEF SlotNumbers
  <2> QED
    BY <2>1, <2>3, <2>4
<1> HIDE DEF keys
<1>3. f \in Injection(keys, used)
  <2>1. f \in [keys -> used]
    BY <1>2
  <2>2. \A a, b \in keys : f[a] = f[b] => a = b
    BY <1>2
  <2> QED
    BY <2>1, <2>2 DEF Injection, IsInjective
<1>4. IsFiniteSet(used) /\ Cardinality(used) = position[t]
  <2>1. /\ IsFiniteSet(0 .. position[t] - 1)
        /\ Cardinality(0 .. position[t] - 1)
             = IF 0 > position[t] - 1 THEN 0 ELSE position[t] - 1 - 0 + 1
    <3>1. 0 \in Int /\ position[t] - 1 \in Int
      BY <1>1
    <3> QED
      BY <3>1, FS_Interval
  <2> QED
    BY <1>1, <2>1
<1> HIDE DEF used, f
<1>5. IsFiniteSet(keys) /\ Cardinality(keys) <= Cardinality(used)
  BY <1>3, <1>4, FS_Injection
<1>6. Cardinality(keys) \in Nat
  BY <1>5, FS_CardinalityType
<1> QED
  BY <1>4, <1>5, <1>6 DEF keys

-----------------------------------------------------------------------------
(* The steps: each keeps the invariant and is one of the abstract cache.   *)

LEMMA StoreInvInit == Init => StoreInv
BY StoreAssumption DEF Init, StoreInv, TypeOK, SlotsMatchKeys, IsCached, None, SlotNumbers

(* Changing an item in place changes what is seen of its key. *)
LEMMA InPlace ==
  ASSUME StoreInv, NEW k \in Keys, IsCached(k),
         NEW item \in Items, item.key = k,
         SetItem(k, item), position' = position, index' = index,
         db' \in [Keys -> Rows \cup {NoRow}],
         columns' \in [Tables -> Selects \cup {NoColumns}],
         UNCHANGED columns \/ C!Fetches(k)
  PROVE  StoreInv' /\ C!Change(k)
<1> DEFINE t == TableOf[k]
           i == index[k]
<1>1. /\ t \in Tables /\ i \in SlotNumbers(t) /\ i < position[t]
  BY CachedItem
<1>2. /\ DOMAIN slot' = Tables
      /\ \A u \in Tables : slot'[u] \in [SlotNumbers(u) -> Items \cup {Blank}]
  BY <1>1 DEF StoreInv, TypeOK, SetItem
<1>3. \A u \in Tables : \A j \in SlotNumbers(u) :
        slot'[u][j] = IF u = t /\ j = i THEN item ELSE slot[u][j]
  BY <1>1 DEF StoreInv, TypeOK, SetItem
<1>4. slot[t][i].key = k
  BY CachedItem DEF Item
<1>5. TypeOK'
  BY <1>2 DEF StoreInv, TypeOK
<1>6. \A x \in Keys : IsCached(x)' => index'[x] < position'[TableOf[x]] /\ Item(x)'.key = x
  <2> SUFFICES ASSUME NEW x \in Keys, IsCached(x)
               PROVE  index[x] < position[TableOf[x]] /\ slot'[TableOf[x]][index[x]].key = x
    BY DEF IsCached, Item
  <2>1. /\ TableOf[x] \in Tables /\ index[x] \in SlotNumbers(TableOf[x])
        /\ index[x] < position[TableOf[x]]
        /\ slot[TableOf[x]][index[x]].key = x
    BY CachedItem DEF Item
  <2> QED
    BY <2>1, <1>3, <1>4
<1>7. ASSUME NEW u \in Tables, NEW j \in SlotNumbers(u)
      PROVE  IF j < position'[u]
             THEN slot'[u][j] # Blank /\ TableOf[slot'[u][j].key] = u /\ index'[slot'[u][j].key] = j
             ELSE slot'[u][j] = Blank
  <2>1. CASE u = t /\ j = i
    <3>1. slot'[u][j] = item /\ item # Blank
      BY <2>1, <1>3, StoreAssumption
    <3> QED
      BY <2>1, <3>1, <1>1
  <2>2. CASE ~(u = t /\ j = i)
    BY <2>2, <1>3 DEF StoreInv, SlotsMatchKeys
  <2> QED
    BY <2>1, <2>2
<1>8. \A u \in Tables : position'[u] <= Size[u]
  BY DEF StoreInv, SlotsMatchKeys
<1>9. StoreInv'
  BY <1>5, <1>6, <1>7, <1>8 DEF StoreInv, SlotsMatchKeys
<1>10. View[k] # Blank
  BY ViewOf
<1>11. View'[k] = item
  BY <1>1, <1>3 DEF View, IsCached, Item
<1>12. ASSUME NEW x \in Keys \ {k}
       PROVE  View'[x] = View[x]
  <2>1. CASE IsCached(x)
    <3>1. /\ TableOf[x] \in Tables /\ index[x] \in SlotNumbers(TableOf[x])
          /\ slot[TableOf[x]][index[x]].key = x
      BY <2>1, CachedItem DEF Item
    <3>2. slot'[TableOf[x]][index[x]] = slot[TableOf[x]][index[x]]
      BY <3>1, <1>3, <1>4
    <3> QED
      BY <2>1, <3>2 DEF View, IsCached, Item
  <2>2. CASE ~IsCached(x)
    BY <2>2 DEF View, IsCached
  <2> QED
    BY <2>1, <2>2
<1>13. C!Change(k)
  BY <1>10, <1>11, <1>12, ViewChanges DEF C!Change, C!Changes
<1> QED
  BY <1>9, <1>13

(* put of a key that is not cached takes the first free slot. *)
LEMMA AddStep ==
  ASSUME StoreInv, NEW k \in Keys, NEW v \in Texts, Add(k, v)
  PROVE  StoreInv' /\ C!Add(k)
<1> DEFINE t == TableOf[k]
           i == position[t]
           item == Fresh(k, v)
<1>1. /\ t \in Tables /\ Size[t] \in Nat /\ i \in Nat /\ i < Size[t] /\ ~IsCached(k)
      /\ i \in SlotNumbers(t)
  <2>1. t \in Tables /\ Size[t] \in Nat
    BY StoreAssumption
  <2>2. i \in Nat
    BY <2>1 DEF StoreInv, TypeOK
  <2>3. i < Size[t] /\ ~IsCached(k)
    BY DEF Add
  <2> QED
    BY <2>1, <2>2, <2>3 DEF SlotNumbers
<1>2. item \in Items /\ item.key = k /\ item # Blank
  <2>1. "invalid" \in Statuses
    BY StoreAssumption
  <2>2. item \in Items /\ item.key = k
    BY <2>1 DEF Fresh, Items, ItemsOf
  <2> QED
    BY <2>2, StoreAssumption
<1>3. /\ position' = [position EXCEPT ![t] = i + 1]
      /\ slot' = [slot EXCEPT ![t][i] = item]
      /\ index' = [index EXCEPT ![k] = i]
      /\ db' = db /\ columns' = columns
  BY DEF Add
<1>4. \A u \in Tables : \A j \in SlotNumbers(u) :
        slot'[u][j] = IF u = t /\ j = i THEN item ELSE slot[u][j]
  BY <1>1, <1>3 DEF StoreInv, TypeOK
<1>5. TypeOK'
  BY <1>1, <1>2, <1>3 DEF StoreInv, TypeOK
<1>6. \A u \in Tables : position'[u] <= Size[u]
  BY <1>1, <1>3, StoreAssumption DEF StoreInv, TypeOK, SlotsMatchKeys
<1>7. \A x \in Keys : IsCached(x)' => index'[x] < position'[TableOf[x]] /\ Item(x)'.key = x
  <2> SUFFICES ASSUME NEW x \in Keys, index'[x] # None
               PROVE  index'[x] < position'[TableOf[x]] /\ slot'[TableOf[x]][index'[x]].key = x
    BY DEF IsCached, Item
  <2>1. CASE x = k
    BY <2>1, <1>1, <1>2, <1>3, <1>4 DEF StoreInv, TypeOK
  <2>2. CASE x # k
    <3>1. IsCached(x) /\ index'[x] = index[x]
      BY <2>2, <1>3 DEF IsCached, StoreInv, TypeOK
    <3>2. /\ TableOf[x] \in Tables /\ index[x] \in SlotNumbers(TableOf[x])
          /\ index[x] < position[TableOf[x]]
          /\ position[TableOf[x]] \in Nat
          /\ slot[TableOf[x]][index[x]].key = x
      BY <3>1, CachedItem DEF Item
    <3>3. index[x] \in Int /\ (TableOf[x] = t => index[x] < i)
      BY <3>2 DEF SlotNumbers
    <3>4. slot'[TableOf[x]][index[x]] = slot[TableOf[x]][index[x]]
      BY <3>2, <3>3, <1>1, <1>4
    <3>5. index[x] < position'[TableOf[x]]
      BY <3>2, <3>3, <1>1, <1>3 DEF StoreInv, TypeOK
    <3> QED
      BY <3>1, <3>2, <3>4, <3>5
  <2> QED
    BY <2>1, <2>2
<1>8. ASSUME NEW u \in Tables, NEW j \in SlotNumbers(u)
      PROVE  IF j < position'[u]
             THEN slot'[u][j] # Blank /\ TableOf[slot'[u][j].key] = u /\ index'[slot'[u][j].key] = j
             ELSE slot'[u][j] = Blank
  <2>1. CASE u = t /\ j = i
    BY <2>1, <1>1, <1>2, <1>3, <1>4 DEF StoreInv, TypeOK
  <2>2. CASE ~(u = t /\ j = i)
    <3>1. slot'[u][j] = slot[u][j]
      BY <2>2, <1>4
    <3>2. position'[u] \in Nat /\ position[u] \in Nat /\ j \in Int
          /\ (j < position'[u] <=> j < position[u])
      BY <2>2, <1>1, <1>3 DEF StoreInv, TypeOK, SlotNumbers
    <3>3. CASE j < position[u]
      <4>1. /\ slot[u][j].key \in Keys /\ TableOf[slot[u][j].key] = u
            /\ index[slot[u][j].key] = j /\ slot[u][j] # Blank
        BY <3>3, UsedSlot DEF StoreInv, SlotsMatchKeys
      <4>2. slot[u][j].key # k
        BY <4>1, <1>1 DEF IsCached, None, SlotNumbers
      <4> QED
        BY <3>1, <3>2, <3>3, <4>1, <4>2, <1>3 DEF StoreInv, TypeOK
    <3>4. CASE ~(j < position[u])
      BY <3>1, <3>2, <3>4 DEF StoreInv, SlotsMatchKeys
    <3> QED
      BY <3>3, <3>4
  <2> QED
    BY <2>1, <2>2
<1>9. StoreInv'
  BY <1>5, <1>6, <1>7, <1>8 DEF StoreInv, SlotsMatchKeys
<1>10. View[k] = Blank
  BY <1>1, ViewOf
<1>11. View'[k] = item
  <2>1. index'[k] = i /\ i # None
    BY <1>1, <1>3 DEF StoreInv, TypeOK, None
  <2> QED
    BY <2>1, <1>1, <1>4 DEF View, IsCached, Item
<1>12. ASSUME NEW x \in Keys \ {k}
       PROVE  View'[x] = View[x]
  <2>1. index'[x] = index[x]
    BY <1>3 DEF StoreInv, TypeOK
  <2>2. CASE IsCached(x)
    <3>1. /\ TableOf[x] \in Tables /\ index[x] \in SlotNumbers(TableOf[x])
          /\ index[x] < position[TableOf[x]]
      BY <2>2, CachedItem
    <3>2. ~(TableOf[x] = t /\ index[x] = i)
      BY <3>1, <1>1
    <3>3. slot'[TableOf[x]][index[x]] = slot[TableOf[x]][index[x]]
      BY <3>1, <3>2, <1>4
    <3> QED
      BY <2>1, <2>2, <3>3 DEF View, IsCached, Item
  <2>3. CASE ~IsCached(x)
    BY <2>1, <2>3 DEF View, IsCached
  <2> QED
    BY <2>2, <2>3
<1>13. Cardinality(C!Cached(t)) < Size[t]
  BY <1>1, TableCount
<1>14. C!Add(k)
  <2>1. C!Changes(k)
    BY <1>2, <1>11, <1>12, ViewChanges DEF C!Changes
  <2> QED
    BY <1>3, <1>10, <1>13, <2>1, SameCardinality DEF C!Add
<1> QED
  BY <1>9, <1>14

(* query changes one item and one row. *)
LEMMA QueryStep ==
  ASSUME StoreInv, NEW k \in Keys, NEW answer \in Answers, Query(k, answer)
  PROVE  StoreInv' /\ C!Change(k)
<1>1. IsCached(k)
  BY DEF Query
<1>2. Item(k) \in Items /\ Item(k).key = k
  BY <1>1, CachedItem
<1>3. db[k] \in Rows \cup {NoRow}
  BY DEF StoreInv, TypeOK
<1>4. ItemAfter(Item(k), db[k], answer) \in Items /\ ItemAfter(Item(k), db[k], answer).key = k
  BY <1>2, <1>3, ItemAfterType
<1>5. /\ db' \in [Keys -> Rows \cup {NoRow}]
      /\ columns' \in [Tables -> Selects \cup {NoColumns}]
      /\ UNCHANGED columns \/ C!Fetches(k)
  BY <1>1, RunsType DEF Query
<1> QED
  BY <1>1, <1>4, <1>5, InPlace DEF Query

(* The item that forget moves is the one of another key of the same table, *)
(* and no other entry of key_map_ leads to the slot it leaves.             *)
LEMMA ForgetStep ==
  ASSUME StoreInv, NEW k \in Keys, NEW answer \in Answers, Forget(k, answer)
  PROVE  StoreInv' /\ C!Forget(k)
<1> DEFINE t == TableOf[k]
           i == index[k]
           last == position[t] - 1
           moved == slot[t][last].key
<1>1. /\ t \in Tables /\ Size[t] \in Nat /\ IsCached(k)
      /\ i \in Nat /\ last \in Nat /\ i <= last /\ last < position[t]
      /\ position[t] \in Nat /\ position[t] <= Size[t]
      /\ i \in SlotNumbers(t) /\ last \in SlotNumbers(t)
      /\ slot[t][i].key = k
  <2>1. IsCached(k)
    BY DEF Forget
  <2> QED
    BY <2>1, CachedItem DEF SlotNumbers, Item
<1>2. /\ slot[t][last] \in Items /\ slot[t][last] # Blank
      /\ moved \in Keys /\ TableOf[moved] = t /\ index[moved] = last
  BY <1>1, UsedSlot, StoreAssumption
<1>3. position' = [position EXCEPT ![t] = last]
  BY DEF Forget
<1>4. /\ db' \in [Keys -> Rows \cup {NoRow}]
      /\ columns' \in [Tables -> Selects \cup {NoColumns}]
      /\ UNCHANGED columns \/ C!Fetches(k)
  BY <1>1, RunsType DEF Forget
<1>5. /\ DOMAIN slot' = Tables
      /\ \A u \in Tables : slot'[u] \in [SlotNumbers(u) -> Items \cup {Blank}]
      /\ \A u \in Tables : \A j \in SlotNumbers(u) :
           slot'[u][j] = IF u = t /\ j = last THEN Blank
                         ELSE IF u = t /\ j = i THEN slot[t][last]
                         ELSE slot[u][j]
  <2>1. CASE i < last
    <3>1. slot' = [slot EXCEPT ![t][i] = slot[t][last], ![t][last] = Blank]
      BY <2>1 DEF Forget
    <3> QED
      BY <2>1, <3>1, <1>1, <1>2 DEF StoreInv, TypeOK
  <2>2. CASE i = last
    <3>1. slot' = [slot EXCEPT ![t][i] = Blank]
      BY <2>2, <1>1 DEF Forget
    <3> QED
      BY <2>2, <3>1, <1>1, <1>2 DEF StoreInv, TypeOK
  <2> QED
    BY <2>1, <2>2, <1>1
<1>6. /\ index' \in [Keys -> Nat \cup {None}]
      /\ \A x \in Keys : index'[x] = IF x = k THEN None
                                     ELSE IF x = moved THEN i
                                     ELSE index[x]
  <2>1. CASE i < last
    <3>1. index' = [index EXCEPT ![moved] = i, ![k] = None]
      BY <2>1 DEF Forget
    <3> QED
      BY <3>1, <1>1, <1>2 DEF StoreInv, TypeOK
  <2>2. CASE i = last
    <3>1. index' = [index EXCEPT ![k] = None] /\ moved = k
      BY <2>2, <1>1 DEF Forget
    <3> QED
      BY <3>1, <1>1, <1>2 DEF StoreInv, TypeOK
  <2> QED
    BY <2>1, <2>2, <1>1
<1>7. TypeOK'
  BY <1>1, <1>3, <1>4, <1>5, <1>6 DEF StoreInv, TypeOK
<1>8. \A u \in Tables : position'[u] <= Size[u]
  BY <1>1, <1>3 DEF StoreInv, TypeOK, SlotsMatchKeys
<1>9. ASSUME NEW x \in Keys, index'[x] # None
      PROVE  index'[x] < position'[TableOf[x]] /\ slot'[TableOf[x]][index'[x]].key = x
  <2>1. x # k
    BY <1>9, <1>6
  <2>2. CASE x = moved
    <3>1. TableOf[x] = t /\ index'[x] = i
      BY <2>1, <2>2, <1>2, <1>6
    <3>2. i < last
      BY <2>1, <2>2, <1>1
    <3>3. i < position'[t]
      BY <3>2, <1>1, <1>3 DEF StoreInv, TypeOK
    <3>4. slot'[t][i] = slot[t][last]
      BY <3>2, <1>1, <1>5
    <3> QED
      BY <2>2, <3>1, <3>3, <3>4
  <2>3. CASE x # moved
    <3>1. IsCached(x) /\ index'[x] = index[x]
      BY <2>1, <2>3, <1>6, <1>9 DEF IsCached
    <3>2. /\ TableOf[x] \in Tables /\ index[x] \in SlotNumbers(TableOf[x])
          /\ index[x] < position[TableOf[x]]
          /\ slot[TableOf[x]][index[x]].key = x
      BY <3>1, CachedItem DEF Item
    <3>3. index[x] \in Int
      BY <3>2 DEF SlotNumbers
    <3>4. TableOf[x] = t => index[x] # last /\ index[x] # i
      BY <2>1, <2>3, <3>2, <1>1
    <3>5. index[x] < position'[TableOf[x]]
      <4>1. CASE TableOf[x] = t
        <5>1. position'[t] = last /\ position[t] = last + 1
          BY <1>1, <1>3 DEF StoreInv, TypeOK
        <5>2. index[x] < last + 1 /\ index[x] # last
          BY <4>1, <5>1, <3>2, <3>4
        <5> QED
          BY <4>1, <5>1, <5>2, <3>3, <1>1
      <4>2. CASE TableOf[x] # t
        <5>1. position'[TableOf[x]] = position[TableOf[x]]
          BY <4>2, <3>2, <1>3 DEF StoreInv, TypeOK
        <5> QED
          BY <5>1, <3>2
      <4> QED
        BY <4>1, <4>2
    <3>6. slot'[TableOf[x]][index[x]] = slot[TableOf[x]][index[x]]
      BY <3>2, <3>4, <1>5
    <3> QED
      BY <3>1, <3>2, <3>5, <3>6
  <2> QED
    BY <2>2, <2>3
<1>10. ASSUME NEW u \in Tables, NEW j \in SlotNumbers(u)
       PROVE  IF j < position'[u]
              THEN slot'[u][j] # Blank /\ TableOf[slot'[u][j].key] = u /\ index'[slot'[u][j].key] = j
              ELSE slot'[u][j] = Blank
  <2>1. j \in Int /\ position[u] \in Nat
    BY DEF SlotNumbers, StoreInv, TypeOK
  <2>2. CASE u = t /\ j = last
    BY <2>1, <2>2, <1>1, <1>3, <1>5 DEF StoreInv, TypeOK
  <2>3. CASE u = t /\ j = i /\ j # last
    <3>1. slot'[u][j] = slot[t][last] /\ moved # k
      BY <2>3, <1>1, <1>2, <1>5
    <3>2. index'[moved] = j
      BY <2>3, <3>1, <1>2, <1>6
    <3>3. j < position'[u]
      BY <2>3, <1>1, <1>3, SMTT(30) DEF StoreInv, TypeOK
    <3> QED
      BY <2>3, <3>1, <3>2, <3>3, <1>2
  <2>4. CASE ~(u = t /\ (j = i \/ j = last))
    <3>1. slot'[u][j] = slot[u][j]
      BY <2>4, <1>5
    <3>2. j < position'[u] <=> j < position[u]
      <4>1. CASE u = t
        <5>1. position'[u] = last
          BY <4>1, <1>1, <1>3 DEF StoreInv, TypeOK
        <5> QED
          BY <4>1, <5>1, <2>1, <2>4
      <4>2. CASE u # t
        BY <4>2, <1>3 DEF StoreInv, TypeOK
      <4> QED
        BY <4>1, <4>2
    <3>3. CASE j < position[u]
      <4>1. /\ slot[u][j].key \in Keys /\ TableOf[slot[u][j].key] = u
            /\ index[slot[u][j].key] = j /\ slot[u][j] # Blank
        BY <3>3, UsedSlot DEF StoreInv, SlotsMatchKeys
      <4>2. slot[u][j].key # k /\ slot[u][j].key # moved
        BY <2>4, <4>1, <1>1, <1>2
      <4> QED
        BY <3>1, <3>2, <3>3, <4>1, <4>2, <1>6
    <3>4. CASE ~(j < position[u])
      BY <3>1, <3>2, <3>4 DEF StoreInv, SlotsMatchKeys
    <3> QED
      BY <3>3, <3>4
  <2> QED
    BY <2>2, <2>3, <2>4
<1>11. SlotsMatchKeys'
  <2>1. \A x \in Keys : IsCached(x)' => index'[x] < position'[TableOf[x]] /\ Item(x)'.key = x
    BY <1>9 DEF IsCached, Item
  <2> QED
    BY <2>1, <1>8, <1>10 DEF SlotsMatchKeys
<1>12. ASSUME NEW x \in Keys \ {k}
       PROVE  View'[x] = View[x]
  <2>1. CASE IsCached(x) /\ x = moved
    <3>1. index'[x] = i /\ i # None /\ i < last /\ TableOf[x] = t /\ index[x] = last
      <4>1. index'[x] = i /\ TableOf[x] = t /\ index[x] = last
        BY <2>1, <1>2, <1>6
      <4>2. i # last
        BY <4>1, <2>1, <1>1, <1>2
      <4> HIDE DEF i, last, t, moved
      <4>3. i < last /\ i # None
        BY <4>2, <1>1 DEF None
      <4> QED
        BY <4>1, <4>3
    <3>2. slot'[t][i] = slot[t][last]
      BY <3>1, <1>1, <1>5
    <3> QED
      BY <2>1, <3>1, <3>2 DEF View, IsCached, Item
  <2>2. CASE IsCached(x) /\ x # moved
    <3>1. index'[x] = index[x]
      BY <2>2, <1>6
    <3>2. /\ TableOf[x] \in Tables /\ index[x] \in SlotNumbers(TableOf[x])
          /\ slot[TableOf[x]][index[x]].key = x
      BY <2>2, CachedItem DEF Item
    <3>3. slot'[TableOf[x]][index[x]] = slot[TableOf[x]][index[x]]
      BY <2>2, <3>2, <1>1, <1>5
    <3> QED
      BY <2>2, <3>1, <3>3 DEF View, IsCached, Item
  <2>3. CASE ~IsCached(x)
    <3>1. index'[x] = None
      <4>1. x # moved
        <5>1. index[moved] = last /\ last \in Nat
          BY <1>1, <1>2
        <5> HIDE DEF last, moved
        <5>2. index[moved] # None
          BY <5>1 DEF None
        <5> QED
          BY <2>3, <5>2 DEF IsCached
      <4>2. index[x] = None
        BY <2>3 DEF IsCached
      <4> QED
        BY <4>1, <4>2, <1>6
    <3> QED
      BY <2>3, <3>1 DEF View, IsCached
  <2> QED
    BY <2>1, <2>2, <2>3
<1>13. View'[k] = Blank
  BY <1>6 DEF View, IsCached
<1>14. C!Forget(k)
  <2>1. View' = [View EXCEPT ![k] = Blank] /\ View[k] # Blank
    BY <1>1, <1>12, <1>13, ViewChanges, ViewOf
  <2> QED
    BY <1>4, <2>1 DEF C!Forget
<1> QED
  BY <1>7, <1>11, <1>14 DEF StoreInv

LEMMA StoreInvStep == StoreInv /\ [Next]_vars => StoreInv' /\ [C!Next]_<<View, columns>>
<1> SUFFICES ASSUME StoreInv, [Next]_vars
             PROVE  StoreInv' /\ [C!Next]_<<View, columns>>
  OBVIOUS
<1>1. ASSUME NEW k \in Keys, NEW v \in Texts, Replace(k, v)
      PROVE  StoreInv' /\ C!Change(k)
  <2>1. Item(k) \in Items /\ Item(k).key = k
    BY <1>1, CachedItem DEF Replace
  <2>2. /\ [Item(k) EXCEPT !.value = v, !.raw = TRUE] \in Items
        /\ [Item(k) EXCEPT !.value = v, !.raw = TRUE].key = k
    BY <2>1, DataType
  <2>3. /\ db' \in [Keys -> Rows \cup {NoRow}]
        /\ columns' \in [Tables -> Selects \cup {NoColumns}]
        /\ UNCHANGED columns
    BY <1>1 DEF Replace, StoreInv, TypeOK
  <2> QED
    BY <1>1, <2>2, <2>3, InPlace DEF Replace
<1>2. ASSUME NEW k \in Keys, NEW row \in Rows \cup {Partial}, Write(k, row)
      PROVE  StoreInv' /\ C!Change(k)
  <2>1. Item(k) \in Items /\ Item(k).key = k
    BY <1>2, CachedItem DEF Write
  <2>2. /\ [Item(k) EXCEPT !.value = row, !.raw = FALSE] \in Items
        /\ [Item(k) EXCEPT !.value = row, !.raw = FALSE].key = k
    BY <2>1, DataType
  <2>3. /\ db' \in [Keys -> Rows \cup {NoRow}]
        /\ columns' \in [Tables -> Selects \cup {NoColumns}]
        /\ UNCHANGED columns
    BY <1>2 DEF Write, StoreInv, TypeOK
  <2> QED
    BY <1>2, <2>2, <2>3, InPlace DEF Write
<1>3. ASSUME NEW k \in Keys, NEW status \in Statuses, SetStatus(k, status)
      PROVE  StoreInv' /\ C!Change(k)
  <2>1. Item(k) \in Items /\ Item(k).key = k
    BY <1>3, CachedItem DEF SetStatus
  <2>2. /\ [Item(k) EXCEPT !.status = status] \in Items
        /\ [Item(k) EXCEPT !.status = status].key = k
    BY <2>1, StatusType
  <2>3. /\ db' \in [Keys -> Rows \cup {NoRow}]
        /\ columns' \in [Tables -> Selects \cup {NoColumns}]
        /\ UNCHANGED columns
    BY <1>3 DEF SetStatus, StoreInv, TypeOK
  <2> QED
    BY <1>3, <2>2, <2>3, InPlace DEF SetStatus
<1>4. ASSUME NEW k \in Keys, Hook(k)
      PROVE  StoreInv' /\ C!Change(k)
  <2>1. Item(k) \in Items /\ Item(k).key = k
    BY <1>4, CachedItem DEF Hook
  <2>2. /\ [Item(k) EXCEPT !.hooked = TRUE] \in Items
        /\ [Item(k) EXCEPT !.hooked = TRUE].key = k
    BY <2>1, DataType
  <2>3. /\ db' \in [Keys -> Rows \cup {NoRow}]
        /\ columns' \in [Tables -> Selects \cup {NoColumns}]
        /\ UNCHANGED columns
    BY <1>4 DEF Hook, StoreInv, TypeOK
  <2> QED
    BY <1>4, <2>2, <2>3, InPlace DEF Hook
<1>5. CASE UNCHANGED vars
  BY <1>5 DEF vars, StoreInv, TypeOK, SlotsMatchKeys, IsCached, Item, View
<1> QED
  BY <1>1, <1>2, <1>3, <1>4, <1>5, AddStep, QueryStep, ForgetStep DEF Next, C!Next

LEMMA StoreInvariant == Spec => []StoreInv
BY StoreInvInit, StoreInvStep, PTL DEF Spec

-----------------------------------------------------------------------------

(* The variables hold what they are declared to hold: no slot holds bytes  *)
(* that are not an item, whatever is put, queried and forgotten.           *)
THEOREM StoreTypes == Spec => []TypeOK
BY StoreInvariant, PTL DEF StoreInv

(* GroupPool::free moves the last item into the hole and forget rewrites   *)
(* the key_map_ entry of the key it belongs to: key_map_ and the slots     *)
(* stay inverse to each other, for every number of keys, tables and slots. *)
THEOREM KeysFindTheirSlots == Spec => []SlotsMatchKeys
BY StoreInvariant, PTL DEF StoreInv

(* The dense arrays implement the map of StoreInterface, for every number  *)
(* of keys, tables and slots: an operation on one key, whatever slots it   *)
(* moves, leaves the items of the other keys, and no table holds more      *)
(* than its size.                                                          *)
THEOREM StoreIsCache == Spec => ImplementsCache
<1>1. Init => C!Init
  BY DEF Init, C!Init, View, IsCached
<1>2. StoreInv /\ [Next]_vars => [C!Next]_<<View, columns>>
  BY StoreInvStep
<1> QED
  BY <1>1, <1>2, StoreInvariant, PTL DEF Spec, ImplementsCache, C!Spec

(* query takes the mark off the item whose statement it runs, so that the  *)
(* query forget starts with and the ones that wait do not run it again.    *)
THEOREM RunsOnce == Spec => StatementRunsOnce
<1> DEFINE Once == \A k \in Keys : db'[k] # db[k] =>
                     /\ IsCached(k) /\ IsStatement(Item(k))
                     /\ IsCached(k)' => ~IsStatement(Item(k)')
<1>1. StoreInv /\ [Next]_vars => Once \/ UNCHANGED vars
  <2> SUFFICES ASSUME StoreInv, Next, NEW k \in Keys, db'[k] # db[k]
               PROVE  /\ IsCached(k) /\ IsStatement(Item(k))
                      /\ IsCached(k)' => ~IsStatement(Item(k)')
    OBVIOUS
  <2>1. \E answer \in Answers : Query(k, answer) \/ Forget(k, answer)
    <3>1. db' # db
      OBVIOUS
    <3>2. PICK x \in Keys, answer \in Answers : Query(x, answer) \/ Forget(x, answer)
      BY <3>1, Zenon DEF Next, Add, Replace, Write, SetStatus, Hook
    <3>3. Runs(x, answer)
      BY <3>2, Zenon DEF Query, Forget
    <3>4. x = k
      BY <3>3 DEF Runs, StoreInv, TypeOK
    <3> QED
      BY <3>2, <3>4, Zenon
  <2>2. PICK answer \in Answers : Query(k, answer) \/ Forget(k, answer)
    BY <2>1
  <2>3. IsCached(k) /\ db'[k] = RowAfter(Item(k), db[k], answer)
    BY <2>2 DEF Query, Forget, Runs, StoreInv, TypeOK
  <2>4. IsStatement(Item(k)) /\ answer # "failed"
    BY <2>3 DEF RowAfter
  <2>5. CASE Query(k, answer)
    <3>1. TableOf[k] \in Tables /\ index[k] \in SlotNumbers(TableOf[k])
      BY <2>3, CachedItem
    <3>2. Item(k)' = ItemAfter(Item(k), db[k], answer)
      BY <2>5, <3>1 DEF Query, SetItem, Item, StoreInv, TypeOK
    <3>3. ~IsStatement(ItemAfter(Item(k), db[k], answer))
      <4>1. Item(k) \in Items
        BY <2>3, CachedItem
      <4> QED
        BY <4>1, <2>4 DEF ItemAfter, Fetches, IsStatement, Items, ItemsOf
    <3> QED
      BY <2>3, <2>4, <3>2, <3>3
  <2>6. CASE Forget(k, answer)
    <3>1. ~IsCached(k)'
      BY <2>6, <2>3 DEF Forget, IsCached, StoreInv, TypeOK
    <3> QED
      BY <2>3, <2>4, <3>1
  <2> QED
    BY <2>2, <2>5, <2>6
<1> QED
  BY <1>1, StoreInvariant, PTL DEF Spec, StatementRunsOnce
=============================================================================
