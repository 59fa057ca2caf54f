------------------------- MODULE ConnManager_proofs -------------------------
(***************************************************************************)
(* For any size of the pool, any length remove takes for the id set's and  *)
(* anything that lies before it, for managers that connect and managers    *)
(* that listen, and however often what is gone is removed again: how far   *)
(* the id set and the connections name each other, that create never gives *)
(* away the slot of a connection of a manager that connects, and what the  *)
(* pool's count is off by.                                                 *)
(***************************************************************************)
EXTENDS Listener, FiniteSetTheorems, TLAPS

(* Every place a connection names is its own. *)
Managed ==
  ~Wrapped => \A c \in Ids : slot[c].managerid # Invalid =>
    /\ slot[c].managerid < size
    /\ idset[slot[c].managerid] = c

(* The id set and the slots. *)
SlotsInv ==
  /\ slot \in [Ids -> Slots]
  /\ idset \in [Places -> Ids \cup {Invalid}]
  /\ size \in 0..MaxSize \cup {SizeWidth - 1}
  /\ Managed
  /\ Packed

(* A connection lost its place only to a removal of what was gone. *)
LostInv ==
  /\ again \in 0..MaxAgain
  /\ Cardinality(Lost) <= again
  /\ Wrapped => again > 0

RestInv ==
  /\ position \in Ids
  /\ free \in 0..(CountWidth - 1)
  /\ arrived \subseteq Ids
  /\ sending \subseteq Ids
  /\ held \in Ids \cup {Invalid}
  /\ drops \in 0..MaxDrops

(* Only accept leaves a connection in a slot that looks empty. *)
LiveIsTaken == ~listening => \A c \in Ids : Live(c) <=> ~slot[c].empty

NetInv == SlotsInv /\ LostInv /\ RestInv /\ LiveIsTaken

-----------------------------------------------------------------------------

LEMMA Sizes == MaxSize \in Nat \ {0} /\ CountWidth \in Nat /\ CountWidth > MaxSize
  BY ConnManagerAssumption

LEMMA CountsStay ==
  /\ \A n \in Int : n % MaxSize \in Ids
  /\ \A n \in Int : n % CountWidth \in 0..(CountWidth - 1)
  /\ \A c \in Ids : (c + 1) % MaxSize \in Ids
  BY ConnManagerAssumption DEF Ids

LEMMA SubsetsAreFinite ==
  ASSUME NEW S \in SUBSET Ids
  PROVE  IsFiniteSet(S) /\ Cardinality(S) \in 0..MaxSize
<1>1. IsFiniteSet(0..(MaxSize - 1)) /\ Cardinality(0..(MaxSize - 1)) = MaxSize
  BY FS_Interval, Sizes
<1>2. IsFiniteSet(S) /\ Cardinality(S) <= MaxSize
  BY <1>1, FS_Subset DEF Ids
<1> QED
  BY <1>2, FS_CardinalityType, Sizes

LEMMA CreatedIsEmpty ==
  ASSUME NEW c \in Created, position \in Ids
  PROVE  c \in Ids /\ slot[c].empty
<1>1. PICK n \in Ids : c = Around(n) /\ slot[Around(n)].empty
  BY DEF Created
<1>2. Around(n) \in Ids
  <2>1. position + n \in Int
    BY Sizes DEF Ids
  <2> QED
    BY <2>1, CountsStay DEF Around
<1> QED
  BY <1>1, <1>2

(* Fewer connections without a place, and no more removals needed. *)
LEMMA LostShrinks ==
  ASSUME LostInv, Lost' \subseteq Lost, again' \in again..MaxAgain, Wrapped' => Wrapped
  PROVE  LostInv'
<1>1. Lost \in SUBSET Ids
  BY DEF Lost
<1>2. IsFiniteSet(Lost) /\ Cardinality(Lost) \in Nat
  BY <1>1, SubsetsAreFinite
<1>3. Cardinality(Lost') <= Cardinality(Lost) /\ Cardinality(Lost') \in Nat
  BY <1>2, FS_Subset, FS_CardinalityType
<1> QED
  BY <1>2, <1>3, ConnManagerAssumption DEF LostInv

-----------------------------------------------------------------------------

(* clear: the place of the connection stays. *)
LEMMA SlotStep ==
  ASSUME SlotsInv, NEW c \in Ids, NEW e \in BOOLEAN, slot' = [slot EXCEPT ![c] = Cleared],
         UNCHANGED <<idset, size>>
  PROVE  /\ SlotsInv'
         /\ \A d \in Ids : slot'[d] = IF d = c THEN Cleared ELSE slot[d]
         /\ Lost' \subseteq Lost
<1>1. Cleared \in Slots
  BY DEF Cleared, Slots, Invalid
<1>2. \A d \in Ids : slot'[d] = IF d = c THEN Cleared ELSE slot[d]
  BY DEF SlotsInv
<1>3. slot' \in [Ids -> Slots]
  BY <1>1 DEF SlotsInv
<1>4. Cleared.managerid = Invalid /\ Cleared.disconnect
  BY DEF Cleared
<1>5. Managed'
  BY <1>2, <1>4 DEF SlotsInv, Managed, Wrapped
<1>6. Lost' \subseteq Lost
  <2> SUFFICES ASSUME NEW d \in Ids, Live(d)', slot'[d].managerid = Invalid
               PROVE  Live(d) /\ slot[d].managerid = Invalid
    BY DEF Lost
  <2>1. d # c
    BY <1>2, <1>4 DEF Live
  <2> QED
    BY <1>2, <2>1 DEF Live
<1> QED
  BY <1>2, <1>3, <1>5, <1>6 DEF SlotsInv, Packed, Wrapped

(* add: the connection gets the first place behind the others. *)
LEMMA AddStep ==
  ASSUME SlotsInv, ~Wrapped, NEW c \in Ids, NEW created \in Slots, Add(c, created)
  PROVE  /\ SlotsInv' /\ ~Wrapped'
         /\ slot' = [slot EXCEPT ![c] = [created EXCEPT !.managerid = size]]
         /\ Lost' \subseteq Lost
<1> DEFINE added == [created EXCEPT !.managerid = size]
<1>1. size \in 0..(MaxSize - 1)
  BY ConnManagerAssumption DEF SlotsInv, Wrapped, Add
<1>2. idset[size] = Invalid
  BY <1>1, ConnManagerAssumption DEF SlotsInv, Packed, Ids
<1>3. /\ slot' = [slot EXCEPT ![c] = added]
      /\ idset' = [idset EXCEPT ![size] = c]
      /\ size' = size + 1
  BY <1>2 DEF Add
<1>4. added \in Slots /\ added.managerid = size
  BY <1>1, ConnManagerAssumption DEF Slots, Ids
<1> HIDE DEF added
<1>5. \A d \in Ids : slot'[d] = IF d = c THEN added ELSE slot[d]
  BY <1>3 DEF SlotsInv
<1>6. \A k \in Places : idset'[k] = IF k = size THEN c ELSE idset[k]
  BY <1>1, <1>3 DEF SlotsInv
<1>7. slot' \in [Ids -> Slots]
  BY <1>3, <1>4 DEF SlotsInv
<1>8. idset' \in [Places -> Ids \cup {Invalid}]
  BY <1>3 DEF SlotsInv
<1>9. size' \in 0..MaxSize /\ ~Wrapped'
  BY <1>1, <1>3, ConnManagerAssumption DEF Wrapped
<1>10. Packed'
  BY <1>1, <1>3, <1>6, ConnManagerAssumption DEF SlotsInv, Packed, Places, Ids, Invalid
<1>11. Managed'
  <2> SUFFICES ASSUME NEW d \in Ids, slot'[d].managerid # Invalid
               PROVE  slot'[d].managerid < size' /\ idset'[slot'[d].managerid] = d
    BY DEF Managed
  <2>1. CASE d = c
    BY <1>1, <1>3, <1>4, <1>5, <1>6, <2>1, ConnManagerAssumption DEF Places
  <2>2. CASE d # c
    <3>1. slot'[d] = slot[d] /\ slot[d].managerid \in Ids
      BY <1>5, <1>7, <2>2 DEF Slots
    <3>2. slot[d].managerid < size /\ idset[slot[d].managerid] = d
      BY <3>1 DEF SlotsInv, Managed
    <3> QED
      BY <1>1, <1>3, <1>6, <3>1, <3>2, ConnManagerAssumption DEF Places, Ids
  <2> QED
    BY <2>1, <2>2
<1>12. Lost' \subseteq Lost
  <2> SUFFICES ASSUME NEW d \in Ids, Live(d)', slot'[d].managerid = Invalid
               PROVE  Live(d) /\ slot[d].managerid = Invalid
    BY DEF Lost
  <2>1. d # c
    BY <1>1, <1>4, <1>5 DEF Invalid
  <2> QED
    BY <1>5, <2>1 DEF Live
<1> QED
  BY <1>3, <1>7, <1>8, <1>9, <1>10, <1>11, <1>12 DEF SlotsInv, added

(* erase: the last connection of the id set moves into the gap, or before  *)
(* the id set when the one that is removed had no place.                   *)
LEMMA EraseStep ==
  ASSUME SlotsInv, ~Wrapped, NEW c \in Ids, Erase(c)
  PROVE  /\ SlotsInv'
         /\ \A d \in Ids : slot'[d].empty <=> (d = c \/ slot[d].empty)
         /\ \A d \in Ids : Live(d)' <=> (d # c /\ Live(d))
         /\ slot[c].managerid # Invalid => Lost' \subseteq Lost /\ ~Wrapped'
         /\ \E last \in Ids : Lost' \subseteq (Lost \ {c}) \cup {last}
<1> DEFINE m == slot[c].managerid
           last == idset[size - 1]
<1> USE ConnManagerAssumption DEF Ids, Invalid
<1>1. /\ size \in 0..MaxSize
      /\ m \in Ids \cup {Invalid}
      /\ last \in Ids \cup {Invalid}
      /\ slot[c] \in Slots
  BY DEF SlotsInv, Wrapped, Slots, Places
<1>2. /\ m # Invalid => m < size /\ idset[m] = c /\ size > 0
      /\ size > 0 => last # Invalid
  <2>1. m # Invalid => m \in Ids /\ m < size /\ idset[m] = c
    BY <1>1 DEF SlotsInv, Managed
  <2>2. size > 0 => last # Invalid
    BY <1>1 DEF SlotsInv, Packed
  <2> QED
    BY <1>1, <2>1, <2>2
<1>3. Cleared \in Slots /\ Cleared.empty /\ Cleared.disconnect /\ Cleared.managerid = Invalid
  BY DEF Cleared, Slots
<1>4. CASE slot' = [slot EXCEPT ![c] = Cleared] /\ UNCHANGED <<idset, size>>
  <2>1. /\ SlotsInv'
        /\ \A d \in Ids : slot'[d] = IF d = c THEN Cleared ELSE slot[d]
        /\ Lost' \subseteq Lost
    BY <1>4, SlotStep
  <2>2. \A d \in Ids : slot'[d].empty <=> (d = c \/ slot[d].empty)
    BY <1>3, <2>1
  <2>3. \A d \in Ids : Live(d)' <=> (d # c /\ Live(d))
    BY <1>3, <2>1 DEF Live
  <2>4. c \notin Lost'
    BY <2>3 DEF Lost
  <2>5. Lost' \subseteq (Lost \ {c}) \cup {c}
    BY <2>1
  <2>6. ~Wrapped'
    BY <1>4 DEF Wrapped
  <2> QED
    BY <2>1, <2>2, <2>3, <2>5, <2>6
<1>5. CASE /\ last \in Ids
           /\ slot' = [slot EXCEPT ![last].managerid = m, ![c] = Cleared]
           /\ idset' = [idset EXCEPT ![m] = last, ![size - 1] = Invalid]
           /\ size' = (size - 1) % SizeWidth
  <2> DEFINE moved == [slot[last] EXCEPT !.managerid = m]
  <2>1. /\ moved \in Slots /\ moved.managerid = m
        /\ moved.empty = slot[last].empty
        /\ moved.ready = slot[last].ready
        /\ moved.disconnect = slot[last].disconnect
    BY <1>1, <1>5 DEF SlotsInv, Slots
  <2>2. slot' = [slot EXCEPT ![last] = moved, ![c] = Cleared]
    BY <1>5
  <2> HIDE DEF moved
  <2>3. \A d \in Ids : slot'[d] = IF d = c THEN Cleared
                                  ELSE IF d = last THEN moved ELSE slot[d]
    BY <1>5, <2>2 DEF SlotsInv
  <2>4. slot' \in [Ids -> Slots]
    BY <1>3, <1>5, <2>1, <2>2 DEF SlotsInv
  <2>5. size - 1 \in Places /\ m \in Places
    BY <1>1 DEF Places
  <2> HIDE DEF m, last
  <2>6. idset' \in [Places -> Ids \cup {Invalid}]
    BY <1>5, <2>5 DEF SlotsInv
  <2>7. \A k \in Places : idset'[k] = IF k = size - 1 THEN Invalid
                                      ELSE IF k = m THEN last ELSE idset[k]
    BY <1>5, <2>5 DEF SlotsInv
  <2>8. size' = IF size = 0 THEN SizeWidth - 1 ELSE size - 1
    <3>1. size = 0 => (size - 1) % SizeWidth = SizeWidth - 1
      BY <1>1
    <3>2. size > 0 => (size - 1) % SizeWidth = size - 1
      BY <1>1
    <3> QED
      BY <1>1, <1>5, <3>1, <3>2
  <2>9. size' \in 0..MaxSize \cup {SizeWidth - 1} /\ (Wrapped' <=> size = 0)
    BY <1>1, <2>8 DEF Wrapped
  <2>10. Packed'
    <3> SUFFICES ASSUME ~Wrapped', NEW k \in Ids PROVE idset'[k] # Invalid <=> k < size'
      BY DEF Packed
    <3>1. size > 0 /\ size' = size - 1 /\ (idset[k] # Invalid <=> k < size)
      BY <1>1, <2>8, <2>9 DEF SlotsInv, Packed
    <3>2. k \in Places /\ k # -1
      BY DEF Places
    <3>3. k = m => k < size
      BY <1>2, <3>2
    <3>4. idset'[k] = IF k = size - 1 THEN Invalid ELSE IF k = m THEN last ELSE idset[k]
      BY <2>7, <3>2
    <3> QED
      BY <1>1, <1>5, <3>1, <3>3, <3>4
  <2>11. Managed'
    <3> SUFFICES ASSUME ~Wrapped', NEW d \in Ids, slot'[d].managerid # Invalid
                 PROVE  slot'[d].managerid < size' /\ idset'[slot'[d].managerid] = d
      BY DEF Managed
    <3>1. size > 0 /\ size' = size - 1 /\ d # c
      BY <1>1, <1>3, <2>3, <2>8, <2>9
    <3>2. CASE d = last
      <4>1. slot'[d].managerid = m /\ m \in Ids /\ m < size /\ idset[m] = c
        BY <1>1, <1>2, <2>1, <2>3, <3>1, <3>2
      <4>2. m # size - 1
        BY <3>1, <3>2, <4>1 DEF last
      <4> QED
        BY <1>1, <2>7, <3>1, <3>2, <4>1, <4>2 DEF Places
    <3>3. CASE d # last
      <4>1. slot'[d] = slot[d] /\ slot[d].managerid \in Ids
        BY <2>3, <2>4, <3>1, <3>3 DEF Slots
      <4>2. slot[d].managerid < size /\ idset[slot[d].managerid] = d
        BY <4>1 DEF SlotsInv, Managed
      <4>3. slot[d].managerid # size - 1
        BY <3>3, <4>2 DEF last
      <4>4. slot[d].managerid # m
        BY <1>1, <1>2, <3>1, <4>1, <4>2
      <4> QED
        BY <1>1, <2>7, <3>1, <4>1, <4>2, <4>3, <4>4 DEF Places
    <3> QED
      BY <3>2, <3>3
  <2>12. \A d \in Ids : slot'[d].empty <=> (d = c \/ slot[d].empty)
    BY <1>3, <2>1, <2>3
  <2>13. \A d \in Ids : Live(d)' <=> (d # c /\ Live(d))
    BY <1>3, <2>1, <2>3 DEF Live
  <2>14. \A d \in Ids : d # c /\ d # last => slot'[d] = slot[d]
    BY <2>3
  <2>15. Lost' \subseteq (Lost \ {c}) \cup {last}
    BY <2>13, <2>14 DEF Lost
  <2>16. ASSUME m # Invalid PROVE Lost' \subseteq Lost /\ ~Wrapped'
    <3>1. last \notin Lost'
      BY <1>3, <2>1, <2>3, <2>13, <2>16 DEF Lost
    <3> QED
      BY <1>2, <2>9, <2>15, <2>16, <3>1
  <2> QED
    BY <1>5, <2>4, <2>6, <2>9, <2>10, <2>11, <2>12, <2>13, <2>15, <2>16 DEF SlotsInv, m
<1> QED
  BY <1>1, <1>4, <1>5 DEF Erase

(* A removal of a connection that is up and without a place can cost one   *)
(* other its place; one of a connection that is not up is counted.         *)
LEMMA LostMoves ==
  ASSUME LostInv, NEW c \in Ids, slot[c].managerid = Invalid, NEW last \in Ids,
         Lost' \subseteq (Lost \ {c}) \cup {last},
         Live(c) \/ again < MaxAgain, again' = IF Live(c) THEN again ELSE again + 1
  PROVE  LostInv'
<1> DEFINE left == (Lost \ {c}) \cup {last}
<1>1. Lost \in SUBSET Ids /\ Lost \ {c} \in SUBSET Ids /\ left \in SUBSET Ids
  BY DEF Lost
<1>2. /\ IsFiniteSet(Lost) /\ Cardinality(Lost) \in Nat
      /\ IsFiniteSet(Lost \ {c}) /\ Cardinality(Lost \ {c}) \in Nat
      /\ IsFiniteSet(left) /\ Cardinality(left) \in Nat
  BY <1>1, SubsetsAreFinite, Sizes
<1>3. Cardinality(Lost \ {c}) = IF c \in Lost THEN Cardinality(Lost) - 1 ELSE Cardinality(Lost)
  BY <1>2, FS_RemoveElement
<1>4. Cardinality(left) <= Cardinality(Lost \ {c}) + 1
  <2>1. Cardinality((Lost \ {c}) \cup {last})
          = IF last \in Lost \ {c} THEN Cardinality(Lost \ {c}) ELSE Cardinality(Lost \ {c}) + 1
    BY <1>2, FS_AddElement
  <2> QED
    BY <1>2, <2>1
<1>5. Cardinality(Lost') <= Cardinality(left) /\ Cardinality(Lost') \in Nat
  BY <1>2, FS_Subset, FS_CardinalityType
<1> HIDE DEF left
<1>6. again \in 0..MaxAgain /\ MaxAgain \in Nat /\ Cardinality(Lost) <= again
  BY ConnManagerAssumption DEF LostInv
<1>7. CASE Live(c)
  <2>1. c \in Lost
    BY <1>7 DEF Lost
  <2>2. Cardinality(Lost') <= again /\ again > 0
    BY <1>2, <1>3, <1>4, <1>5, <1>6, <2>1
  <2> QED
    BY <1>6, <1>7, <2>2 DEF LostInv
<1>8. CASE ~Live(c)
  <2>1. Cardinality(Lost') <= again + 1
    BY <1>2, <1>3, <1>4, <1>5, <1>6
  <2> QED
    BY <1>6, <1>8, <2>1 DEF LostInv
<1> QED
  BY <1>7, <1>8

(* A removal, whoever asks for it and whatever became of the connection. *)
LEMMA RemoveStep ==
  ASSUME NetInv, ~Wrapped, NEW c \in Ids, RemoveConnection(c), held' \in {held, Invalid},
         UNCHANGED listening
  PROVE  NetInv'
<1>1. /\ SlotsInv'
      /\ \A d \in Ids : slot'[d].empty <=> (d = c \/ slot[d].empty)
      /\ \A d \in Ids : Live(d)' <=> (d # c /\ Live(d))
      /\ slot[c].managerid # Invalid => Lost' \subseteq Lost /\ ~Wrapped'
      /\ \E last \in Ids : Lost' \subseteq (Lost \ {c}) \cup {last}
  BY EraseStep DEF RemoveConnection, NetInv
<1>2. LostInv'
  <2>1. /\ LostInv
        /\ Live(c) \/ again < MaxAgain
        /\ again' = IF Live(c) THEN again ELSE again + 1
    BY DEF RemoveConnection, NetInv
  <2>2. CASE slot[c].managerid # Invalid
    <3>1. again' \in again..MaxAgain
      BY <2>1, ConnManagerAssumption DEF LostInv
    <3> QED
      BY <1>1, <2>1, <2>2, <3>1, LostShrinks
  <2>3. CASE slot[c].managerid = Invalid
    <3>1. PICK last \in Ids : Lost' \subseteq (Lost \ {c}) \cup {last}
      BY <1>1
    <3> QED
      BY <2>1, <2>3, <3>1, LostMoves
  <2> QED
    BY <2>2, <2>3
<1>3. RestInv'
  <2>1. free' \in 0..(CountWidth - 1)
    <3>1. free + 1 \in Int
      BY Sizes DEF NetInv, RestInv
    <3> QED
      BY <3>1, CountsStay DEF RemoveConnection
  <2>2. /\ position' = position /\ drops' = drops
        /\ arrived' \subseteq arrived /\ sending' \subseteq sending
    BY DEF RemoveConnection
  <2> QED
    BY <2>1, <2>2 DEF NetInv, RestInv
<1>4. LiveIsTaken'
  BY <1>1 DEF NetInv, LiveIsTaken
<1> QED
  BY <1>1, <1>2, <1>3, <1>4 DEF NetInv

(* A step that changes the sockets only, or goes on in the tick. *)
LEMMA SocketStep ==
  ASSUME NetInv, UNCHANGED <<tables, history, listening>>, arrived' \subseteq Ids,
         sending' \subseteq Ids, held' \in Ids \cup {Invalid}
  PROVE  NetInv'
<1>1. UNCHANGED <<slot, position, free, idset, size, drops, again>>
  BY DEF tables, history
<1>2. SlotsInv' /\ LostInv' /\ RestInv' /\ LiveIsTaken'
  BY <1>1
  DEF NetInv, SlotsInv, LostInv, RestInv, LiveIsTaken, Lost, Live, Managed, Packed, Wrapped
<1> QED
  BY <1>2 DEF NetInv

(* A step that clears one connection and leaves it in the id set. *)
LEMMA ClearStep ==
  ASSUME NetInv, NEW c \in Ids, slot' = [slot EXCEPT ![c] = Cleared], position' \in Ids,
         UNCHANGED <<free, idset, size, held, again, listening>>,
         arrived' \subseteq arrived, sending' \subseteq sending, drops' \in 0..MaxDrops
  PROVE  NetInv'
<1>1. /\ SlotsInv'
      /\ \A d \in Ids : slot'[d] = IF d = c THEN Cleared ELSE slot[d]
      /\ Lost' \subseteq Lost
  BY SlotStep DEF NetInv
<1>2. LostInv'
  <2>1. again' \in again..MaxAgain /\ (Wrapped' => Wrapped)
    BY ConnManagerAssumption DEF NetInv, LostInv, Wrapped
  <2> QED
    BY <1>1, <2>1, LostShrinks DEF NetInv
<1>3. RestInv'
  BY DEF NetInv, RestInv
<1>4. LiveIsTaken'
  BY <1>1 DEF NetInv, LiveIsTaken, Live, Cleared
<1> QED
  BY <1>1, <1>2, <1>3, <1>4 DEF NetInv

(* A connection in a slot that create found. *)
LEMMA TakenStep ==
  ASSUME NetInv, ~Wrapped, NEW c \in Created, NEW created \in Slots,
         Add(c, created), ~listening => created = Taken,
         position' = (c + 1) % MaxSize, free' = (free - 1) % CountWidth,
         UNCHANGED <<held, history, listening>>,
         arrived' \subseteq arrived, sending' \subseteq sending
  PROVE  NetInv'
<1>1. c \in Ids
  BY CreatedIsEmpty DEF NetInv, RestInv
<1>2. /\ SlotsInv' /\ ~Wrapped'
      /\ slot' = [slot EXCEPT ![c] = [created EXCEPT !.managerid = size]]
      /\ Lost' \subseteq Lost
  BY <1>1, AddStep DEF NetInv
<1>3. LostInv'
  <2>1. again' \in again..MaxAgain
    BY ConnManagerAssumption DEF NetInv, LostInv, history
  <2> QED
    BY <1>2, <2>1, LostShrinks DEF NetInv
<1>4. RestInv'
  <2>1. position' \in Ids
    BY <1>1, CountsStay
  <2>2. free - 1 \in Int
    BY Sizes DEF NetInv, RestInv
  <2>3. free' \in 0..(CountWidth - 1)
    BY <2>2, CountsStay
  <2> QED
    BY <2>1, <2>3 DEF NetInv, RestInv, history
<1>5. LiveIsTaken'
  <2> SUFFICES ASSUME ~listening, NEW d \in Ids PROVE Live(d)' <=> ~slot'[d].empty
    BY DEF LiveIsTaken
  <2>1. CASE d = c
    <3>1. slot'[d] = [Taken EXCEPT !.managerid = size]
      BY <1>2, <2>1 DEF NetInv, SlotsInv
    <3> QED
      BY <3>1 DEF Live, Taken
  <2>2. CASE d # c
    <3>1. slot'[d] = slot[d]
      BY <1>2, <2>2 DEF NetInv, SlotsInv
    <3> QED
      BY <3>1 DEF NetInv, LiveIsTaken, Live
  <2> QED
    BY <2>1, <2>2
<1> QED
  BY <1>2, <1>3, <1>4, <1>5 DEF NetInv

LEMMA TakenAreSlots == Taken \in Slots /\ [Taken EXCEPT !.empty = TRUE] \in Slots
<1>1. Taken \in Slots
  BY DEF Taken, Slots
<1>2. \A created \in Slots : [created EXCEPT !.empty = TRUE] \in Slots
  BY DEF Slots
<1> QED
  BY <1>1, <1>2

-----------------------------------------------------------------------------

LEMMA NetInvInit == NetInit => NetInv
<1> SUFFICES ASSUME NetInit PROVE NetInv
  OBVIOUS
<1>1. /\ slot = [c \in Ids |-> Unused] /\ position = 0 /\ free = MaxSize /\ size = 0
      /\ idset = [k \in Places |-> IF k = -1 THEN Before ELSE Invalid]
      /\ arrived = {} /\ sending = {} /\ held = Invalid /\ drops = 0 /\ again = 0
  BY DEF NetInit, Init
<1>2. Unused \in Slots /\ ~Unused.ready /\ Unused.empty /\ Unused.managerid = Invalid
  BY DEF Unused, Slots
<1>3. \A c \in Ids : slot[c] = Unused
  BY <1>1
<1>4. ~Wrapped
  BY <1>1, Sizes DEF Wrapped
<1>5. SlotsInv
  <2>1. slot \in [Ids -> Slots]
    BY <1>1, <1>2
  <2>2. idset \in [Places -> Ids \cup {Invalid}]
    BY <1>1, ConnManagerAssumption
  <2>3. Managed
    BY <1>2, <1>3 DEF Managed
  <2>4. Packed
    BY <1>1, Sizes DEF Packed, Places, Ids
  <2> QED
    BY <1>1, <2>1, <2>2, <2>3, <2>4, Sizes DEF SlotsInv
<1>6. LostInv
  <2>1. Lost = {}
    BY <1>2, <1>3 DEF Lost, Live
  <2>2. Cardinality({}) = 0
    BY FS_EmptySet
  <2> QED
    BY <1>1, <1>4, <2>1, <2>2, ConnManagerAssumption DEF LostInv
<1>7. RestInv
  BY <1>1, ConnManagerAssumption DEF RestInv, Ids
<1>8. LiveIsTaken
  BY <1>2, <1>3 DEF LiveIsTaken, Live
<1> QED
  BY <1>5, <1>6, <1>7, <1>8 DEF NetInv

(* What the program does by itself. *)
LEMMA ProgramStep ==
  ASSUME NetInv, ~Wrapped, UNCHANGED listening, NEW c \in Ids,
         Disconnect(c) \/ ProgramRemoves(c) \/ Send(c) \/ Arrive(c)
  PROVE  NetInv'
<1>1. CASE Disconnect(c)
  <2>1. /\ slot' = [slot EXCEPT ![c] = Cleared]
        /\ UNCHANGED <<position, free, idset, size, held, again>>
        /\ arrived' \subseteq arrived /\ sending' \subseteq sending
    BY <1>1 DEF Disconnect, ticking
  <2>2. drops' \in 0..MaxDrops
    <3>1. /\ slot[c].empty \/ drops < MaxDrops
          /\ drops' = IF slot[c].empty THEN drops ELSE drops + 1
      BY <1>1 DEF Disconnect
    <3> QED
      BY <3>1, ConnManagerAssumption DEF NetInv, RestInv
  <2>3. position' \in Ids
    BY <2>1 DEF NetInv, RestInv
  <2> QED
    BY <2>1, <2>2, <2>3, ClearStep
<1>2. CASE ProgramRemoves(c)
  BY <1>2, RemoveStep DEF ProgramRemoves, ticking
<1>3. CASE Send(c) \/ Arrive(c)
  <2>1. /\ UNCHANGED <<tables, history, held>>
        /\ arrived' \subseteq arrived \cup {c} /\ sending' \subseteq sending \cup {c}
    BY <1>3 DEF Send, Arrive, ticking
  <2> QED
    BY <2>1, SocketStep DEF NetInv, RestInv
<1> QED
  BY <1>1, <1>2, <1>3

(* The tick of any manager, but for its select and its accepts. *)
LEMMA TickStep ==
  ASSUME NetInv, ~Wrapped, UNCHANGED listening, Turn
  PROVE  NetInv'
<1>1. CASE EndPhase \/ Skip \/ Serve \/ Execute \/ Executed
  <2>1. /\ UNCHANGED <<tables, history, arrived>> /\ sending' \subseteq sending
    BY <1>1 DEF EndPhase, Skip, Serve, Execute, Executed, sockets
  <2>2. held' \in Ids \cup {Invalid}
    <3>1. CASE Execute
      BY <3>1 DEF Execute, CurrentLive
    <3>2. CASE EndPhase \/ Skip \/ Serve \/ Executed
      BY <3>2 DEF EndPhase, Skip, Serve, Executed, NetInv, RestInv
    <3> QED
      BY <1>1, <3>1, <3>2
  <2> QED
    BY <2>1, <2>2, SocketStep DEF NetInv, RestInv
<1>2. CASE Drop
  <2>1. Current \in Ids /\ RemoveConnection(Current) /\ held' = held
    BY <1>2 DEF Drop, CurrentLive
  <2> QED
    BY <2>1, RemoveStep
<1>3. CASE ExecuteFails
  <2>1. held \in Ids /\ RemoveConnection(held) /\ held' = Invalid
    BY <1>3 DEF ExecuteFails, NetInv, RestInv
  <2> QED
    BY <2>1, RemoveStep
<1> QED
  BY <1>1, <1>2, <1>3 DEF Turn

(* connect takes a slot that create found empty. *)
LEMMA ConnectStep ==
  ASSUME NetInv, ~Wrapped, UNCHANGED listening, ~listening, Connect \/ ConnectFails
  PROVE  NetInv'
<1>1. CASE Connect
  <2>1. PICK c \in Created : Add(c, Taken) /\ position' = (c + 1) % MaxSize
    BY <1>1 DEF Connect
  <2>2. /\ free' = (free - 1) % CountWidth
        /\ UNCHANGED <<held, history, arrived, sending>>
    BY <1>1 DEF Connect, ticking, sockets
  <2> QED
    BY <2>1, <2>2, TakenAreSlots, TakenStep
<1>2. CASE ConnectFails
  <2>1. PICK c \in Created : /\ slot' = [slot EXCEPT ![c] = Cleared]
                             /\ position' = (c + 1) % MaxSize
    BY <1>2 DEF ConnectFails
  <2>2. UNCHANGED <<free, idset, size, held, again, drops, arrived, sending>>
    BY <1>2 DEF ConnectFails, ticking, sockets, history
  <2>3. c \in Ids
    BY CreatedIsEmpty DEF NetInv, RestInv
  <2>4. position' \in Ids /\ drops' \in 0..MaxDrops
    BY <2>1, <2>2, <2>3, CountsStay DEF NetInv, RestInv
  <2> QED
    BY <2>1, <2>2, <2>3, <2>4, ClearStep
<1> QED
  BY <1>1, <1>2

(* accept of a manager that listens. *)
LEMMA AcceptStep ==
  ASSUME NetInv, ~Wrapped, UNCHANGED listening, listening, Accept \/ AcceptFails
  PROVE  NetInv'
<1>1. CASE Accept
  <2>1. PICK c \in Created :
          /\ Add(c, [Taken EXCEPT !.empty = TRUE])
          /\ position' = (c + 1) % MaxSize
          /\ sending' = sending \ {c}
          /\ arrived' = arrived \ {c}
    BY <1>1 DEF Accept
  <2>2. free' = (free - 1) % CountWidth /\ UNCHANGED <<held, history>>
    BY <1>1 DEF Accept
  <2>3. arrived' \subseteq arrived /\ sending' \subseteq sending
    BY <2>1
  <2> QED
    BY <2>1, <2>2, <2>3, TakenAreSlots, TakenStep
<1>2. CASE AcceptFails
  <2>1. UNCHANGED <<held, history>>
    BY <1>2 DEF AcceptFails, AcceptEnd
  <2>2. CASE UNCHANGED <<tables, sockets, backlog>>
    <3>1. arrived' \subseteq Ids /\ sending' \subseteq Ids /\ held' \in Ids \cup {Invalid}
      BY <2>1, <2>2 DEF sockets, NetInv, RestInv
    <3> QED
      BY <2>1, <2>2, <3>1, SocketStep
  <2>3. CASE \E c \in Created :
               /\ slot' = [slot EXCEPT ![c] = Cleared]
               /\ position' = (c + 1) % MaxSize
               /\ sending' = sending \ {c}
               /\ arrived' = arrived \ {c}
               /\ UNCHANGED <<free, idset, size>>
    <3>1. PICK c \in Created :
            /\ slot' = [slot EXCEPT ![c] = Cleared]
            /\ position' = (c + 1) % MaxSize
            /\ sending' = sending \ {c}
            /\ arrived' = arrived \ {c}
            /\ UNCHANGED <<free, idset, size>>
      BY <2>3
    <3>2. c \in Ids
      BY CreatedIsEmpty DEF NetInv, RestInv
    <3>3. position' \in Ids /\ drops' \in 0..MaxDrops /\ UNCHANGED again
      BY <2>1, <3>1, <3>2, CountsStay DEF NetInv, RestInv, history
    <3>4. arrived' \subseteq arrived /\ sending' \subseteq sending
      BY <3>1
    <3> QED
      BY <2>1, <3>1, <3>2, <3>3, <3>4, ClearStep
  <2> QED
    BY <1>2, <2>2, <2>3 DEF AcceptFails
<1> QED
  BY <1>1, <1>2

LEMMA ServiceStep ==
  ASSUME NetInv, UNCHANGED listening, listening, ServiceNext
  PROVE  NetInv'
<1>1. CASE ~Wrapped /\ (Client \/ ServiceSelect \/ AcceptBegin \/ AcceptDone)
  <2>1. UNCHANGED <<tables, sending, held, history>> /\ arrived' \subseteq arrived
    BY <1>1
    DEF Client, ServiceSelect, AcceptBegin, AcceptDone, AcceptEnd, vars, sockets, ticking
  <2> QED
    BY <2>1, SocketStep DEF NetInv, RestInv
<1>2. CASE ~Wrapped /\ (Accept \/ AcceptFails)
  BY <1>2, AcceptStep
<1>3. CASE ~Wrapped /\ Other
  BY <1>3, ProgramStep, TickStep DEF Other, Turn
<1>4. CASE RunsWild
  BY <1>4, SocketStep DEF RunsWild, vars, sockets, ticking, NetInv, RestInv
<1> QED
  BY <1>1, <1>2, <1>3, <1>4 DEF ServiceNext

LEMMA ConnectorStep ==
  ASSUME NetInv, UNCHANGED listening, ~listening, Next
  PROVE  NetInv'
<1>1. CASE ~Wrapped /\ (Connect \/ ConnectFails)
  BY <1>1, ConnectStep
<1>2. CASE Select
  <2>1. UNCHANGED <<tables, sending, held, history>> /\ arrived' = {}
    BY <1>2 DEF Select
  <2> QED
    BY <2>1, SocketStep DEF NetInv, RestInv
<1>3. CASE /\ ~Wrapped
           /\ Turn \/ \E c \in Ids : Disconnect(c) \/ ProgramRemoves(c) \/ Send(c) \/ Arrive(c)
  BY <1>3, ProgramStep, TickStep
<1>4. CASE RunsWild
  BY <1>4, SocketStep DEF RunsWild, vars, sockets, ticking, NetInv, RestInv
<1> QED
  BY <1>1, <1>2, <1>3, <1>4 DEF Next, Turn

(* The inductive invariant. *)
THEOREM NetInvariant == NetSpec => []NetInv
<1>1. NetInv /\ [NetNext]_netvars => NetInv'
  <2> SUFFICES ASSUME NetInv, [NetNext]_netvars PROVE NetInv'
    OBVIOUS
  <2>1. CASE NetNext
    BY <2>1, ServiceStep, ConnectorStep DEF NetNext
  <2>2. CASE UNCHANGED netvars
    BY <2>2, SocketStep DEF netvars, vars, sockets, ticking, NetInv, RestInv
  <2> QED
    BY <2>1, <2>2
<1> QED
  BY <1>1, NetInvInit, PTL DEF NetSpec

-----------------------------------------------------------------------------

(* Not more connections lose their place in the id set than there were     *)
(* removals of what was gone, and every place a connection names is its    *)
(* own.                                                                    *)
THEOREM ConnectionsAreManaged == NetSpec => []LiveAreManaged
<1>1. NetInv => LiveAreManaged
  BY DEF NetInv, SlotsInv, LostInv, Managed, LiveAreManaged
<1> QED
  BY <1>1, NetInvariant, PTL

(* The id set has no gaps. *)
THEOREM IdSetIsPacked == NetSpec => []Packed
<1>1. NetInv => Packed
  BY DEF NetInv, SlotsInv
<1> QED
  BY <1>1, NetInvariant, PTL

(* connect never takes the slot of a connection that is up, nor clears one *)
(* when it fails.                                                          *)
THEOREM ConnectTakesNoLiveSlot == NetSpec => ConnectTakesFreeSlot
<1>1. NetInv /\ [NetNext]_netvars
        => [~listening /\ (Connect \/ ConnectFails)
              => \A c \in Ids : Live(c) => slot'[c] = slot[c]]_netvars
  <2> SUFFICES ASSUME NetInv, ~listening, Connect \/ ConnectFails, NEW d \in Ids, Live(d)
               PROVE  slot'[d] = slot[d]
    OBVIOUS
  <2>1. PICK c \in Created : Add(c, Taken) \/ slot' = [slot EXCEPT ![c] = Cleared]
    BY DEF Connect, ConnectFails
  <2>2. c # d
    BY CreatedIsEmpty DEF NetInv, RestInv, LiveIsTaken
  <2> QED
    BY <2>1, <2>2 DEF Add, NetInv, SlotsInv
<1> QED
  BY <1>1, NetInvariant, PTL DEF NetSpec, ConnectTakesFreeSlot

-----------------------------------------------------------------------------

Empties == {c \in Ids : slot[c].empty}

LEMMA EmptiesAreCounted ==
  /\ Cardinality(Empties) \in 0..MaxSize
  /\ \A c \in Ids :
       /\ Cardinality(Empties \cup {c}) =
            IF slot[c].empty THEN Cardinality(Empties) ELSE Cardinality(Empties) + 1
       /\ Cardinality(Empties \ {c}) =
            IF slot[c].empty THEN Cardinality(Empties) - 1 ELSE Cardinality(Empties)
<1>1. Empties \in SUBSET Ids
  BY DEF Empties
<1>2. IsFiniteSet(Empties) /\ Cardinality(Empties) \in 0..MaxSize
  BY <1>1, SubsetsAreFinite
<1> QED
  BY <1>2, FS_AddElement, FS_RemoveElement DEF Empties

(* Counting goes round with the width of the count. *)
LEMMA RemainderIsUnique ==
  ASSUME NEW q \in Int, NEW r \in 0..(CountWidth - 1)
  PROVE  (q * CountWidth + r) % CountWidth = r
<1>1. CountWidth \in Nat \ {0}
  BY Sizes
<1> QED
  BY <1>1, SMTT(30)

LEMMA CountGoesRound ==
  ASSUME NEW n \in Int
  PROVE  /\ ((n % CountWidth) + 1) % CountWidth = (n + 1) % CountWidth
         /\ ((n % CountWidth) - 1) % CountWidth = (n - 1) % CountWidth
<1> DEFINE q == n \div CountWidth
           r == n % CountWidth
<1>1. CountWidth \in Nat \ {0}
  BY Sizes
<1>2. n = CountWidth * q + r /\ q \in Int
  BY <1>1, SMTT(30)
<1>3. r \in 0..(CountWidth - 1)
  BY <1>1
<1> HIDE DEF q, r
<1>4. n = q * CountWidth + r
  BY <1>1, <1>2, <1>3
<1>5. (r + 1) % CountWidth = (q * CountWidth + (r + 1)) % CountWidth
  <2>1. CASE r + 1 < CountWidth
    <3>1. r + 1 \in 0..(CountWidth - 1)
      BY <1>1, <1>3, <2>1
    <3>2. (q * CountWidth + (r + 1)) % CountWidth = (r + 1)
      BY <1>2, <3>1, RemainderIsUnique
    <3> QED
      BY <1>1, <3>1, <3>2
  <2>2. CASE r + 1 = CountWidth
    <3>1. q * CountWidth + CountWidth = (q + 1) * CountWidth + 0
      BY <1>1, <1>2
    <3>2. 0 \in 0..(CountWidth - 1) /\ q + 1 \in Int
      BY <1>1, <1>2
    <3>3. (q * CountWidth + CountWidth) % CountWidth = 0
      BY <3>1, <3>2, RemainderIsUnique
    <3>4. CountWidth % CountWidth = 0
      BY <1>1
    <3> QED
      BY <2>2, <3>3, <3>4
  <2> QED
    BY <1>1, <1>3, <2>1, <2>2
<1>6. (r - 1) % CountWidth = (q * CountWidth + (r - 1)) % CountWidth
  <2>1. CASE r > 0
    <3>1. r - 1 \in 0..(CountWidth - 1)
      BY <1>1, <1>3, <2>1
    <3>2. (q * CountWidth + (r - 1)) % CountWidth = (r - 1)
      BY <1>2, <3>1, RemainderIsUnique
    <3> QED
      BY <1>1, <3>1, <3>2
  <2>2. CASE r = 0
    <3>1. q * CountWidth + (0 - 1) = (q - 1) * CountWidth + (CountWidth - 1)
      BY <1>1, <1>2
    <3>2. 0 - 1 = (0 - 1) * CountWidth + (CountWidth - 1)
      BY <1>1
    <3>3. CountWidth - 1 \in 0..(CountWidth - 1) /\ q - 1 \in Int /\ 0 - 1 \in Int
      BY <1>1, <1>2
    <3>4. (q * CountWidth + (0 - 1)) % CountWidth = CountWidth - 1
      BY <3>1, <3>3, RemainderIsUnique
    <3>5. (0 - 1) % CountWidth = CountWidth - 1
      BY <3>2, <3>3, RemainderIsUnique
    <3> QED
      BY <2>2, <3>4, <3>5
  <2> QED
    BY <1>1, <1>3, <2>1, <2>2
<1>7. n + 1 = q * CountWidth + (r + 1) /\ n - 1 = q * CountWidth + (r - 1)
  BY <1>1, <1>2, <1>3, <1>4
<1> QED
  BY <1>5, <1>6, <1>7 DEF r

(* What the pool's count is off by. *)
Counted == Cardinality(Empties) - drops + again

(* A removed connection gives its slot back, also one that was given back. *)
LEMMA RemoveCounts ==
  ASSUME NetInv, FreeIsCounted, ~Wrapped, ~listening, NEW c \in Ids, RemoveConnection(c)
  PROVE  FreeIsCounted'
<1>1. \A d \in Ids : slot'[d].empty <=> (d = c \/ slot[d].empty)
  BY EraseStep DEF RemoveConnection, NetInv
<1>2. Empties' = Empties \cup {c}
  BY <1>1, Zenon DEF Empties
<1>3. slot[c].empty <=> ~Live(c)
  BY DEF NetInv, LiveIsTaken, SlotsInv, Slots
<1>4. /\ free = Counted % CountWidth
      /\ free' = (free + 1) % CountWidth
      /\ again' = IF Live(c) THEN again ELSE again + 1
      /\ drops' = drops
  BY DEF RemoveConnection, FreeIsCounted, Counted, Empties
<1>5. Cardinality(Empties) \in Int /\ drops \in Int /\ again \in Int
  BY EmptiesAreCounted, ConnManagerAssumption DEF NetInv, RestInv, LostInv
<1>6. Counted' = Counted + 1 /\ Counted \in Int
  <2>1. CASE Live(c)
    <3>1. Cardinality(Empties') = Cardinality(Empties) + 1
      BY <1>2, <1>3, <2>1, EmptiesAreCounted
    <3> QED
      BY <1>4, <1>5, <2>1, <3>1 DEF Counted
  <2>2. CASE ~Live(c)
    <3>1. Cardinality(Empties') = Cardinality(Empties)
      BY <1>2, <1>3, <2>2, EmptiesAreCounted
    <3> QED
      BY <1>4, <1>5, <2>2, <3>1 DEF Counted
  <2> QED
    BY <2>1, <2>2
<1>7. free' = Counted' % CountWidth
  BY <1>4, <1>6, CountGoesRound
<1> QED
  BY <1>7 DEF FreeIsCounted, Counted, Empties

(* connect takes a slot, and gives it back when it fails. *)
LEMMA ConnectCounts ==
  ASSUME NetInv, FreeIsCounted, ~Wrapped, ~listening, Connect \/ ConnectFails
  PROVE  FreeIsCounted'
<1>1. CASE Connect
  <2>1. PICK c \in Created : Add(c, Taken)
    BY <1>1 DEF Connect
  <2>2. c \in Ids /\ slot[c].empty
    BY CreatedIsEmpty DEF NetInv, RestInv
  <2>3. slot' = [slot EXCEPT ![c] = [Taken EXCEPT !.managerid = size]]
    BY <2>1, <2>2, AddStep, TakenAreSlots DEF NetInv
  <2>4. \A d \in Ids : slot'[d].empty <=> (d # c /\ slot[d].empty)
    BY <2>2, <2>3 DEF NetInv, SlotsInv, Taken
  <2>5. Empties' = Empties \ {c}
    BY <2>4, Zenon DEF Empties
  <2>6. Cardinality(Empties') = Cardinality(Empties) - 1
    BY <2>2, <2>5, EmptiesAreCounted
  <2>7. Cardinality(Empties) \in Int /\ drops \in Int /\ again \in Int
    BY EmptiesAreCounted, ConnManagerAssumption DEF NetInv, RestInv, LostInv
  <2>8. /\ free = Counted % CountWidth
        /\ free' = (free - 1) % CountWidth
        /\ UNCHANGED <<drops, again>>
    BY <1>1 DEF Connect, FreeIsCounted, Counted, Empties, history
  <2>9. Counted' = Counted - 1 /\ Counted \in Int
    BY <2>6, <2>7, <2>8 DEF Counted
  <2>10. free' = Counted' % CountWidth
    BY <2>8, <2>9, CountGoesRound
  <2> QED
    BY <2>10 DEF FreeIsCounted, Counted, Empties
<1>2. CASE ConnectFails
  <2>1. PICK c \in Created : slot' = [slot EXCEPT ![c] = Cleared]
    BY <1>2 DEF ConnectFails
  <2>2. c \in Ids /\ slot[c].empty
    BY CreatedIsEmpty DEF NetInv, RestInv
  <2>3. \A d \in Ids : slot'[d].empty = slot[d].empty
    BY <2>1, <2>2 DEF NetInv, SlotsInv, Slots, Cleared
  <2>4. Empties' = Empties
    BY <2>3, Zenon DEF Empties
  <2> QED
    BY <1>2, <2>4 DEF ConnectFails, FreeIsCounted, Empties, history
<1> QED
  BY <1>1, <1>2

(* A disconnect of a connection in use is counted in drops. *)
LEMMA DisconnectCounts ==
  ASSUME NetInv, FreeIsCounted, NEW c \in Ids, Disconnect(c)
  PROVE  FreeIsCounted'
<1>1. \A d \in Ids : slot'[d].empty <=> (d = c \/ slot[d].empty)
  BY DEF Disconnect, NetInv, SlotsInv, Cleared
<1>2. Empties' = Empties \cup {c}
  BY <1>1, Zenon DEF Empties
<1>3. drops' = (IF slot[c].empty THEN drops ELSE drops + 1) /\ UNCHANGED <<free, again>>
  BY DEF Disconnect
<1>4. Cardinality(Empties) \in Int /\ drops \in Int /\ again \in Int
  BY EmptiesAreCounted, ConnManagerAssumption DEF NetInv, RestInv, LostInv
<1>5. Cardinality(Empties')
        = IF slot[c].empty THEN Cardinality(Empties) ELSE Cardinality(Empties) + 1
  BY <1>2, EmptiesAreCounted
<1>6. Counted' = Counted
  <2>1. CASE slot[c].empty
    BY <1>3, <1>5, <2>1 DEF Counted
  <2>2. CASE ~slot[c].empty
    BY <1>3, <1>4, <1>5, <2>2 DEF Counted
  <2> QED
    BY <2>1, <2>2
<1> QED
  BY <1>3, <1>6 DEF FreeIsCounted, Counted, Empties

(* The pool of a manager that connects counts its slots, but for those that *)
(* disconnect leaves, counted neither free nor taken, and those that are    *)
(* removed again, counted twice.                                            *)
THEOREM FreeSlotsAreCounted == NetSpec => []ConnectorFreeIsCounted
<1>1. NetInit => ConnectorFreeIsCounted
  <2> SUFFICES ASSUME NetInit PROVE FreeIsCounted
    BY DEF ConnectorFreeIsCounted
  <2>1. Empties = Ids
    BY DEF NetInit, Init, Unused, Empties
  <2>2. Cardinality(0..(MaxSize - 1)) = MaxSize
    BY FS_Interval, Sizes
  <2>3. free = MaxSize /\ drops = 0 /\ again = 0
    BY DEF NetInit, Init
  <2>4. MaxSize = (MaxSize - 0 + 0) % CountWidth
    BY Sizes
  <2> QED
    BY <2>1, <2>2, <2>3, <2>4 DEF FreeIsCounted, Empties, Ids
<1>2. NetInv /\ ConnectorFreeIsCounted /\ [NetNext]_netvars => ConnectorFreeIsCounted'
  <2> SUFFICES ASSUME NetInv, FreeIsCounted, ~listening, [NetNext]_netvars
               PROVE  FreeIsCounted'
    BY DEF ConnectorFreeIsCounted, NetNext, netvars
  <2>1. CASE ~Wrapped /\ (Connect \/ ConnectFails)
    BY <2>1, ConnectCounts
  <2>2. ASSUME NEW c \in Ids, Disconnect(c) PROVE FreeIsCounted'
    BY <2>2, DisconnectCounts
  <2>3. ASSUME ~Wrapped, NEW c \in Ids, ProgramRemoves(c) PROVE FreeIsCounted'
    BY <2>3, RemoveCounts DEF ProgramRemoves
  <2>4. ASSUME NEW c \in Ids, Send(c) \/ Arrive(c) PROVE FreeIsCounted'
    BY <2>4 DEF Send, Arrive, FreeIsCounted, tables, history
  <2>5. CASE Select \/ EndPhase \/ Skip \/ Serve \/ Execute \/ Executed
    BY <2>5
    DEF Select, EndPhase, Skip, Serve, Execute, Executed, FreeIsCounted, tables, history
  <2>6. CASE ~Wrapped /\ Drop
    BY <2>6, RemoveCounts DEF Drop, CurrentLive
  <2>7. CASE ~Wrapped /\ ExecuteFails
    <3>1. held \in Ids /\ RemoveConnection(held)
      BY <2>7 DEF ExecuteFails, NetInv, RestInv
    <3> QED
      BY <2>7, <3>1, RemoveCounts
  <2>8. CASE UNCHANGED netvars \/ RunsWild
    BY <2>8 DEF RunsWild, netvars, vars, tables, history, FreeIsCounted
  <2> QED
    BY <2>1, <2>2, <2>3, <2>4, <2>5, <2>6, <2>7, <2>8 DEF NetNext, Next
<1> QED
  BY <1>1, <1>2, NetInvariant, PTL DEF NetSpec

-----------------------------------------------------------------------------

(* The part of the tick that is under way.  Only a manager that listens    *)
(* accepts.                                                                *)
Phases == {"idle", "input", "output", "command", "heartbeat"}

CycleInv ==
  /\ phase \in Phases \cup {"accept"}
  /\ ~listening => phase # "accept"
  /\ index \in Nat
  /\ upto \in 0..(MaxSize + 1)
  /\ events \in Seq(Ids \cup {ListenerSocket})
  /\ listening \in BOOLEAN
  /\ backlog \in 0..MaxBacklog

LEMMA EventsAreListed ==
  ASSUME NEW S \in SUBSET (Ids \cup {ListenerSocket}), NEW s \in SetToSeqs(S)
  PROVE  s \in Seq(Ids \cup {ListenerSocket}) /\ Len(s) \in 0..(MaxSize + 1)
<1>1. IsFiniteSet(-2..(MaxSize - 1)) /\ Cardinality(-2..(MaxSize - 1)) = MaxSize + 2
  BY FS_Interval, Sizes
<1>2. S \in SUBSET (-2..(MaxSize - 1)) /\ -1 \notin S /\ -1 \in -2..(MaxSize - 1)
  BY Sizes DEF Ids, ListenerSocket
<1>3. IsFiniteSet(S) /\ Cardinality(S) <= MaxSize + 2 /\ Cardinality(S) # MaxSize + 2
  BY <1>1, <1>2, FS_Subset
<1>4. Cardinality(S) \in 0..(MaxSize + 1)
  BY <1>3, FS_CardinalityType, Sizes
<1>5. s \in [1..Cardinality(S) -> S]
  BY DEF SetToSeqs
<1> QED
  BY <1>4, <1>5

(* A step that leaves the listener alone. *)
LEMMA CycleStep ==
  ASSUME NetInv, ~Wrapped, CycleInv, phase # "accept", UNCHANGED <<listening, backlog>>,
         \/ Connect \/ ConnectFails \/ Select \/ Turn
         \/ \E c \in Ids : Disconnect(c) \/ ProgramRemoves(c) \/ Send(c) \/ Arrive(c)
  PROVE  CycleInv'
<1>1. CASE Select
  <2>1. PICK s \in SetToSeqs(arrived) : events' = s /\ upto' = Len(s)
    BY <1>1 DEF Select
  <2>2. arrived \in SUBSET (Ids \cup {ListenerSocket})
    BY DEF NetInv, RestInv
  <2> QED
    BY <1>1, <2>1, <2>2, EventsAreListed DEF Select, CycleInv, Phases
<1>2. CASE EndPhase
  <2>1. phase' \in Phases
    BY <1>2 DEF EndPhase, NextPhase, CycleInv, Phases
  <2>2. upto' \in 0..(MaxSize + 1)
    <3>1. size \in 0..MaxSize
      BY ConnManagerAssumption DEF Wrapped, NetInv, SlotsInv
    <3> QED
      BY <1>2, <3>1, Sizes DEF EndPhase
  <2> QED
    BY <1>2, <2>1, <2>2 DEF EndPhase, CycleInv, Phases
<1>3. CASE Skip \/ Serve \/ Drop \/ Executed \/ ExecuteFails
  BY <1>3 DEF Skip, Serve, Drop, Executed, ExecuteFails, GoesOn, CycleInv
<1>4. CASE UNCHANGED loop
  BY <1>4 DEF loop, CycleInv
<1> QED
  BY <1>1, <1>2, <1>3, <1>4
  DEF Turn, Execute, Connect, ConnectFails, Disconnect, ProgramRemoves, Send, Arrive, ticking

(* Every variable of the manager keeps its type, whatever the program, the *)
(* clients and the sockets do.                                             *)
THEOREM NetVariablesKeepTheirTypes == NetSpec => []NetTypeOK
<1>1. NetInit => CycleInv
  BY Sizes, ListenerAssumption DEF NetInit, Init, CycleInv, Phases
<1>2. NetInv /\ CycleInv /\ [NetNext]_netvars => CycleInv'
  <2> SUFFICES ASSUME NetInv, CycleInv, [NetNext]_netvars PROVE CycleInv'
    OBVIOUS
  <2>1. CASE ~listening /\ NetNext
    BY <2>1, CycleStep DEF NetNext, Next, Turn, CycleInv, RunsWild, vars, ticking, loop
  <2>2. CASE listening /\ NetNext
    <3> USE <2>2, ListenerAssumption
    <3>1. UNCHANGED listening /\ ServiceNext
      BY DEF NetNext
    <3>2. CASE Client
      BY <3>1, <3>2 DEF Client, vars, ticking, loop, CycleInv
    <3>3. CASE ServiceSelect
      <4> DEFINE S == arrived \cup (IF backlog > 0 THEN {ListenerSocket} ELSE {})
      <4>1. PICK s \in SetToSeqs(S) : events' = s /\ upto' = Len(s)
        BY <3>3 DEF ServiceSelect
      <4>2. S \in SUBSET (Ids \cup {ListenerSocket})
        BY DEF NetInv, RestInv
      <4> HIDE DEF S
      <4> QED
        BY <3>1, <3>3, <4>1, <4>2, EventsAreListed DEF ServiceSelect, CycleInv, Phases
    <3>4. CASE AcceptBegin \/ Accept \/ AcceptFails \/ AcceptDone
      BY <3>1, <3>4 DEF AcceptBegin, Accept, AcceptFails, AcceptDone, AcceptEnd, CycleInv, Phases
    <3>5. CASE ~Wrapped /\ Other
      BY <3>1, <3>5, CycleStep DEF Other, Turn
    <3>6. CASE RunsWild /\ UNCHANGED backlog
      BY <3>1, <3>6 DEF RunsWild, vars, ticking, loop, CycleInv
    <3> QED
      BY <3>1, <3>2, <3>3, <3>4, <3>5, <3>6 DEF ServiceNext
  <2>3. CASE UNCHANGED netvars
    BY <2>3 DEF netvars, vars, ticking, loop, CycleInv
  <2> QED
    BY <2>1, <2>2, <2>3 DEF CycleInv
<1>3. NetInv /\ CycleInv => NetTypeOK
  BY DEF NetInv, SlotsInv, LostInv, RestInv, CycleInv, NetTypeOK, TablesOK, Phases
<1> QED
  BY <1>1, <1>2, <1>3, NetInvariant, PTL DEF NetSpec
=============================================================================
