-------------------------- MODULE ShareMap_proofs --------------------------
(***************************************************************************)
(* Proofs about ShareMap: for any keys, hash and size of the pool, the     *)
(* chains stay whole over every move of a node, and with them getref finds *)
(* each key, so that the map is the dictionary its callers take it for.    *)
(***************************************************************************)
EXTENDS ShareMap, FiniteSetTheorems, NaturalsInduction, WellFoundedInduction, TLAPS

NodeType == [key : Keys \cup {Empty}, value : Values \cup {Empty},
             prev : Links, next : Links]

(* ChainsAgree of nodes n, buckets b and used nodes U, of which r is an    *)
(* order: along a chain it rises.                                          *)
BucketsFit(n, b, U) ==
  \A c \in Nodes : b[c] # None =>
    b[c] \in U /\ n[b[c]].prev = None /\ Hash[n[b[c]].key] = c

LinkedBack(n, b, U, r) ==
  \A i \in U :
    /\ n[i].prev = None => b[Hash[n[i].key]] = i
    /\ n[i].prev # None =>
         n[i].prev \in U /\ n[n[i].prev].next = i /\ r[n[i].prev] < r[i]

LinkedOn(n, U) ==
  \A i \in U : n[i].next # None =>
    /\ n[i].next \in U
    /\ n[n[i].next].prev = i
    /\ Hash[n[n[i].next].key] = Hash[n[i].key]

KeysDiffer(n, U) ==
  /\ \A i \in U : n[i].key \in Keys
  /\ \A i, j \in U : n[i].key = n[j].key => i = j

Chained(n, b, U, r) ==
  BucketsFit(n, b, U) /\ LinkedBack(n, b, U, r) /\ LinkedOn(n, U) /\ KeysDiffer(n, U)

MapInv ==
  /\ TypeOK
  /\ \E r \in [Nodes -> Nat] : Chained(node, bucket, Used, r)

-----------------------------------------------------------------------------
(* The steps of the map.                                                   *)

LEMMA Numbers ==
  /\ Size \in Nat \ {0}
  /\ None \notin Nodes
  /\ Nodes \subseteq Links
  /\ None \in Links
  /\ \A k \in Keys : Hash[k] \in Nodes
  BY ShareMapAssumption DEF Nodes, Links, None

(* What Relinked changes: m is n with the neighbours of x linked anew. *)
IsRelinked(m, n, x, y, z) ==
  /\ m \in [Nodes -> NodeType]
  /\ \A j \in Nodes :
       /\ m[j].key = n[j].key /\ m[j].value = n[j].value
       /\ m[j].next = IF j = x.prev THEN z ELSE n[j].next
       /\ m[j].prev = IF j = x.next THEN y ELSE n[j].prev

LEMMA RelinkedParts ==
  ASSUME NEW n \in [Nodes -> NodeType], NEW x \in NodeType, NEW y \in Links, NEW z \in Links
  PROVE  IsRelinked(Relinked(n, x, y, z), n, x, y, z)
  BY DEF IsRelinked, Relinked, NodeType

(* The node that has been moved leaves a place without links. *)
IsCut(m, n, l) ==
  /\ m \in [Nodes -> NodeType]
  /\ \A j \in Nodes :
       /\ m[j].key = n[j].key /\ m[j].value = n[j].value
       /\ j # l => m[j].next = n[j].next /\ m[j].prev = n[j].prev

LEMMA EndsCut ==
  ASSUME NEW n \in [Nodes -> NodeType], NEW l \in Nodes
  PROVE  IsCut([n EXCEPT ![l].prev = None, ![l].next = None], n, l)
<1> DEFINE m == [n EXCEPT ![l].prev = None, ![l].next = None]
<1>1. m = [n EXCEPT ![l] = [[n[l] EXCEPT !.prev = None] EXCEPT !.next = None]]
  OBVIOUS
<1>2. PICK x \in NodeType : x = n[l]
  OBVIOUS
<1>3. None \in Links
  BY Numbers
<1>4. [x EXCEPT !.prev = None] \in NodeType /\ [x EXCEPT !.prev = None].key = x.key
      /\ [x EXCEPT !.prev = None].value = x.value
  BY <1>3 DEF NodeType
<1>5. PICK y \in NodeType : y = [x EXCEPT !.prev = None] /\ y.key = x.key /\ y.value = x.value
  BY <1>4
<1>6. [y EXCEPT !.next = None] \in NodeType /\ [y EXCEPT !.next = None].key = y.key
      /\ [y EXCEPT !.next = None].value = y.value
  BY <1>3 DEF NodeType
<1>7. PICK z \in NodeType : z = [y EXCEPT !.next = None] /\ z.key = n[l].key /\ z.value = n[l].value
  BY <1>2, <1>5, <1>6
<1>8. m = [n EXCEPT ![l] = z]
  BY <1>1, <1>2, <1>5, <1>7
<1> HIDE DEF m
<1>9. IsCut(m, n, l)
  BY <1>7, <1>8 DEF IsCut
<1> QED
  BY <1>9 DEF m

(* What a move changes: node i of m is node l of n. *)
IsMoved(m, n, i, l) ==
  /\ m \in [Nodes -> NodeType]
  /\ \A j \in Nodes \ {l} :
       /\ m[j].key = IF j = i THEN n[l].key ELSE n[j].key
       /\ m[j].value = IF j = i THEN n[l].value ELSE n[j].value
       /\ m[j].next = IF j = n[l].prev THEN i ELSE IF j = i THEN n[l].next ELSE n[j].next
       /\ m[j].prev = IF j = n[l].next THEN i ELSE IF j = i THEN n[l].prev ELSE n[j].prev

LEMMA MovedParts ==
  ASSUME NEW n \in [Nodes -> NodeType], NEW i \in Nodes, NEW l \in Nodes,
         NEW m, m = [Relinked([n EXCEPT ![i] = n[l]], n[l], i, i)
                       EXCEPT ![l].prev = None, ![l].next = None]
  PROVE  IsMoved(m, n, i, l)
<1>1. PICK x \in NodeType : x = n[l]
  OBVIOUS
<1>2. PICK p \in [Nodes -> NodeType] : p = [n EXCEPT ![i] = x]
  OBVIOUS
<1>3. PICK q : q = Relinked(p, x, i, i)
  OBVIOUS
<1>4. i \in Links
  BY Numbers
<1>5. IsRelinked(q, p, x, i, i)
  BY <1>3, <1>4, RelinkedParts, Zenon
<1>6. m = [q EXCEPT ![l].prev = None, ![l].next = None]
  BY <1>1, <1>2, <1>3
<1>7. IsCut(m, q, l)
  <2>1. q \in [Nodes -> NodeType]
    BY <1>5 DEF IsRelinked
  <2> QED
    BY <1>6, <2>1, EndsCut
<1>8. \A j \in Nodes : p[j] = IF j = i THEN x ELSE n[j]
  BY <1>2
<1>9. m \in [Nodes -> NodeType]
  BY <1>7 DEF IsCut
<1>10. ASSUME NEW j \in Nodes \ {l}
       PROVE  /\ m[j].key = p[j].key /\ m[j].value = p[j].value
              /\ m[j].next = IF j = x.prev THEN i ELSE p[j].next
              /\ m[j].prev = IF j = x.next THEN i ELSE p[j].prev
  <2>1. /\ m[j].key = q[j].key /\ m[j].value = q[j].value
        /\ m[j].next = q[j].next /\ m[j].prev = q[j].prev
    BY <1>7 DEF IsCut
  <2>2. /\ q[j].key = p[j].key /\ q[j].value = p[j].value
        /\ q[j].next = IF j = x.prev THEN i ELSE p[j].next
        /\ q[j].prev = IF j = x.next THEN i ELSE p[j].prev
    BY <1>5 DEF IsRelinked
  <2> QED
    BY <2>1, <2>2
<1>11. ASSUME NEW j \in Nodes \ {l}
       PROVE  /\ m[j].key = IF j = i THEN x.key ELSE n[j].key
              /\ m[j].value = IF j = i THEN x.value ELSE n[j].value
              /\ m[j].next = IF j = x.prev THEN i ELSE IF j = i THEN x.next ELSE n[j].next
              /\ m[j].prev = IF j = x.next THEN i ELSE IF j = i THEN x.prev ELSE n[j].prev
  <2>1. CASE j = i
    <3>1. p[j] = x
      BY <1>8, <2>1
    <3>2. /\ m[j].key = x.key /\ m[j].value = x.value
          /\ m[j].next = IF j = x.prev THEN i ELSE x.next
          /\ m[j].prev = IF j = x.next THEN i ELSE x.prev
      BY <1>10, <3>1, ZenonT(40)
    <3> QED
      BY <2>1, <3>2
  <2>2. CASE j # i
    <3>1. p[j] = n[j]
      BY <1>8, <2>2
    <3>2. /\ m[j].key = n[j].key /\ m[j].value = n[j].value
          /\ m[j].next = IF j = x.prev THEN i ELSE n[j].next
          /\ m[j].prev = IF j = x.next THEN i ELSE n[j].prev
      BY <1>10, <3>1, ZenonT(40)
    <3> QED
      BY <2>2, <3>2
  <2> QED
    BY <2>1, <2>2
<1> QED
  BY <1>1, <1>9, <1>11 DEF IsMoved

(* A node that goes out of its chain leaves the others linked.             *)
LEMMA UnlinkedChained ==
  ASSUME NEW n \in [Nodes -> NodeType], NEW b \in [Nodes -> Links],
         NEW U \in SUBSET Nodes, NEW r \in [Nodes -> Nat], Chained(n, b, U, r),
         NEW i \in U
  PROVE  LET n1 == Relinked(n, n[i], n[i].prev, n[i].next)
             b1 == Redirected(b, n[i].key, i, n[i].next)
         IN  /\ n1 \in [Nodes -> NodeType]
             /\ \A j \in Nodes : n1[j].key = n[j].key /\ n1[j].value = n[j].value
             /\ b1 \in [Nodes -> Links]
             /\ Chained(n1, b1, U \ {i}, r)
<1> DEFINE n1 == Relinked(n, n[i], n[i].prev, n[i].next)
           b1 == Redirected(b, n[i].key, i, n[i].next)
           h == Hash[n[i].key]
<1>1. /\ i \in Nodes /\ n[i].prev \in Links /\ n[i].next \in Links
      /\ n[i].key \in Keys /\ h \in Nodes
  BY Numbers DEF NodeType, Chained, KeysDiffer
<1>2. n1 \in [Nodes -> NodeType]
      /\ \A j \in Nodes :
           /\ n1[j].key = n[j].key
           /\ n1[j].value = n[j].value
           /\ n1[j].next = IF j = n[i].prev THEN n[i].next ELSE n[j].next
           /\ n1[j].prev = IF j = n[i].next THEN n[i].prev ELSE n[j].prev
  <2>1. IsRelinked(n1, n, n[i], n[i].prev, n[i].next)
    BY <1>1, RelinkedParts
  <2> QED
    BY <2>1 DEF IsRelinked
<1>3. b1 \in [Nodes -> Links]
      /\ \A c \in Nodes : b1[c] = IF c = h /\ b[c] = i THEN n[i].next ELSE b[c]
  BY <1>1 DEF Redirected
<1> HIDE DEF n1, b1
<1>4. BucketsFit(n1, b1, U \ {i})
  BY <1>1, <1>2, <1>3, Numbers DEF Chained, BucketsFit, LinkedBack, LinkedOn, KeysDiffer
<1>5. LinkedBack(n1, b1, U \ {i}, r)
  BY <1>1, <1>2, <1>3, Numbers DEF Chained, BucketsFit, LinkedBack, LinkedOn, KeysDiffer
<1>6. LinkedOn(n1, U \ {i})
  BY <1>1, <1>2, <1>3, Numbers DEF Chained, BucketsFit, LinkedBack, LinkedOn, KeysDiffer
<1>7. KeysDiffer(n1, U \ {i})
  BY <1>1, <1>2, <1>3, Numbers DEF Chained, BucketsFit, LinkedBack, LinkedOn, KeysDiffer
<1> QED
  BY <1>2, <1>3, <1>4, <1>5, <1>6, <1>7 DEF Chained, n1, b1

MovedNodes(n, i, l) ==
  [Relinked([n EXCEPT ![i] = n[l]], n[l], i, i) EXCEPT ![l].prev = None, ![l].next = None]

(* A node that takes a free place in the pool keeps its place in its chain.*)
LEMMA MovedChained ==
  ASSUME NEW n \in [Nodes -> NodeType], NEW b \in [Nodes -> Links],
         NEW U \in SUBSET Nodes, NEW r \in [Nodes -> Nat], Chained(n, b, U, r),
         NEW i \in Nodes, i \notin U, NEW l \in U
  PROVE  LET n1 == MovedNodes(n, i, l)
             b1 == Redirected(b, n[l].key, l, i)
         IN  /\ IsMoved(n1, n, i, l)
             /\ b1 \in [Nodes -> Links]
             /\ Chained(n1, b1, (U \ {l}) \cup {i}, [r EXCEPT ![i] = r[l]])
<1> DEFINE n1 == MovedNodes(n, i, l)
           b1 == Redirected(b, n[l].key, l, i)
           h == Hash[n[l].key]
           r1 == [r EXCEPT ![i] = r[l]]
           U1 == (U \ {l}) \cup {i}
<1>1. /\ l \in Nodes /\ l # i /\ n[l].prev \in Links /\ n[l].next \in Links
      /\ n[l].key \in Keys /\ h \in Nodes
  BY Numbers DEF NodeType, Chained, KeysDiffer
<1>2. IsMoved(n1, n, i, l)
  <2>1. n1 = [Relinked([n EXCEPT ![i] = n[l]], n[l], i, i)
                EXCEPT ![l].prev = None, ![l].next = None]
    BY DEF MovedNodes
  <2> HIDE DEF n1
  <2> QED
    BY <1>1, <2>1, MovedParts, Zenon
<1>3. b1 \in [Nodes -> Links]
      /\ \A c \in Nodes : b1[c] = IF c = h /\ b[c] = l THEN i ELSE b[c]
  BY <1>1, Numbers DEF Redirected
<1>4. r1 \in [Nodes -> Nat] /\ \A j \in Nodes : r1[j] = IF j = i THEN r[l] ELSE r[j]
  BY <1>1
<1> HIDE DEF n1, b1, r1
<1>5. \A j \in U1 :
        /\ n1[j].key = IF j = i THEN n[l].key ELSE n[j].key
        /\ n1[j].next = IF j = n[l].prev THEN i ELSE IF j = i THEN n[l].next ELSE n[j].next
        /\ n1[j].prev = IF j = n[l].next THEN i ELSE IF j = i THEN n[l].prev ELSE n[j].prev
  BY <1>1, <1>2 DEF IsMoved
<1>6. /\ U1 \in SUBSET Nodes
      /\ n[l].prev # i /\ n[l].next # i /\ n[l].prev # l /\ n[l].next # l
      /\ \A j \in U1 : j = i \/ (j \in U /\ j # l)
  BY <1>1, Numbers DEF Chained, LinkedBack, LinkedOn
<1>7. BucketsFit(n1, b1, U1)
  BY <1>1, <1>3, <1>5, <1>6, Numbers
  DEF Chained, BucketsFit, LinkedBack, LinkedOn, KeysDiffer
<1>8. LinkedBack(n1, b1, U1, r1)
  BY <1>1, <1>3, <1>4, <1>5, <1>6, Numbers
  DEF Chained, BucketsFit, LinkedBack, LinkedOn, KeysDiffer
<1>9. LinkedOn(n1, U1)
  BY <1>1, <1>5, <1>6, Numbers
  DEF Chained, BucketsFit, LinkedBack, LinkedOn, KeysDiffer
<1>10. KeysDiffer(n1, U1)
  BY <1>1, <1>5, <1>6, Numbers DEF Chained, KeysDiffer
<1> QED
  BY <1>2, <1>3, <1>7, <1>8, <1>9, <1>10 DEF Chained, n1, b1, r1, IsMoved

(* A key and its value are in the map. *)
Holds(k, v) == \E i \in Used : node[i].key = k /\ node[i].value = v

LEMMA UsedNodes ==
  ASSUME TypeOK
  PROVE  /\ Used \in SUBSET Nodes
         /\ \A i \in Used : i \in Nodes /\ node[i] \in NodeType
         /\ node \in [Nodes -> NodeType]
         /\ bucket \in [Nodes -> Links]
         /\ position \in 0 .. Size
  BY ShareMapAssumption DEF TypeOK, Used, Nodes, NodeType

LEMMA ReplaceStep ==
  ASSUME MapInv, NEW k \in Keys, NEW v \in Values, NEW i \in Used, node[i].key = k,
         node' = [node EXCEPT ![i].value = v], UNCHANGED <<bucket, position>>
  PROVE  /\ MapInv'
         /\ \A k2 \in Keys, v2 \in Values \cup {Empty} :
              Holds(k2, v2)' <=> IF k2 = k THEN v2 = v ELSE Holds(k2, v2)
<1>1. PICK r \in [Nodes -> Nat] : Chained(node, bucket, Used, r)
  BY DEF MapInv
<1>2. i \in Nodes /\ node \in [Nodes -> NodeType] /\ Used \in SUBSET Nodes
  BY UsedNodes DEF MapInv
<1>3. PICK x \in NodeType : x = node[i]
  BY <1>2
<1>4. [x EXCEPT !.value = v] \in NodeType
      /\ [x EXCEPT !.value = v].key = x.key
      /\ [x EXCEPT !.value = v].prev = x.prev
      /\ [x EXCEPT !.value = v].next = x.next
      /\ [x EXCEPT !.value = v].value = v
  BY DEF NodeType
<1>5. PICK y \in NodeType :
        y = [x EXCEPT !.value = v] /\ y.key = x.key /\ y.prev = x.prev /\ y.next = x.next
        /\ y.value = v
  BY <1>4
<1>6. node' = [node EXCEPT ![i] = y]
  BY <1>2, <1>3, <1>5
<1>7. /\ node' \in [Nodes -> NodeType]
      /\ \A j \in Nodes :
           /\ node'[j].key = node[j].key
           /\ node'[j].prev = node[j].prev
           /\ node'[j].next = node[j].next
           /\ node'[j].value = IF j = i THEN v ELSE node[j].value
  BY <1>2, <1>3, <1>5, <1>6
<1>8. Used' = Used
  BY DEF Used
<1>9. TypeOK'
  BY <1>7 DEF MapInv, TypeOK, NodeType
<1>10. Chained(node', bucket', Used', r)
  BY <1>1, <1>2, <1>7, <1>8, Numbers
  DEF Chained, BucketsFit, LinkedBack, LinkedOn, KeysDiffer
<1>11. MapInv'
  BY <1>9, <1>10 DEF MapInv
<1>12. ASSUME NEW k2 \in Keys, NEW v2 \in Values \cup {Empty}
       PROVE  Holds(k2, v2)' <=> IF k2 = k THEN v2 = v ELSE Holds(k2, v2)
  <2>1. \A j \in Used : node[j].key = k => j = i
    BY <1>1 DEF Chained, KeysDiffer
  <2> QED
    BY <1>2, <1>7, <1>8, <2>1 DEF Holds
<1> QED
  BY <1>11, <1>12

LEMMA InsertStep ==
  ASSUME MapInv, NEW k \in Keys, NEW v \in Values, position < Size,
         \A i \in Used : node[i].key # k,
         node' = Linked(position, k, v),
         bucket' = [bucket EXCEPT ![Hash[k]] = position],
         position' = position + 1
  PROVE  /\ MapInv'
         /\ \A k2 \in Keys, v2 \in Values \cup {Empty} :
              Holds(k2, v2)' <=> IF k2 = k THEN v2 = v ELSE Holds(k2, v2)
<1> DEFINE h == Hash[k]
           p == position
           head == bucket[h]
<1>1. PICK r \in [Nodes -> Nat] : Chained(node, bucket, Used, r)
  BY DEF MapInv
<1>2. /\ p \in Nodes /\ p \notin Used /\ Used \in SUBSET Nodes
      /\ Used' = Used \cup {p}
      /\ position' \in 0 .. Size
      /\ h \in Nodes /\ Hash[k] = h /\ head \in Links
      /\ node \in [Nodes -> NodeType] /\ bucket \in [Nodes -> Links]
  BY UsedNodes, Numbers DEF MapInv, Used, Nodes
<1>3. head # None => head \in Used /\ Hash[node[head].key] = h /\ node[head].prev = None
  BY <1>1, <1>2 DEF Chained, BucketsFit
<1>4. /\ node' \in [Nodes -> NodeType]
      /\ \A j \in Nodes :
           /\ node'[j].key = IF j = p THEN k ELSE node[j].key
           /\ node'[j].value = IF j = p THEN v ELSE node[j].value
           /\ node'[j].next = IF j = p THEN head ELSE node[j].next
           /\ node'[j].prev = IF j = p THEN None ELSE IF j = head THEN p ELSE node[j].prev
  <2>1. p \in Links /\ None \in Links
    BY <1>2, Numbers
  <2> QED
    BY <1>2, <2>1 DEF Linked, NodeType
<1>5. bucket' \in [Nodes -> Links]
      /\ \A c \in Nodes : bucket'[c] = IF c = h THEN p ELSE bucket[c]
  BY <1>2, Numbers
<1>6. TypeOK'
  BY <1>2, <1>4, <1>5 DEF TypeOK, NodeType
<1> DEFINE r1 == [j \in Nodes |-> IF j = p THEN 0 ELSE r[j] + 1]
<1>7. r1 \in [Nodes -> Nat] /\ \A j \in Nodes : r1[j] = IF j = p THEN 0 ELSE r[j] + 1
  OBVIOUS
<1> HIDE DEF r1, p, h, head
<1>8. BucketsFit(node', bucket', Used')
  <2> SUFFICES ASSUME NEW c \in Nodes, bucket'[c] # None
               PROVE  /\ bucket'[c] \in Used' /\ node'[bucket'[c]].prev = None
                      /\ Hash[node'[bucket'[c]].key] = c
    BY DEF BucketsFit
  <2>1. CASE c = h
    BY <1>2, <1>4, <1>5, <2>1
  <2>2. CASE c # h
    <3>1. /\ bucket'[c] = bucket[c] /\ bucket[c] \in Used
          /\ node[bucket[c]].prev = None /\ Hash[node[bucket[c]].key] = c
      BY <1>1, <1>5, <2>2 DEF Chained, BucketsFit
    <3>2. bucket[c] # p /\ bucket[c] # head /\ bucket[c] \in Nodes
      BY <1>2, <1>3, <2>2, <3>1
    <3> QED
      BY <1>2, <1>4, <3>1, <3>2
  <2> QED
    BY <2>1, <2>2
<1>9. LinkedBack(node', bucket', Used', r1)
  <2> SUFFICES ASSUME NEW i \in Used'
               PROVE  /\ node'[i].prev = None => bucket'[Hash[node'[i].key]] = i
                      /\ node'[i].prev # None =>
                           /\ node'[i].prev \in Used' /\ node'[node'[i].prev].next = i
                           /\ r1[node'[i].prev] < r1[i]
    BY DEF LinkedBack
  <2>1. CASE i = p
    BY <1>2, <1>4, <1>5, <2>1
  <2>2. CASE i # p /\ i = head
    BY <1>2, <1>3, <1>4, <1>7, <2>2, Numbers
  <2>3. CASE i # p /\ i # head
    <3>1. /\ i \in Used /\ i \in Nodes
          /\ node'[i].prev = node[i].prev /\ node'[i].key = node[i].key
      BY <1>2, <1>4, <2>3
    <3>2. CASE node[i].prev = None
      <4>1. bucket[Hash[node[i].key]] = i /\ Hash[node[i].key] \in Nodes
        BY <1>1, <3>1, <3>2, Numbers DEF Chained, LinkedBack, KeysDiffer
      <4> QED
        BY <1>5, <2>3, <3>1, <3>2, <4>1 DEF head
    <3>3. CASE node[i].prev # None
      <4>1. PICK q \in Used : q = node[i].prev /\ node[q].next = i /\ r[q] < r[i]
        BY <1>1, <3>1, <3>3 DEF Chained, LinkedBack
      <4>2. q \in Nodes /\ q # p /\ q \in Used'
        BY <1>2, <4>1
      <4>3. r1[q] = r[q] + 1 /\ r1[i] = r[i] + 1
        BY <1>7, <2>3, <3>1, <4>2
      <4> QED
        BY <1>4, <3>1, <3>3, <4>1, <4>2, <4>3
    <3> QED
      BY <3>2, <3>3
  <2> QED
    BY <2>1, <2>2, <2>3
<1>10. LinkedOn(node', Used')
  BY <1>1, <1>2, <1>3, <1>4, <1>5, Numbers
  DEF Chained, BucketsFit, LinkedBack, LinkedOn, KeysDiffer
<1>11. KeysDiffer(node', Used')
  BY <1>1, <1>2, <1>4 DEF Chained, KeysDiffer
<1>12. MapInv'
  BY <1>6, <1>7, <1>8, <1>9, <1>10, <1>11 DEF MapInv, Chained
<1>13. ASSUME NEW k2 \in Keys, NEW v2 \in Values \cup {Empty}
       PROVE  Holds(k2, v2)' <=> IF k2 = k THEN v2 = v ELSE Holds(k2, v2)
  BY <1>2, <1>4 DEF Holds
<1> QED
  BY <1>12, <1>13

LEMMA DeleteStep ==
  ASSUME MapInv, NEW i \in Used, Delete(i)
  PROVE  /\ MapInv'
         /\ \A k \in Keys, v \in Values \cup {Empty} :
              Holds(k, v)' <=> k # node[i].key /\ Holds(k, v)
<1> DEFINE last == position - 1
           n == UnlinkedNodes(i)
           b == UnlinkedBuckets(i)
<1>1. PICK r \in [Nodes -> Nat] : Chained(node, bucket, Used, r)
  BY DEF MapInv
<1>2. /\ Used \in SUBSET Nodes /\ position \in 0 .. Size
      /\ node \in [Nodes -> NodeType] /\ bucket \in [Nodes -> Links]
  BY UsedNodes DEF MapInv
<1>3. /\ n \in [Nodes -> NodeType]
      /\ \A j \in Nodes : n[j].key = node[j].key /\ n[j].value = node[j].value
      /\ b \in [Nodes -> Links]
      /\ Chained(n, b, Used \ {i}, r)
  BY <1>1, <1>2, UnlinkedChained DEF UnlinkedNodes, UnlinkedBuckets
<1>4. /\ last \in Used /\ position' = last /\ position' \in 0 .. Size
      /\ Used' = Used \ {last}
      /\ i \in Nodes /\ last \in Nodes
  <2>1. position' = last
    BY DEF Delete
  <2>2. position \in Nat /\ position >= 1
    BY <1>2 DEF Used
  <2>3. last \in Used /\ Used' = Used \ {last} /\ last \in 0 .. Size
    BY <1>2, <2>1, <2>2, Numbers DEF Used
  <2> HIDE DEF last
  <2> QED
    BY <1>2, <2>1, <2>3
<1>5. \A j \in Used : node[j].key = node[i].key => j = i
  BY <1>1 DEF Chained, KeysDiffer
<1>6. CASE i = last
  <2>1. node' = n /\ bucket' = b
    BY <1>6 DEF Delete
  <2> HIDE DEF n, b, last
  <2>2. TypeOK'
    BY <1>3, <1>4, <2>1 DEF TypeOK, NodeType
  <2>3. Chained(node', bucket', Used', r)
    BY <1>3, <1>4, <1>6, <2>1
  <2>4. MapInv'
    BY <2>2, <2>3 DEF MapInv
  <2>5. ASSUME NEW k \in Keys, NEW v \in Values \cup {Empty}
        PROVE  Holds(k, v)' <=> k # node[i].key /\ Holds(k, v)
    BY <1>2, <1>3, <1>4, <1>5, <1>6, <2>1 DEF Holds
  <2> QED
    BY <2>4, <2>5
<1>7. CASE i # last
  <2> DEFINE U == Used \ {i}
  <2>1. /\ node' = MovedNodes(n, i, last)
        /\ bucket' = Redirected(b, n[last].key, last, i)
    BY <1>7 DEF Delete, MovedNodes
  <2> HIDE DEF n, b, last
  <2>2. U \in SUBSET Nodes /\ i \notin U /\ last \in U /\ Used' = (U \ {last}) \cup {i}
    BY <1>2, <1>4, <1>7
  <2>3. /\ IsMoved(node', n, i, last)
        /\ bucket' \in [Nodes -> Links]
        /\ Chained(node', bucket', Used', [r EXCEPT ![i] = r[last]])
    <3>1. /\ IsMoved(MovedNodes(n, i, last), n, i, last)
          /\ Redirected(b, n[last].key, last, i) \in [Nodes -> Links]
          /\ Chained(MovedNodes(n, i, last), Redirected(b, n[last].key, last, i),
                     (U \ {last}) \cup {i}, [r EXCEPT ![i] = r[last]])
      <4>1. Chained(n, b, U, r)
        BY <1>3
      <4> HIDE DEF U
      <4> QED
        BY <1>3, <1>4, <2>2, <4>1, MovedChained, Zenon
    <3> QED
      BY <2>1, <2>2, <3>1, Zenon
  <2>4. TypeOK'
    BY <1>4, <2>3 DEF TypeOK, IsMoved, NodeType
  <2>5. [r EXCEPT ![i] = r[last]] \in [Nodes -> Nat]
    BY <1>4
  <2>6. MapInv'
    BY <2>3, <2>4, <2>5 DEF MapInv
  <2>7. \A j \in Nodes \ {last} :
          /\ node'[j].key = IF j = i THEN node[last].key ELSE node[j].key
          /\ node'[j].value = IF j = i THEN node[last].value ELSE node[j].value
    BY <1>3, <1>4, <2>3 DEF IsMoved
  <2>8. ASSUME NEW k \in Keys, NEW v \in Values \cup {Empty}
        PROVE  Holds(k, v)' <=> k # node[i].key /\ Holds(k, v)
    <3>1. ASSUME NEW j \in Used', node'[j].key = k, node'[j].value = v
          PROVE  k # node[i].key /\ Holds(k, v)
      <4>1. PICK l \in Used : l # i /\ node[l].key = k /\ node[l].value = v
        BY <1>2, <1>4, <1>7, <2>2, <2>7, <3>1
      <4> QED
        BY <1>5, <4>1 DEF Holds
    <3>2. ASSUME k # node[i].key, NEW l \in Used, node[l].key = k, node[l].value = v
          PROVE  Holds(k, v)'
      <4>1. \E j \in Used' : node'[j].key = k /\ node'[j].value = v
        BY <1>2, <1>4, <1>7, <2>2, <2>7, <3>2
      <4> QED
        BY <4>1 DEF Holds
    <3> QED
      BY <3>1, <3>2 DEF Holds
  <2> QED
    BY <2>6, <2>8
<1> QED
  BY <1>6, <1>7

-----------------------------------------------------------------------------
(* The walk along a chain.                                                 *)

(* What holds of some number holds of a least one: induction over the      *)
(* steps of a walk.                                                        *)
LEMMA LeastNumber ==
  ASSUME NEW T, T \subseteq Nat, T # {}
  PROVE  \E n \in T : \A m \in T : n <= m
<1>1. PICK x \in T : \A y \in T : ~(<<y, x>> \in OpToRel(<, Nat))
  BY NatLessThanWellFounded, WFMin
<1>2. \A y \in T : ~(y < x)
  <2>1. SUFFICES ASSUME NEW y \in T, y < x
                 PROVE  <<y, x>> \in OpToRel(<, Nat)
    BY <1>1, Zenon
  <2>2. <<y, x>> \in Nat \X Nat
    OBVIOUS
  <2>3. <<y, x>>[1] < <<y, x>>[2]
    BY <2>1
  <2> QED
    BY <2>2, <2>3, Zenon DEF OpToRel
<1> QED
  BY <1>2

(* There is a walk of any length from a link on. *)
IsWalk(w, step, a, m) == w[0] = a /\ \A n \in 1 .. m : w[n] = step[w[n - 1]]

LEMMA WalkExists ==
  ASSUME NEW L, NEW a \in L, NEW step \in [L -> L], NEW m \in Nat
  PROVE  \E w \in [0 .. m -> L] : IsWalk(w, step, a, m)
<1> DEFINE T == {n \in Nat : ~\E w \in [0 .. n -> L] : IsWalk(w, step, a, n)}
<1>1. SUFFICES ASSUME T # {} PROVE FALSE
  OBVIOUS
<1>2. PICK n \in T : \A l \in T : n <= l
  BY <1>1, LeastNumber
<1>3. n # 0
  <2>1. [l \in 0 .. 0 |-> a] \in [0 .. 0 -> L] /\ IsWalk([l \in 0 .. 0 |-> a], step, a, 0)
    BY DEF IsWalk
  <2> QED
    BY <2>1
<1>4. n - 1 \in Nat /\ n - 1 \notin T
  BY <1>2, <1>3
<1>5. PICK w \in [0 .. n - 1 -> L] : IsWalk(w, step, a, n - 1)
  BY <1>4
<1> DEFINE v == [l \in 0 .. n |-> IF l = n THEN step[w[n - 1]] ELSE w[l]]
<1>6. v \in [0 .. n -> L]
  BY <1>4, <1>5
<1>7. IsWalk(v, step, a, n)
  BY <1>4, <1>5 DEF IsWalk
<1> QED
  BY <1>6, <1>7

(* The walk of getref. *)
Walk(w, k) ==
  w = [n \in Nodes |-> IF n = 0 THEN bucket[Hash[k]] ELSE After(k)[w[n - 1]]]

LEMMA FoundWalks ==
  ASSUME MapInv, NEW k \in Keys
  PROVE  \E w : /\ Walk(w, k)
               /\ Found(k) = IF w[Size - 1] # None /\ node[w[Size - 1]].key = k
                             THEN w[Size - 1] ELSE None
<1> DEFINE step == After(k)
<1>1. step \in [Links -> Links] /\ bucket[Hash[k]] \in Links
  BY UsedNodes, Numbers DEF MapInv, NodeType, Links, After
<1>2. Size - 1 \in Nat /\ Nodes = 0 .. Size - 1
  BY Numbers DEF Nodes
<1>3. PICK w \in [Nodes -> Links] : IsWalk(w, step, bucket[Hash[k]], Size - 1)
  BY <1>1, <1>2, WalkExists
<1>4. \A n \in Nodes : w[n] = IF n = 0 THEN bucket[Hash[k]] ELSE After(k)[w[n - 1]]
  <2> SUFFICES ASSUME NEW n \in Nodes, n # 0
               PROVE  w[n] = step[w[n - 1]] /\ w[n - 1] \in Links
    BY <1>3 DEF IsWalk
  <2>1. n \in 1 .. Size - 1 /\ n - 1 \in Nodes
    BY <1>2
  <2> QED
    BY <1>3, <2>1 DEF IsWalk
<1>5. Walk(w, k)
  BY <1>3, <1>4 DEF Walk
<1> QED
  BY <1>5 DEF Walk, Found

(* The walk does not leave the chain. *)
LEMMA WalkStays ==
  ASSUME MapInv, NEW k \in Keys, NEW w, Walk(w, k)
  PROVE  \A n \in Nodes : w[n] # None => w[n] \in Used
<1> DEFINE T == {n \in Nodes : w[n] # None /\ w[n] \notin Used}
<1>1. SUFFICES ASSUME T # {} PROVE FALSE
  OBVIOUS
<1>2. PICK n \in T : \A l \in T : n <= l
  <2>1. T \subseteq Nat
    BY Numbers DEF Nodes
  <2> HIDE DEF T
  <2> QED
    BY <1>1, <2>1, LeastNumber
<1>3. PICK r \in [Nodes -> Nat] : Chained(node, bucket, Used, r)
  BY DEF MapInv
<1>4. CASE n = 0
  BY <1>3, <1>4, Numbers DEF Walk, Chained, BucketsFit
<1>5. CASE n # 0
  <2>1. n - 1 \in Nodes /\ n - 1 \notin T /\ w[n - 1] \in Links
    <3>1. n - 1 \in Nodes /\ n - 1 \notin T
      BY <1>2, <1>5, Numbers DEF Nodes
    <3> QED
      BY <3>1, UsedNodes, Numbers DEF MapInv
  <2>2. w[n] = IF w[n - 1] = None \/ node[w[n - 1]].key = k THEN w[n - 1]
               ELSE node[w[n - 1]].next
    BY <1>5, <2>1 DEF Walk, After
  <2>3. w[n - 1] \in Used /\ w[n] = node[w[n - 1]].next
    BY <2>1, <2>2
  <2> QED
    BY <1>3, <2>3 DEF Chained, LinkedOn
<1> QED
  BY <1>4, <1>5

(* A chain of which the walk has seen n + 1 nodes before node j is no      *)
(* longer than the pool.                                                   *)
Rises(w, r, n) ==
  \A a, b \in 0 .. n : w[b] \in Used /\ (a < b => r[w[a]] < r[w[b]])

LEMMA RoomBehind ==
  ASSUME MapInv, NEW w, NEW r \in [Nodes -> Nat], NEW n \in Nodes, Rises(w, r, n),
         NEW j \in Used, r[w[n]] < r[j]
  PROVE  n + 1 \in Nodes
<1> DEFINE f == [m \in 0 .. n |-> w[m]]
           U == Used \ {j}
<1>1. n \in Nat /\ position \in 0 .. Size /\ Size \in Nat /\ Used \in SUBSET Nodes
  BY UsedNodes, Numbers DEF MapInv, Nodes
<1>2. \A m \in 0 .. n : w[m] \in Used /\ r[w[m]] < r[j]
  <2> SUFFICES ASSUME NEW m \in 0 .. n PROVE w[m] \in Used /\ r[w[m]] < r[j]
    OBVIOUS
  <2>1. n \in 0 .. n /\ w[m] \in Used /\ w[n] \in Used /\ (m < n => r[w[m]] < r[w[n]])
    BY <1>1 DEF Rises
  <2>2. PICK x \in Nat, y \in Nat, z \in Nat : x = r[w[m]] /\ y = r[w[n]] /\ z = r[j]
    BY <1>1, <2>1
  <2>3. m = n \/ m < n
    BY <1>1
  <2> QED
    BY <2>1, <2>2, <2>3
<1>3. f \in Injection(0 .. n, U)
  <2>1. f \in [0 .. n -> U]
    <3>1. \A m \in 0 .. n : w[m] \in U
      <4> SUFFICES ASSUME NEW m \in 0 .. n PROVE w[m] # j
        BY <1>2
      <4>1. r[w[m]] < r[j] /\ r[j] \in Nat
        BY <1>1, <1>2
      <4> QED
        BY <4>1
    <3> QED
      BY <3>1
  <2>2. ASSUME NEW a \in 0 .. n, NEW b \in 0 .. n, f[a] = f[b] PROVE a = b
    <3>1. w[a] = w[b] /\ w[a] \in Used /\ r[w[a]] \in Nat
      BY <1>1, <1>2, <2>2
    <3>2. (a < b => r[w[a]] < r[w[b]]) /\ (b < a => r[w[b]] < r[w[a]])
      BY DEF Rises
    <3>3. ~(a < b) /\ ~(b < a)
      BY <3>1, <3>2
    <3> QED
      BY <1>1, <3>3
  <2> HIDE DEF f
  <2> QED
    BY <2>1, <2>2 DEF Injection, IsInjective
<1>4. IsFiniteSet(Used) /\ Cardinality(Used) = position
  <2>1. PICK l \in Nat : l = position - 1
    BY <1>1 DEF Used
  <2>2. IsFiniteSet(0 .. l) /\ Cardinality(0 .. l) = l + 1
    BY FS_Interval
  <2> QED
    BY <1>1, <2>1, <2>2 DEF Used
<1>5. IsFiniteSet(U) /\ Cardinality(U) = position - 1
  BY <1>4, FS_RemoveElement
<1>6. Cardinality(0 .. n) <= Cardinality(U)
  BY <1>3, <1>5, FS_Injection
<1>7. Cardinality(0 .. n) = n + 1
  BY <1>1, FS_Interval
<1> QED
  BY <1>1, <1>5, <1>6, <1>7 DEF Nodes

(* It comes to the node of the key, and stays there. *)
LEMMA WalkArrives ==
  ASSUME MapInv, NEW k \in Keys, NEW w, Walk(w, k), NEW i \in Used, node[i].key = k
  PROVE  w[Size - 1] = i
<1>1. PICK r \in [Nodes -> Nat] : Chained(node, bucket, Used, r)
  BY DEF MapInv
<1>2. Used \in SUBSET Nodes /\ Size - 1 \in Nat /\ Nodes = 0 .. Size - 1
  BY UsedNodes, Numbers DEF MapInv, Nodes
<1> DEFINE Passed(j) == \E n \in Nodes : w[n] = j /\ Rises(w, r, n)
           Missed == {j \in Used : /\ Hash[node[j].key] = Hash[k]
                                   /\ r[j] <= r[i]
                                   /\ ~Passed(j)}
           T == {r[j] : j \in Missed}
<1>3. Missed = {}
  <2> SUFFICES ASSUME Missed # {} PROVE FALSE
    OBVIOUS
  <2>1. T # {} /\ T \subseteq Nat
    <3>1. \A j \in Missed : r[j] \in Nat
      BY <1>2
    <3> HIDE DEF Missed
    <3> QED
      BY <3>1
  <2>2. PICK x \in T : \A y \in T : x <= y
    BY <2>1, LeastNumber
  <2>3. PICK j \in Missed : x = r[j]
    OBVIOUS
  <2>4. \A l \in Used : Hash[node[l].key] = Hash[k] /\ r[l] < r[j] => Passed(l)
    <3> SUFFICES ASSUME NEW l \in Used, Hash[node[l].key] = Hash[k], r[l] < r[j], ~Passed(l)
                 PROVE  FALSE
      OBVIOUS
    <3>1. r[l] \in Nat /\ r[j] \in Nat /\ r[i] \in Nat /\ r[j] <= r[i]
      BY <1>2
    <3>2. l \in Missed
      BY <3>1
    <3> QED
      BY <2>2, <2>3, <3>1, <3>2
  <2>5. /\ j \in Used /\ j \in Nodes /\ Hash[node[j].key] = Hash[k] /\ ~Passed(j)
        /\ r[j] <= r[i] /\ r[j] \in Nat /\ r[i] \in Nat
    BY <1>2
  <2> HIDE DEF Missed, T
  <2>6. CASE node[j].prev = None
    <3>1. w[0] = j /\ 0 \in Nodes
      BY <1>1, <1>2, <2>5, <2>6 DEF Walk, Chained, LinkedBack
    <3>2. Rises(w, r, 0)
      BY <2>5, <3>1 DEF Rises
    <3> QED
      BY <2>5, <3>1, <3>2
  <2>7. CASE node[j].prev # None
    <3>1. PICK p \in Used : p = node[j].prev /\ node[p].next = j /\ r[p] < r[j]
      <4>1. LinkedBack(node, bucket, Used, r)
        BY <1>1 DEF Chained
      <4> QED
        BY <2>5, <2>7, <4>1 DEF LinkedBack
    <3>2. Hash[node[p].key] = Hash[k] /\ j # None
      <4>1. LinkedOn(node, Used)
        BY <1>1 DEF Chained
      <4>2. j # None
        BY <2>5, Numbers
      <4> QED
        BY <2>5, <3>1, <4>1, <4>2 DEF LinkedOn
    <3>3. PICK n \in Nodes : w[n] = p /\ Rises(w, r, n)
      BY <2>4, <3>1, <3>2
    <3>4. n + 1 \in Nodes
      BY <2>5, <3>1, <3>3, RoomBehind
    <3>5. node[p].key # k
      <4>1. p # i
        BY <1>2, <2>5, <3>1
      <4> QED
        BY <1>1, <4>1 DEF Chained, KeysDiffer
    <3>6. w[n + 1] = j
      <4>1. n + 1 # 0 /\ (n + 1) - 1 = n /\ p # None /\ p \in Links
        BY <1>2, <3>4, Numbers
      <4>2. w[n + 1] = After(k)[p]
        BY <3>3, <3>4, <4>1 DEF Walk
      <4>3. After(k)[p] = node[p].next
        BY <3>5, <4>1 DEF After
      <4> QED
        BY <3>1, <4>2, <4>3
    <3>7. Rises(w, r, n + 1)
      <4> SUFFICES ASSUME NEW a \in 0 .. n + 1, NEW b \in 0 .. n + 1
                   PROVE  w[b] \in Used /\ (a < b => r[w[a]] < r[w[b]])
        BY DEF Rises
      <4>1. n \in Nat
        BY <1>2
      <4>2. CASE b \in 0 .. n
        <5>1. a < b => a \in 0 .. n
          BY <4>1, <4>2
        <5> QED
          BY <3>3, <4>2, <5>1 DEF Rises
      <4>3. CASE b = n + 1
        <5>1. w[b] = j /\ (a < b => a \in 0 .. n)
          BY <3>6, <4>1, <4>3
        <5>2. ASSUME a \in 0 .. n PROVE r[w[a]] < r[j]
          <6>1. w[a] \in Used /\ (a < n => r[w[a]] < r[p]) /\ (a = n => w[a] = p)
            BY <3>3, <4>1, <5>2 DEF Rises
          <6>2. PICK x1 \in Nat, x2 \in Nat, x3 \in Nat :
                  x1 = r[w[a]] /\ x2 = r[p] /\ x3 = r[j]
            BY <1>2, <2>5, <6>1
          <6>3. a < n \/ a = n
            BY <4>1, <5>2
          <6> QED
            BY <3>1, <6>1, <6>2, <6>3
        <5> QED
          BY <2>5, <5>1, <5>2
      <4> QED
        BY <4>1, <4>2, <4>3
    <3> QED
      BY <2>5, <3>4, <3>6, <3>7
  <2> QED
    BY <2>6, <2>7
<1>4. PICK n \in Nodes : w[n] = i
  <2>1. r[i] <= r[i]
    BY <1>2
  <2> QED
    BY <1>3, <2>1
<1> DEFINE Left == {m \in n .. Size - 1 : w[m] # i}
<1>5. Left = {}
  <2> SUFFICES ASSUME Left # {} PROVE FALSE
    OBVIOUS
  <2>1. Left \subseteq Nat
    BY <1>2
  <2>2. PICK m \in Left : \A l \in Left : m <= l
    BY <2>1, LeastNumber
  <2>3. m \in Nodes /\ m # 0 /\ m - 1 \in n .. Size - 1 /\ m - 1 \notin Left
    BY <1>2, <1>4, <2>2
  <2>4. w[m - 1] = i
    BY <2>3
  <2>5. w[m] = i
    <3>1. i \in Links
      BY <1>2, Numbers
    <3> QED
      BY <2>3, <2>4, <3>1 DEF Walk, After
  <2> QED
    BY <2>5
<1> QED
  BY <1>2, <1>5

(* getref finds the node of a key that is there, and none for another.     *)
LEMMA FoundFinds ==
  ASSUME MapInv, NEW k \in Keys
  PROVE  /\ \A i \in Used : node[i].key = k => Found(k) = i
         /\ Found(k) # None => Found(k) \in Used /\ node[Found(k)].key = k
<1>1. PICK w : /\ Walk(w, k)
               /\ Found(k) = IF w[Size - 1] # None /\ node[w[Size - 1]].key = k
                             THEN w[Size - 1] ELSE None
  BY FoundWalks
<1>2. Size - 1 \in Nodes /\ Used \in SUBSET Nodes /\ None \notin Nodes
  BY Numbers, UsedNodes DEF MapInv, Nodes
<1>3. ASSUME NEW i \in Used, node[i].key = k
      PROVE  Found(k) = i
  <2>1. w[Size - 1] = i
    BY <1>1, <1>3, WalkArrives
  <2> QED
    BY <1>1, <1>2, <1>3, <2>1
<1>4. ASSUME Found(k) # None
      PROVE  Found(k) \in Used /\ node[Found(k)].key = k
  <2>1. w[Size - 1] # None => w[Size - 1] \in Used
    BY <1>1, <1>2, WalkStays
  <2> QED
    BY <1>1, <1>4, <2>1
<1> QED
  BY <1>3, <1>4

(* get answers what the nodes hold. *)
GetAnswers ==
  \A k \in Keys :
    /\ \A v \in Values \cup {Empty} : Holds(k, v) => Get(k) = v
    /\ (\A v \in Values \cup {Empty} : ~Holds(k, v)) => Get(k) = Empty

LEMMA GetFinds == MapInv => GetAnswers
<1> SUFFICES ASSUME MapInv, NEW k \in Keys
             PROVE  /\ \A v \in Values \cup {Empty} : Holds(k, v) => Get(k) = v
                    /\ (\A v \in Values \cup {Empty} : ~Holds(k, v)) => Get(k) = Empty
  BY DEF GetAnswers
<1>1. /\ \A i \in Used : node[i].key = k => Found(k) = i
      /\ Found(k) # None => Found(k) \in Used /\ node[Found(k)].key = k
  BY FoundFinds
<1>2. \A i \in Used : i # None /\ node[i].value \in Values \cup {Empty}
  BY UsedNodes, Numbers DEF MapInv, NodeType
<1>3. ASSUME NEW v \in Values \cup {Empty}, Holds(k, v)
      PROVE  Get(k) = v
  BY <1>1, <1>2, <1>3 DEF Holds, Get
<1>4. ASSUME \A v \in Values \cup {Empty} : ~Holds(k, v)
      PROVE  Get(k) = Empty
  <2>1. Found(k) = None
    BY <1>1, <1>2, <1>4 DEF Holds
  <2> QED
    BY <2>1 DEF Get
<1> QED
  BY <1>3, <1>4

-----------------------------------------------------------------------------
(* The steps of the specification.                                         *)

LEMMA InitHolds == Init => MapInv /\ D!Init
<1> SUFFICES ASSUME Init PROVE MapInv /\ D!Init
  OBVIOUS
<1>1. Used = {}
  BY DEF Init, Used
<1>2. TypeOK
  BY Numbers DEF Init, TypeOK
<1>3. [j \in Nodes |-> 0] \in [Nodes -> Nat]
  OBVIOUS
<1>4. Chained(node, bucket, Used, [j \in Nodes |-> 0])
  BY <1>1 DEF Init, Chained, BucketsFit, LinkedBack, LinkedOn, KeysDiffer
<1>5. MapInv
  BY <1>2, <1>3, <1>4 DEF MapInv
<1>6. \A k \in Keys : Get(k) = Empty
  BY <1>1, <1>5, GetFinds DEF GetAnswers, Holds
<1> QED
  BY <1>5, <1>6 DEF D!Init

(* What a key holds changes as the dictionary does. *)
Sets(k, v) == \A k2 \in Keys, v2 \in Values \cup {Empty} :
                Holds(k2, v2)' <=> IF k2 = k THEN v2 = v ELSE Holds(k2, v2)
Drops(k) == \A k2 \in Keys, v2 \in Values \cup {Empty} :
              Holds(k2, v2)' <=> k2 # k /\ Holds(k2, v2)

LEMMA ReplaceHolds ==
  ASSUME MapInv, NEW k \in Keys, NEW v \in Values, Replace(k, v)
  PROVE  MapInv' /\ Sets(k, v)
<1>1. Found(k) \in Used /\ node[Found(k)].key = k
  BY FoundFinds DEF Replace
<1>2. node' = [node EXCEPT ![Found(k)].value = v] /\ UNCHANGED <<bucket, position>>
  BY DEF Replace
<1> QED
  BY <1>1, <1>2, ReplaceStep, Zenon DEF Sets

LEMMA InsertHolds ==
  ASSUME MapInv, NEW k \in Keys, NEW v \in Values, Insert(k, v)
  PROVE  MapInv' /\ Sets(k, v)
<1>1. \A i \in Used : node[i].key # k
  <2>1. \A i \in Used : i # None
    BY UsedNodes, Numbers DEF MapInv
  <2> QED
    BY <2>1, FoundFinds DEF Insert
<1>2. /\ position < Size
      /\ node' = Linked(position, k, v)
      /\ bucket' = [bucket EXCEPT ![Hash[k]] = position]
      /\ position' = position + 1
  BY DEF Insert
<1> QED
  BY <1>1, <1>2, InsertStep, Zenon DEF Sets

LEMMA EraseHolds ==
  ASSUME MapInv, NEW k \in Keys, Erase(k)
  PROVE  MapInv' /\ Drops(k)
<1>1. Found(k) \in Used /\ node[Found(k)].key = k /\ Delete(Found(k))
  BY FoundFinds DEF Erase
<1> QED
  BY <1>1, DeleteStep, Zenon DEF Drops

LEMMA AnswersNext == MapInv' => GetAnswers'
  BY GetFinds, PTL

(* So get's answers change as the dictionary does.                         *)
LEMMA SetsAnswers ==
  ASSUME MapInv, MapInv', NEW k \in Keys, NEW v \in Values, Sets(k, v)
  PROVE  D!Set(k, v)
<1>1. GetAnswers /\ GetAnswers'
  BY GetFinds, AnswersNext
<1>2. ASSUME NEW k2 \in Keys
      PROVE  Get(k2)' = IF k2 = k THEN v ELSE Get(k2)
  <2>1. CASE k2 = k
    <3>1. Holds(k2, v)'
      BY <2>1 DEF Sets
    <3> QED
      BY <1>1, <2>1, <3>1 DEF GetAnswers
  <2>2. CASE k2 # k
    <3>1. \A v2 \in Values \cup {Empty} : Holds(k2, v2)' <=> Holds(k2, v2)
      BY <2>2 DEF Sets
    <3> QED
      BY <1>1, <2>2, <3>1 DEF GetAnswers
  <2> QED
    BY <2>1, <2>2
<1> QED
  BY <1>2 DEF D!Set

LEMMA DropsAnswers ==
  ASSUME MapInv, MapInv', NEW k \in Keys, Drops(k)
  PROVE  D!Remove(k)
<1>1. GetAnswers /\ GetAnswers'
  BY GetFinds, AnswersNext
<1>2. ASSUME NEW k2 \in Keys
      PROVE  Get(k2)' = IF k2 = k THEN Empty ELSE Get(k2)
  <2>1. \A v2 \in Values \cup {Empty} : Holds(k2, v2)' <=> k2 # k /\ Holds(k2, v2)
    BY DEF Drops
  <2> QED
    BY <1>1, <2>1 DEF GetAnswers
<1> QED
  BY <1>2 DEF D!Remove

LEMMA MapStep == MapInv /\ [Next]_vars => MapInv' /\ [D!Next]_([k \in Keys |-> Get(k)])
<1> SUFFICES ASSUME MapInv, [Next]_vars
             PROVE  MapInv' /\ [D!Next]_([k \in Keys |-> Get(k)])
  OBVIOUS
<1>1. ASSUME NEW k \in Keys, Erase(k)
      PROVE  MapInv' /\ D!Next
  <2>1. MapInv' /\ Drops(k)
    BY <1>1, EraseHolds
  <2>2. D!Remove(k)
    BY <2>1, DropsAnswers
  <2> QED
    BY <2>1, <2>2 DEF D!Next
<1>2. ASSUME NEW k \in Keys, NEW v \in Values, Replace(k, v) \/ Insert(k, v)
      PROVE  MapInv' /\ D!Next
  <2>1. MapInv' /\ Sets(k, v)
    BY <1>2, ReplaceHolds, InsertHolds
  <2>2. D!Set(k, v)
    BY <2>1, SetsAnswers
  <2> QED
    BY <2>1, <2>2 DEF D!Next
<1>3. CASE UNCHANGED vars
  <2>1. MapInv'
    BY <1>3 DEF vars, MapInv, TypeOK, Used, Chained, BucketsFit, LinkedBack, LinkedOn, KeysDiffer
  <2>2. \A k \in Keys : Get(k)' = Get(k)
    BY <1>3 DEF vars, Get, Found, After
  <2> QED
    BY <2>1, <2>2
<1> QED
  BY <1>1, <1>2, <1>3 DEF Next

-----------------------------------------------------------------------------
(* The results.                                                            *)

(* The chains stay whole whatever is set and removed: this is the          *)
(* inductive invariant, of which ChainsAgree is what a caller relies on.   *)
THEOREM MapStaysOrdered == Spec => []MapInv
<1>1. Init => MapInv
  BY InitHolds
<1>2. MapInv /\ [Next]_vars => MapInv'
  BY MapStep
<1> QED
  BY <1>1, <1>2, PTL DEF Spec

(* Nodes, buckets and the position of the pool keep their types. *)
THEOREM MapTypes == Spec => []TypeOK
<1>1. MapInv => TypeOK
  BY DEF MapInv
<1> QED
  BY <1>1, MapStaysOrdered, PTL

(* Removing a node, and moving the last one into its place, leave no link  *)
(* and no bucket behind that names a node which is not there any more, and *)
(* no key has two nodes.                                                   *)
THEOREM ChainsStayWhole == Spec => []ChainsAgree
<1>1. MapInv => ChainsAgree
  <2> SUFFICES ASSUME MapInv PROVE ChainsAgree
    OBVIOUS
  <2>1. PICK r \in [Nodes -> Nat] : Chained(node, bucket, Used, r)
    BY DEF MapInv
  <2> QED
    BY <2>1 DEF ChainsAgree, Chained, BucketsFit, LinkedBack, LinkedOn, KeysDiffer
<1> QED
  BY <1>1, MapStaysOrdered, PTL

(* The chains are the dictionary: getref answers for each key what was set *)
(* last, and nothing for one that was removed or never set.                *)
THEOREM MapIsDictionary == Spec => ImplementsDictionary
<1>1. Init => MapInv /\ D!Init
  BY InitHolds
<1>2. MapInv /\ [Next]_vars => MapInv' /\ [D!Next]_([k \in Keys |-> Get(k)])
  BY MapStep
<1> QED
  BY <1>1, <1>2, PTL DEF Spec, ImplementsDictionary, D!Spec
=============================================================================
