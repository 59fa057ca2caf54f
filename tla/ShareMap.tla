------------------------------ MODULE ShareMap ------------------------------
(***************************************************************************)
(* The hash map in shared memory (src/pf/core/src/sys/memory/sharemap.cc): *)
(* nodes that fill a pool without gaps, and one doubly linked chain of     *)
(* node numbers for each bucket.                                           *)
(*                                                                         *)
(* One caller at a time: set and remove look the key up before they take   *)
(* the header's lock, so the map is only what it promises when its callers *)
(* exclude each other.  All of it is in the shared segment, which init     *)
(* attaches to as it is: a restart of the process is no step.  Keys are no *)
(* longer than keysize_ and values shorter than valuesize_.                *)
(***************************************************************************)
EXTENDS Integers

CONSTANTS
  Keys,
  Values,
  Empty,    \* the text of a node that was never used
  Size,     \* size_: nodes and buckets
  Hash      \* the bucket of a key: hashkey and bucketindex

ASSUME ShareMapAssumption ==
  /\ Size \in Nat \ {0}
  /\ Empty \notin Keys \cup Values
  /\ Hash \in [Keys -> 0 .. Size - 1]

None == -1  \* INDEX_INVALID

Nodes == 0 .. Size - 1
Links == Nodes \cup {None}

VARIABLES
  node,      \* objs_
  bucket,    \* buckets_: the first node of each chain
  position   \* pool_position: the nodes below it are in use

vars == <<node, bucket, position>>

Used == 0 .. position - 1

Init ==
  /\ node = [i \in Nodes |-> [key |-> Empty, value |-> Empty, prev |-> None, next |-> None]]
  /\ bucket = [b \in Nodes |-> None]
  /\ position = 0

-----------------------------------------------------------------------------

(* getref: the walk along the chain of k, which is over at the node of k   *)
(* or at the end of the chain.  No chain is longer than the pool.          *)
After(k) == [i \in Links |-> IF i = None \/ node[i].key = k THEN i ELSE node[i].next]

Found(k) ==
  LET walk[n \in Nodes] == IF n = 0 THEN bucket[Hash[k]] ELSE After(k)[walk[n - 1]]
      end == walk[Size - 1]
  IN  IF end # None /\ node[end].key = k THEN end ELSE None

Replace(k, v) ==
  /\ Found(k) # None
  /\ node' = [node EXCEPT ![Found(k)].value = v]
  /\ UNCHANGED <<bucket, position>>

(* newnode and addnode: node i becomes the head of the chain of k. *)
Linked(i, k, v) ==
  LET head == bucket[Hash[k]]
  IN  [j \in Nodes |->
         IF j = i THEN [key |-> k, value |-> v, prev |-> None, next |-> head]
         ELSE IF j = head THEN [node[j] EXCEPT !.prev = i]
         ELSE node[j]]

(* Mutant: one node more than there are. *)
MutantInsert(k, v) ==
  /\ Found(k) = None
  /\ position <= Size
  /\ node' = Linked(position, k, v)
  /\ bucket' = [bucket EXCEPT ![Hash[k]] = position]
  /\ position' = position + 1

(* A pool that is full has no new node, and newnode reads the number of it *)
(* before it looks: callers do not set a new key then.                     *)
Insert(k, v) ==
  /\ Found(k) = None
  /\ position < Size
  /\ node' = Linked(position, k, v)
  /\ bucket' = [bucket EXCEPT ![Hash[k]] = position]
  /\ position' = position + 1

(* The nodes with the neighbours of node n linked to its old ones, or to   *)
(* the number it has got, when it has been moved to to.                    *)
Relinked(nodes, n, previous, next) ==
  [j \in Nodes |->
     [nodes[j] EXCEPT !.next = IF j = n.prev THEN next ELSE @,
                      !.prev = IF j = n.next THEN previous ELSE @]]

(* Where a bucket points, when from has become to. *)
Redirected(buckets, k, from, to) ==
  [buckets EXCEPT ![Hash[k]] = IF @ = from THEN to ELSE @]

(* remove takes node i out of its chain. *)
UnlinkedNodes(i) == Relinked(node, node[i], node[i].prev, node[i].next)

UnlinkedBuckets(i) == Redirected(bucket, node[i].key, i, node[i].next)

(* Mutants: the bucket of the node that moves, or its neighbours, are left *)
(* as they are.                                                            *)
MutantDelete(i) ==
  LET last == position - 1
      nodes == UnlinkedNodes(i)
      moved == nodes[last]
  IN  /\ position' = last
      /\ bucket' = UnlinkedBuckets(i)
      /\ node' = IF i = last THEN nodes
                 ELSE [Relinked([nodes EXCEPT ![i] = moved], moved, i, i)
                         EXCEPT ![last].prev = None, ![last].next = None]

MutantDeleteUnlinked(i) ==
  LET last == position - 1
      nodes == UnlinkedNodes(i)
      moved == nodes[last]
  IN  /\ position' = last
      /\ bucket' = IF i = last THEN UnlinkedBuckets(i)
                   ELSE Redirected(UnlinkedBuckets(i), moved.key, last, i)
      /\ node' = IF i = last THEN nodes
                 ELSE [nodes EXCEPT ![i] = moved,
                                    ![last].prev = None, ![last].next = None]

(* delete_obj: the last node takes the place of the one that goes, and its *)
(* neighbours or its bucket have to learn its new number.                  *)
Delete(i) ==
  LET last == position - 1
      nodes == UnlinkedNodes(i)
      moved == nodes[last]
  IN  /\ position' = last
      /\ bucket' = IF i = last THEN UnlinkedBuckets(i)
                   ELSE Redirected(UnlinkedBuckets(i), moved.key, last, i)
      /\ node' = IF i = last THEN nodes
                 ELSE [Relinked([nodes EXCEPT ![i] = moved], moved, i, i)
                         EXCEPT ![last].prev = None, ![last].next = None]

Erase(k) ==
  /\ Found(k) # None
  /\ Delete(Found(k))

(* pop_front and pop_back erase the key of the first or the last node. *)
Next == \E k \in Keys : Erase(k) \/ \E v \in Values : Replace(k, v) \/ Insert(k, v)

Spec == Init /\ [][Next]_vars

-----------------------------------------------------------------------------

TypeOK ==
  /\ node \in [Nodes -> [key : Keys \cup {Empty}, value : Values \cup {Empty},
                       prev : Links, next : Links]]
  /\ bucket \in [Nodes -> Links]
  /\ position \in 0 .. Size

(* Every used node is a link of the chain of its key in both directions,   *)
(* no chain leaves the used nodes, and no key has two nodes: what moves in *)
(* the pool and what is unlinked do not leave a number behind that names   *)
(* another node now.                                                       *)
ChainsAgree ==
  /\ \A b \in Nodes : bucket[b] # None =>
       /\ bucket[b] \in Used
       /\ node[bucket[b]].prev = None
       /\ Hash[node[bucket[b]].key] = b
  /\ \A i \in Used :
       /\ node[i].prev = None => bucket[Hash[node[i].key]] = i
       /\ node[i].prev # None => node[i].prev \in Used /\ node[node[i].prev].next = i
       /\ node[i].next # None =>
            /\ node[i].next \in Used
            /\ node[node[i].next].prev = i
            /\ Hash[node[node[i].next].key] = Hash[node[i].key]
  /\ \A i, j \in Used : node[i].key = node[j].key => i = j

(* The chains implement a dictionary: get finds the last value of a key    *)
(* that was set and nothing for one that was not, whatever was set or      *)
(* removed in between on the same chain or elsewhere in the pool.          *)
Get(k) == IF Found(k) = None THEN Empty ELSE node[Found(k)].value

D == INSTANCE Dictionary WITH NoValue <- Empty, dict <- [k \in Keys |-> Get(k)]

ImplementsDictionary == D!Spec
=============================================================================
