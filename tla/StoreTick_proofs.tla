-------------------------- MODULE StoreTick_proofs --------------------------
(***************************************************************************)
(* Proofs about StoreTick: the types, and that no key is in query_map_ or  *)
(* in forgetlist_ twice, for any keys, workers and sizes.                  *)
(***************************************************************************)
EXTENDS StoreTick, FiniteSetTheorems, SequenceTheorems, TLAPS

-----------------------------------------------------------------------------
(* The sequences the lists are.                                            *)

(* The front of a list without doubles has none either. *)
LEMMA FrontInjective ==
  ASSUME NEW S, NEW q \in Seq(S), q # <<>>, IsInjective(q)
  PROVE  /\ Front(q) \in Seq(S)
         /\ Len(Front(q)) = Len(q) - 1
         /\ IsInjective(Front(q))
<1>1. /\ Len(q) \in Nat \ {0}
      /\ DOMAIN q = 1 .. Len(q)
  BY EmptySeq
<1>2. /\ Front(q) \in Seq(S)
      /\ Len(Front(q)) = Len(q) - 1
      /\ \A i \in 1 .. Len(q) - 1 : Front(q)[i] = q[i]
  BY <1>1, SubSeqProperties DEF Front
<1>3. DOMAIN Front(q) = 1 .. Len(q) - 1
  BY <1>1, <1>2
<1> QED
  BY <1>1, <1>2, <1>3 DEF IsInjective

(* pop_front takes the first key and no other, whatever the length. *)
LEMMA PopFrontInjective ==
  ASSUME NEW S, NEW q \in Seq(S), IsInjective(q)
  PROVE  /\ PopFront(q) \in Seq(S)
         /\ Len(PopFront(q)) <= Len(q)
         /\ IsInjective(PopFront(q))
<1>1. CASE Len(q) <= 1
  <2>1. PopFront(q) = <<>>
    BY <1>1 DEF PopFront
  <2> QED
    BY <2>1 DEF IsInjective
<1>2. CASE ~(Len(q) <= 1)
  <2> DEFINE n == Len(q)
             r == [q EXCEPT ![1] = Last(q)]
             p == Front(r)
  <2>1. /\ n \in Nat
        /\ n > 1
        /\ DOMAIN q = 1 .. n
        /\ Last(q) = q[n]
        /\ q[n] \in S
    BY <1>2 DEF Last
  <2>2. /\ r \in Seq(S)
        /\ Len(r) = n
        /\ \A i \in 1 .. n : r[i] = IF i = 1 THEN q[n] ELSE q[i]
    BY <2>1
  <2> HIDE DEF r
  <2>3. /\ p \in Seq(S)
        /\ Len(p) = n - 1
        /\ \A i \in 1 .. n - 1 : p[i] = r[i]
    BY <2>1, <2>2, SubSeqProperties DEF Front
  <2>4. PopFront(q) = p
    BY <1>2 DEF PopFront, r
  <2> HIDE DEF p
  <2>5. DOMAIN p = 1 .. n - 1
    BY <2>1, <2>3
  <2>6. IsInjective(p)
    <3> HIDE DEF n
    <3>1. \A i \in 1 .. n - 1 : i \in 1 .. n /\ i # n
      BY <2>1
    <3>2. \A i \in 1 .. n - 1 : p[i] = IF i = 1 THEN q[n] ELSE q[i]
      BY <2>2, <2>3, <3>1
    <3>3. n \in 1 .. n /\ \A i, j \in 1 .. n : q[i] = q[j] => i = j
      BY <2>1 DEF IsInjective
    <3>4. ASSUME NEW i \in 1 .. n - 1, NEW j \in 1 .. n - 1, p[i] = p[j] PROVE i = j
      BY <3>1, <3>2, <3>3, <3>4
    <3> QED
      BY <2>5, <3>4 DEF IsInjective
  <2> QED
    BY <2>1, <2>3, <2>4, <2>6
<1> QED
  BY <1>1, <1>2

(* A key the list does not hold is added at its end. *)
LEMMA AddedInjective ==
  ASSUME NEW S, NEW q \in Seq(S), NEW k \in S, IsInjective(q), ~Contains(q, k)
  PROVE  /\ Append(q, k) \in Seq(S)
         /\ Len(Append(q, k)) = Len(q) + 1
         /\ IsInjective(Append(q, k))
<1>1. /\ Len(q) \in Nat
      /\ DOMAIN q = 1 .. Len(q)
      /\ Append(q, k) \in Seq(S)
      /\ Len(Append(q, k)) = Len(q) + 1
      /\ \A i \in 1 .. Len(q) : Append(q, k)[i] = q[i]
      /\ Append(q, k)[Len(q) + 1] = k
  OBVIOUS
<1>2. DOMAIN Append(q, k) = 1 .. Len(q) + 1
  BY <1>1
<1>3. \A i \in 1 .. Len(q) : Append(q, k)[i] # k
  BY <1>1 DEF Contains
<1>4. IsInjective(Append(q, k))
  BY <1>1, <1>2, <1>3 DEF IsInjective
<1>5. Append(q, k) \in Seq(S)
  BY <1>1
<1> QED
  BY <1>1, <1>4, <1>5

(* What the check gathers: the keys of a set, each once. *)
LEMMA GatheredInjective ==
  ASSUME NEW S, NEW T, IsFiniteSet(S), T \subseteq S, NEW q \in SetToSeqs(T)
  PROVE  q \in Seq(S) /\ IsInjective(q)
<1>1. Cardinality(T) \in Nat
  BY FS_Subset, FS_CardinalityType
<1>2. /\ q \in [1 .. Cardinality(T) -> T]
      /\ \A i, j \in 1 .. Cardinality(T) : i # j => q[i] # q[j]
  BY DEF SetToSeqs
<1>3. q \in Seq(T)
  BY <1>1, <1>2
<1> QED
  BY <1>2, <1>3 DEF IsInjective

-----------------------------------------------------------------------------
(* The tasks of a worker. *)

LEMMA TaskSteps ==
  ASSUME NEW t \in Tasks, t # None
  PROVE  /\ t.key \in Keys
         /\ t \in {QueryTask(t.key), ForgetTask(t.key),
                   [key |-> t.key, steps |-> <<"forget">>]}
BY DEF Tasks, QueryTask, ForgetTask

(* A worker carries its task out one step after the other. *)
LEMMA AdvanceTypes ==
  ASSUME NEW w \in Workers, doing \in [Workers -> Tasks], doing[w] # None, Advance(w)
  PROVE  doing' \in [Workers -> Tasks]
<1> DEFINE t == doing[w]
           next == IF Len(t.steps) = 1 THEN None ELSE [key |-> t.key, steps |-> Tail(t.steps)]
<1>1. t \in Tasks /\ t # None
  OBVIOUS
<1> HIDE DEF t
<1>2. CASE t = QueryTask(t.key)
  BY <1>2 DEF Advance, t, QueryTask, Tasks
<1>3. CASE t = ForgetTask(t.key)
  <2>1. t.steps = <<"query", "forget">>
    BY <1>3 DEF ForgetTask
  <2>2. next = [key |-> t.key, steps |-> <<"forget">>]
    BY <2>1
  <2>3. next \in Tasks
    BY <1>1, <2>2, TaskSteps DEF Tasks
  <2> QED
    BY <2>3 DEF Advance, t
<1>4. CASE t = [key |-> t.key, steps |-> <<"forget">>]
  BY <1>4 DEF Advance, t, Tasks
<1> QED
  BY <1>1, <1>2, <1>3, <1>4, TaskSteps

-----------------------------------------------------------------------------
(* The invariant. *)

TickInv == TypeOK /\ ListedOnce

LEMMA InitTickInv ==
  Init => TickInv
<1> SUFFICES ASSUME Init PROVE TickInv
  OBVIOUS
<1>1. TypeOK
  BY StoreTickAssumption DEF Init, TypeOK, Tasks
<1>2. ListedOnce
  BY DEF Init, ListedOnce, IsInjective
<1> QED
  BY <1>1, <1>2 DEF TickInv

LEMMA WaitQueryStep ==
  ASSUME TickInv, NEW k \in Keys, WaitQuery(k)
  PROVE  TickInv'
<1> USE DEF TickInv, TypeOK, ListedOnce
<1>1. UNCHANGED <<item, service>>
  BY DEF WaitQuery
<1>2. /\ waiting' \in Seq(Keys)
      /\ Len(waiting') < QueueSize
      /\ IsInjective(waiting')
  <2>1. CASE Contains(waiting, k)
    BY <2>1 DEF WaitQuery
  <2>2. CASE ~Contains(waiting, k)
    <3>1. /\ waiting' = Append(waiting, k)
          /\ Len(waiting) \in Nat
          /\ Len(waiting) < QueueSize - 1
      BY <2>2, StoreTickAssumption DEF WaitQuery
    <3>2. /\ Append(waiting, k) \in Seq(Keys)
          /\ Len(Append(waiting, k)) = Len(waiting) + 1
          /\ IsInjective(Append(waiting, k))
      BY <2>2, AddedInjective
    <3> QED
      BY <3>1, <3>2, StoreTickAssumption
  <2> QED
    BY <2>1, <2>2
<1> QED
  BY <1>1, <1>2 DEF service, IsInjective

LEMMA TickStep ==
  ASSUME TickInv, Tick
  PROVE  TickInv'
<1> DEFINE queries == IF waiting = <<>> THEN <<>> ELSE <<QueryTask(Head(waiting))>>
           forgets == IF forgetlist = <<>> THEN <<>> ELSE <<ForgetTask(Last(forgetlist))>>
           left == IF forgetlist = <<>> THEN <<>> ELSE Front(forgetlist)
           check == left = <<>> /\ due
<1>1. /\ waiting' = PopFront(waiting)
      /\ tasks' = tasks \o queries \o forgets
      /\ due' = (due /\ ~check)
      /\ forgetlist' \in IF check THEN SetToSeqs(Hooked) ELSE {left}
      /\ UNCHANGED <<item, doing>>
  BY DEF Tick
<1>2. /\ waiting \in Seq(Keys) /\ IsInjective(waiting) /\ Len(waiting) < QueueSize
      /\ forgetlist \in Seq(Keys) /\ IsInjective(forgetlist)
      /\ tasks \in Seq(Tasks)
      /\ due \in BOOLEAN
  BY DEF TickInv, TypeOK, ListedOnce
<1>3. queries \in Seq(Tasks)
  <2>1. waiting # <<>> => QueryTask(Head(waiting)) \in Tasks
    BY <1>2, EmptySeq, HeadTailProperties DEF Tasks
  <2> QED
    BY <2>1
<1>4. forgets \in Seq(Tasks)
  <2>1. forgetlist # <<>> => Len(forgetlist) \in DOMAIN forgetlist
    BY <1>2, EmptySeq
  <2>2. forgetlist # <<>> => ForgetTask(Last(forgetlist)) \in Tasks
    BY <1>2, <2>1 DEF Tasks, Last
  <2> QED
    BY <2>2
<1>5. left \in Seq(Keys) /\ IsInjective(left)
  <2>1. CASE forgetlist = <<>>
    BY <2>1 DEF IsInjective
  <2>2. CASE forgetlist # <<>>
    BY <1>2, <2>2, FrontInjective
  <2> QED
    BY <2>1, <2>2
<1> HIDE DEF queries, forgets, left
<1>6. tasks' \in Seq(Tasks)
  BY <1>1, <1>2, <1>3, <1>4
<1>7. due' \in BOOLEAN
  BY <1>1, <1>2
<1> HIDE DEF check
<1>8. forgetlist' \in Seq(Keys) /\ IsInjective(forgetlist')
  <2>1. CASE check
    <3>1. Hooked \subseteq Keys
      BY DEF Hooked
    <3> QED
      BY <1>1, <2>1, <3>1, GatheredInjective, StoreTickAssumption
  <2>2. CASE ~check
    BY <1>1, <1>5, <2>2
  <2> QED
    BY <2>1, <2>2
<1>9. /\ waiting' \in Seq(Keys)
      /\ Len(waiting') < QueueSize
      /\ IsInjective(waiting')
  BY <1>1, <1>2, PopFrontInjective, StoreTickAssumption
<1>10. item' \in [Keys -> {"absent", "plain", "hooked"}] /\ doing' \in [Workers -> Tasks]
  BY <1>1 DEF TickInv, TypeOK
<1> QED
  BY <1>6, <1>7, <1>8, <1>9, <1>10 DEF TickInv, TypeOK, ListedOnce, IsInjective

LEMMA NextTickInv ==
  TickInv /\ [Next]_vars => TickInv'
<1> SUFFICES ASSUME TickInv, [Next]_vars PROVE TickInv'
  OBVIOUS
<1> USE DEF TickInv, TypeOK, ListedOnce
<1>1. ASSUME NEW k \in PutKeys, Put(k) \/ Hook(k) \/ Forget(k)
      PROVE  TickInv'
  BY <1>1, StoreTickAssumption DEF Put, Hook, Forget, service, IsInjective
<1>2. ASSUME NEW k \in Keys, WaitQuery(k)
      PROVE  TickInv'
  BY <1>2, WaitQueryStep
<1>3. CASE Elapse
  BY <1>3 DEF Elapse, callers, IsInjective
<1>4. CASE Tick
  BY <1>4, TickStep
<1>5. ASSUME NEW w \in Workers, Start(w)
      PROVE  TickInv'
  <2>1. Head(tasks) \in Tasks /\ Tail(tasks) \in Seq(Tasks)
    BY <1>5, EmptySeq, HeadTailProperties DEF Start
  <2> QED
    BY <1>5, <2>1 DEF Start, callers, IsInjective
<1>6. ASSUME NEW w \in Workers, RunQuery(w)
      PROVE  TickInv'
  <2>1. doing' \in [Workers -> Tasks]
    BY <1>6, AdvanceTypes DEF RunQuery
  <2> QED
    BY <1>6, <2>1 DEF RunQuery, callers, IsInjective
<1>7. ASSUME NEW w \in Workers, RunForget(w)
      PROVE  TickInv'
  <2>1. doing' \in [Workers -> Tasks]
    BY <1>7, AdvanceTypes DEF RunForget
  <2> QED
    BY <1>7, <2>1 DEF RunForget, IsInjective
<1>8. CASE UNCHANGED vars
  BY <1>8 DEF vars, IsInjective
<1> QED
  BY <1>1, <1>2, <1>3, <1>4, <1>5, <1>6, <1>7, <1>8 DEF Next

LEMMA TickInvariant ==
  Spec => []TickInv
BY InitTickInv, NextTickInv, PTL DEF Spec

(* Every variable of the service side keeps its type and query_map_ is     *)
(* never fuller than waitquery lets it become.                             *)
THEOREM TickTypes ==
  Spec => []TypeOK
<1>1. TickInv => TypeOK
  BY DEF TickInv
<1> QED
  BY <1>1, TickInvariant, PTL

(* No key is in query_map_ or in forgetlist_ twice: neither pop_front with *)
(* its moved node nor the check doubles a key, so that a key is handed to  *)
(* a worker once for each time it was listed.                              *)
THEOREM KeysAreListedOnce ==
  Spec => []ListedOnce
<1>1. TickInv => ListedOnce
  BY DEF TickInv
<1> QED
  BY <1>1, TickInvariant, PTL
=============================================================================
