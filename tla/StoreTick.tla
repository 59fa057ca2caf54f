------------------------------ MODULE StoreTick ------------------------------
(***************************************************************************)
(* The service side of the database cache: DBStore::tick, the lists it     *)
(* works off and the worker threads it hands queries and forgets to        *)
(* (src/pf/core/src/cache/db_store.cc).                                    *)
(*                                                                         *)
(* An item is the part of it that tick looks at: whether it is cached and  *)
(* whether its hook_time is above zero.  hook_time is a number of seconds  *)
(* from hook on and get_current_time packs a date into the bits of a       *)
(* number, so that any hook_time above zero is over at the next check.     *)
(* What query does to an item is in Store; here it is the step in which a  *)
(* worker carries it out.  A call is one step: Store says what the calls   *)
(* do to the slots.                                                        *)
(***************************************************************************)
EXTENDS Integers, Sequences, FiniteSets, SequencesExt

CONSTANTS
  Keys,       \* keys the program asks queries for
  PutKeys,    \* those of them it also puts into the cache
  Workers,    \* threads of workers_
  QueueSize,  \* nodes of query_map_
  MaxTasks    \* bound: tick does not run while this many tasks wait

ASSUME StoreTickAssumption ==
  /\ IsFiniteSet(Keys)
  /\ PutKeys \subseteq Keys
  /\ QueueSize \in Nat \ {0}
  /\ MaxTasks \in Nat

VARIABLES
  item,        \* per key: "absent", "plain" or "hooked"
  waiting,     \* the keys of query_map_ by node
  forgetlist,  \* forgetlist_
  due,         \* the last check is CACHE_SHARE_DEFAULT_MINUTES old
  tasks,       \* the task queue of workers_
  doing        \* what each worker does: "none" or the rest of its task

vars == <<item, waiting, forgetlist, due, tasks, doing>>

callers == <<item, waiting>>
service == <<forgetlist, due, tasks, doing>>

None == [key |-> "none", steps |-> <<>>]

QueryTask(k) == [key |-> k, steps |-> <<"query">>]

ForgetTask(k) == [key |-> k, steps |-> <<"query", "forget">>]

Hooked == {k \in Keys : item[k] = "hooked"}

-----------------------------------------------------------------------------

Init ==
  /\ item = [k \in Keys |-> "absent"]
  /\ waiting = <<>>
  /\ forgetlist = <<>>
  /\ due = TRUE
  /\ tasks = <<>>
  /\ doing = [w \in Workers |-> None]

(* put and forever of a key that is not cached, with room in its table. *)
Put(k) ==
  /\ item[k] = "absent"
  /\ item' = [item EXCEPT ![k] = "plain"]
  /\ UNCHANGED <<waiting, service>>

Hook(k) ==
  /\ item[k] # "absent"
  /\ item' = [item EXCEPT ![k] = "hooked"]
  /\ UNCHANGED <<waiting, service>>

(* forget called by the program itself. *)
Forget(k) ==
  /\ item[k] # "absent"
  /\ item' = [item EXCEPT ![k] = "absent"]
  /\ UNCHANGED <<waiting, service>>

MutantWaitQueryTwice(k) ==  \* the list takes a key it already holds
  /\ Len(waiting) # QueueSize - 1
  /\ waiting' = Append(waiting, k)
  /\ UNCHANGED <<item, service>>

MutantWaitQueryFull(k) ==  \* nor is it asked whether it is full
  /\ waiting' = Append(waiting, k)
  /\ UNCHANGED <<item, service>>

(* waitquery: a key that is already in query_map_ stays where it is. *)
WaitQuery(k) ==
  /\ Len(waiting) # QueueSize - 1
  /\ waiting' = IF Contains(waiting, k) THEN waiting ELSE Append(waiting, k)
  /\ UNCHANGED <<item, service>>

(* Ten minutes after the last check. *)
Elapse ==
  /\ ~due
  /\ due' = TRUE
  /\ UNCHANGED <<callers, forgetlist, tasks, doing>>

(***************************************************************************)
(* pop_front takes the first node, and Map::remove fills its place with    *)
(* the last one.                                                           *)
(***************************************************************************)
MutantPopTwo(q) ==  \* the last node goes without filling the first one's place
  IF Len(q) <= 2 THEN <<>> ELSE Front(Tail(q))

PopFront(q) == IF Len(q) <= 1 THEN <<>> ELSE Front([q EXCEPT ![1] = Last(q)])

MutantTickDropsForget ==  \* the forget is not handed to a worker
  LET left == IF forgetlist = <<>> THEN <<>> ELSE Front(forgetlist)
      queries == IF waiting = <<>> THEN <<>> ELSE <<QueryTask(Head(waiting))>>
      check == left = <<>> /\ due
  IN  /\ Len(tasks) < MaxTasks
      /\ waiting' = PopFront(waiting)
      /\ tasks' = tasks \o queries
      /\ due' = (due /\ ~check)
      /\ forgetlist' \in IF check THEN SetToSeqs(Hooked) ELSE {left}
      /\ UNCHANGED <<item, doing>>

(* One key to query, one to forget and, once the last check is old enough  *)
(* and no key is left to forget, the next check.                           *)
Tick ==
  LET queries == IF waiting = <<>> THEN <<>> ELSE <<QueryTask(Head(waiting))>>
      forgets == IF forgetlist = <<>> THEN <<>> ELSE <<ForgetTask(Last(forgetlist))>>
      left == IF forgetlist = <<>> THEN <<>> ELSE Front(forgetlist)
      check == left = <<>> /\ due
  IN  /\ Len(tasks) < MaxTasks
      /\ waiting' = PopFront(waiting)
      /\ tasks' = tasks \o queries \o forgets
      /\ due' = (due /\ ~check)
      /\ forgetlist' \in IF check THEN SetToSeqs(Hooked) ELSE {left}
      /\ UNCHANGED <<item, doing>>

(* A worker takes the first task of the queue. *)
Start(w) ==
  /\ doing[w] = None
  /\ tasks # <<>>
  /\ doing' = [doing EXCEPT ![w] = Head(tasks)]
  /\ tasks' = Tail(tasks)
  /\ UNCHANGED <<callers, forgetlist, due>>

Advance(w) ==
  doing' = [doing EXCEPT ![w] = IF Len(@.steps) = 1 THEN None
                                ELSE [key |-> @.key, steps |-> Tail(@.steps)]]

RunQuery(w) ==
  /\ doing[w] # None
  /\ Head(doing[w].steps) = "query"
  /\ Advance(w)
  /\ UNCHANGED <<callers, forgetlist, due, tasks>>

RunForget(w) ==
  /\ doing[w] # None
  /\ Head(doing[w].steps) = "forget"
  /\ item' = [item EXCEPT ![doing[w].key] = "absent"]
  /\ Advance(w)
  /\ UNCHANGED <<waiting, forgetlist, due, tasks>>

Work(w) == Start(w) \/ RunQuery(w) \/ RunForget(w)

Next ==
  \/ \E k \in PutKeys : Put(k) \/ Hook(k) \/ Forget(k)
  \/ \E k \in Keys : WaitQuery(k)
  \/ Elapse
  \/ Tick
  \/ \E w \in Workers : Start(w) \/ RunQuery(w) \/ RunForget(w)

Spec == Init /\ [][Next]_vars

(* The engine loop calls tick again and again, time passes and the system  *)
(* schedules the workers; nobody has to call the cache.                    *)
FairSpec ==
  /\ Spec
  /\ WF_vars(Elapse)
  /\ WF_vars(Tick)
  /\ \A w \in Workers : WF_vars(Work(w))

-----------------------------------------------------------------------------

Tasks == {None} \cup {QueryTask(k) : k \in Keys} \cup {ForgetTask(k) : k \in Keys}
         \cup {[key |-> k, steps |-> <<"forget">>] : k \in Keys}

TypeOK ==
  /\ item \in [Keys -> {"absent", "plain", "hooked"}]
  /\ waiting \in Seq(Keys)
  /\ Len(waiting) < QueueSize
  /\ forgetlist \in Seq(Keys)
  /\ due \in BOOLEAN
  /\ tasks \in Seq(Tasks)
  /\ doing \in [Workers -> Tasks]

(* A key stands in query_map_ and in forgetlist_ at most once: popping a   *)
(* key and moving the last one into its place loses and doubles none.      *)
ListedOnce ==
  /\ IsInjective(waiting)
  /\ IsInjective(forgetlist)

(* A key a caller put in query_map_ is queried by a worker, provided that  *)
(* the callers stop adding keys: pop_front moves the newest key to the     *)
(* front, so an older one may be passed over as long as new ones come.     *)
Querying(k) == \E w \in Workers : doing[w].key = k

WaitingIsQueried ==
  <>[][~\E k \in Keys : WaitQuery(k)]_vars
    => \A k \in Keys : Contains(waiting, k) ~> Querying(k)

(* An item whose time is over leaves the cache by the check, the forget    *)
(* list and a worker, unless the program takes it away or replaces it.     *)
HookedIsForgotten ==
  \A k \in Keys : item[k] = "hooked" ~> item[k] # "hooked"

(* forever stores an item "indefinitely": a worker only forgets an item    *)
(* whose time was set.                                                     *)
ForeverStays ==
  [][\A w \in Workers : RunForget(w) => item[doing[w].key] # "plain"]_vars
=============================================================================
