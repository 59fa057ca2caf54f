------------------------------- MODULE Kernel -------------------------------
(***************************************************************************)
(* The engine: Kernel::run starts the threads of the opened parts and then *)
(* works in its loop, Kernel::stop asks all of them to end, and the main   *)
(* thread waits for them before the program ends                           *)
(* (src/pf/core/src/engine/kernel.cc, application.cc, kernel.tcc and       *)
(* include/pf/sys/thread.tcc).                                             *)
(*                                                                         *)
(* stop() comes from the signal handler: it is a process of its own, which *)
(* the other threads overtake wherever they like.  --stop sends the signal *)
(* twice (process.cc:70-72).  What a thread works at, and what a task of   *)
(* the main loop does, is left out.                                        *)
(*                                                                         *)
(* enqueue works on tasks_ under a mutex, the main loop without: the one   *)
(* moves the end of a std::queue while the other moves its front.  The     *)
(* deque below keeps its tasks in nodes.  Its front and its end are words  *)
(* of their own, and enqueue stores a task before it moves the end.  Only  *)
(* the map of the nodes is shared: when a push has to move it while a pop  *)
(* unlinks a node the behaviour is undefined, and the model lets the       *)
(* program end or tasks get lost from then on.                             *)
(***************************************************************************)
EXTENDS Integers, Sequences

CONSTANTS
  NumThreads,  \* parts that are open: net, db, script, cache
  NodeSize,    \* tasks in a node of the deque (16)
  Offset,      \* places of the first node that tasks before these took
  MaxTasks,    \* bound: tasks that are enqueued
  MaxStops     \* bound: signals that call stop

ASSUME KernelAssumption ==
  /\ NumThreads \in Nat \ {0}
  /\ NodeSize \in Nat \ {0}
  /\ Offset \in Nat
  /\ MaxTasks \in Nat
  /\ MaxStops \in Nat

Threads == 1..NumThreads

VARIABLES
  main,        \* where the main thread is
  spawned,     \* size of thread_workers_
  pc,          \* where each thread is
  status,      \* "thread.status.<id>" of each thread
  collects,    \* "thread.collects"
  app,         \* "app.status"
  stopping,    \* stop_
  forceexit,   \* "app.forceexit", as the main thread finds it after its loop
  timedout,    \* the main thread waited for more than 30 seconds
  tasks,       \* tasks_, a task is the number of its enqueue, 0 moved from
  held,        \* task of the main loop, 0 when empty
  ran,         \* the tasks the main loop ran
  accepted,    \* tasks that were enqueued so far
  push,        \* where the enqueue is that has the mutex
  torn,        \* the map of tasks_ was moved while a node was unlinked
  stopper,     \* where the call of stop is
  stops,       \* calls of stop so far
  asked        \* a call of stop began when every thread was running

workers == <<spawned, pc, status, collects>>
loopvars == <<tasks, held, ran, accepted, push, torn>>
stopvars == <<stopping, stopper, stops, asked>>
exitvars == <<forceexit, timedout>>
vars == <<main, workers, app, exitvars, loopvars, stopvars>>

Idle == [at |-> "idle", thread |-> 1, last |-> 0]

(* The program is there: it has not exited and no exception ended it. *)
Alive == main \notin {"exited", "joined", "thrown"}

LoopPoints == {"loop", "front", "take", "pop", "unlink", "task"}

(* The engine runs: run() is in its loop, every thread is under way and no  *)
(* call of stop has taken effect.                                          *)
Running ==
  /\ main \in LoopPoints
  /\ app = "running"
  /\ \A t \in Threads : status[t] = "run"

-----------------------------------------------------------------------------

Init ==
  /\ main = "run"
  /\ spawned = 0
  /\ pc = [t \in Threads |-> "absent"]
  /\ status = [t \in Threads |-> "none"]
  /\ collects = 0
  /\ app = "stop"
  /\ stopping = FALSE
  /\ forceexit = FALSE
  /\ timedout = FALSE
  /\ tasks = <<>>
  /\ held = 0
  /\ ran = <<>>
  /\ accepted = 0
  /\ push = "idle"
  /\ torn = FALSE
  /\ stopper = Idle
  /\ stops = 0
  /\ asked = FALSE

(***************************************************************************)
(* Main thread: run, loop and the end of the program.                      *)
(***************************************************************************)

(* newthread, under the mutex of enqueue.  It throws once stop_ is set:    *)
(* nobody catches that.                                                    *)
NewThread ==
  /\ main = "run"
  /\ push = "idle"
  /\ spawned < NumThreads
  /\ IF stopping
     THEN main' = "thrown" /\ UNCHANGED <<spawned, pc>>
     ELSE /\ spawned' = spawned + 1
          /\ pc' = [pc EXCEPT ![spawned'] = "created"]
          /\ UNCHANGED main
  /\ UNCHANGED <<status, collects, app, exitvars, loopvars, stopvars>>

(* All threads are started: app.status becomes running, whatever it was. *)
SetRunning ==
  /\ main = "run"
  /\ spawned = NumThreads
  /\ app' = "running"
  /\ main' = "loop"
  /\ UNCHANGED <<workers, exitvars, loopvars, stopvars>>

LoopCheck ==
  /\ main = "loop"
  /\ main' = IF app = "stop" THEN "wait" ELSE "front"
  /\ UNCHANGED <<workers, app, exitvars, loopvars, stopvars>>

MutantLoopFront ==  \* the last task of the queue waits for another one
  /\ main = "front"
  /\ main' = IF Len(tasks) <= 1 THEN "loop" ELSE "take"
  /\ UNCHANGED <<workers, app, exitvars, loopvars, stopvars>>

(* empty(), without the mutex. *)
LoopFront ==
  /\ main = "front"
  /\ main' = IF tasks = <<>> THEN "loop" ELSE "take"
  /\ UNCHANGED <<workers, app, exitvars, loopvars, stopvars>>

(* front(): the task is moved out of the queue, its place stays. *)
LoopTake ==
  /\ main = "take"
  /\ held' = Head(tasks)
  /\ tasks' = <<0>> \o Tail(tasks)
  /\ main' = "pop"
  /\ UNCHANGED <<workers, app, exitvars, ran, accepted, push, torn, stopvars>>

(* The n-th task is the last one of its node. *)
EndsNode(n) == (n + Offset) % NodeSize = 0

Popped == accepted - Len(tasks)

MutantLoopPop ==  \* the place of the task stays in tasks_
  /\ main = "pop"
  /\ main' = "task"
  /\ UNCHANGED <<workers, app, exitvars, loopvars, stopvars>>

(* pop(): with the last task of a node it reads where the next node is. *)
LoopPop ==
  /\ main = "pop"
  /\ IF EndsNode(Popped + 1)
     THEN /\ main' = "unlink"
          /\ torn' = (torn \/ push = "move")
          /\ UNCHANGED tasks
     ELSE /\ main' = "task"
          /\ tasks' = Tail(tasks)
          /\ UNCHANGED torn
  /\ UNCHANGED <<workers, app, exitvars, held, ran, accepted, push, stopvars>>

(* The front goes on to the next node. *)
LoopUnlink ==
  /\ main = "unlink"
  /\ \/ main' = "task" /\ tasks' = Tail(tasks)
     \/ torn /\ main' = "thrown" /\ UNCHANGED tasks
     \/ torn /\ main' = "task" /\ \E n \in 1..Len(tasks) : tasks' = SubSeq(tasks, n + 1, Len(tasks))
  /\ UNCHANGED <<workers, app, exitvars, held, ran, accepted, push, torn, stopvars>>

(* The task runs, unless it is an empty function. *)
LoopTask ==
  /\ main = "task"
  /\ ran' = IF held = 0 THEN ran ELSE Append(ran, held)
  /\ held' = 0
  /\ main' = "loop"
  /\ UNCHANGED <<workers, app, exitvars, tasks, accepted, push, torn, stopvars>>

MutantWaitEnd ==  \* the main thread does not wait for the others
  /\ main = "wait"
  /\ timedout' \in {FALSE}
  /\ forceexit' \in BOOLEAN
  /\ main' = "left"
  /\ UNCHANGED <<workers, app, loopvars, stopvars>>

(* loop returns when no thread is counted or after 30 seconds.  Only then  *)
(* is app.forceexit of the configuration looked at.                        *)
WaitEnd ==
  /\ main = "wait"
  /\ timedout' \in {TRUE} \cup (IF collects <= 0 THEN {FALSE} ELSE {})
  /\ forceexit' \in BOOLEAN
  /\ main' = "left"
  /\ UNCHANGED <<workers, app, loopvars, stopvars>>

(* exit(0) takes the threads that are left with it; ~Kernel joins them. *)
Exit ==
  /\ main = "left"
  /\ forceexit
  /\ main' = "exited"
  /\ UNCHANGED <<workers, app, exitvars, loopvars, stopvars>>

Join ==
  /\ main = "left"
  /\ ~forceexit
  /\ \A t \in 1..spawned : pc[t] = "ended"
  /\ main' = "joined"
  /\ UNCHANGED <<workers, app, exitvars, loopvars, stopvars>>

MainStep ==
  \/ NewThread \/ SetRunning
  \/ LoopCheck \/ LoopFront \/ LoopTake \/ LoopPop \/ LoopUnlink \/ LoopTask
  \/ Exit \/ Join

(***************************************************************************)
(* A thread of newthread.                                                  *)
(***************************************************************************)

Go(t, from, to) ==
  /\ Alive
  /\ pc[t] = from
  /\ pc' = [pc EXCEPT ![t] = to]
  /\ UNCHANGED <<main, spawned, app, exitvars, loopvars, stopvars>>

(* thread::start *)
Start(t) ==
  /\ Go(t, "created", "started")
  /\ status' = [status EXCEPT ![t] = "run"]
  /\ UNCHANGED collects

MutantCollect(t) ==  \* the thread is not counted, as one without a ThreadCollect
  /\ Go(t, "started", "looping")
  /\ UNCHANGED <<status, collects>>

(* The ThreadCollect of the thread counts it. *)
Collect(t) ==
  /\ Go(t, "started", "looping")
  /\ collects' = collects + 1
  /\ UNCHANGED status

MutantCheckStop(t) ==  \* the thread does not look at its status
  /\ Go(t, "looping", "working")
  /\ UNCHANGED <<status, collects>>

CheckStop(t) ==
  /\ Go(t, "looping", IF status[t] = "stop" THEN "leaving" ELSE "working")
  /\ UNCHANGED <<status, collects>>

(* The part's tick; its result does not end the thread. *)
Work(t) ==
  /\ Go(t, "working", "looping")
  /\ UNCHANGED <<status, collects>>

(* ~ThreadCollect *)
Leave(t) ==
  /\ Go(t, "leaving", "ended")
  /\ collects' = collects - 1
  /\ UNCHANGED status

ThreadStep(t) == Start(t) \/ Collect(t) \/ CheckStop(t) \/ Work(t) \/ Leave(t)

(***************************************************************************)
(* Kernel::enqueue, of any thread, under the mutex.  It throws when stop_  *)
(* is set, which may be set again before the task is in the queue.         *)
(***************************************************************************)

EnqueueBegin ==
  /\ Alive
  /\ push = "idle"
  /\ ~stopping
  /\ accepted < MaxTasks
  /\ push' = "store"
  /\ UNCHANGED <<main, workers, app, exitvars, tasks, held, ran, accepted, torn, stopvars>>

(* The last task of a node takes a new node, for which the map may have no *)
(* room: it is moved, with the places of all nodes.                        *)
EnqueueMove ==
  /\ Alive
  /\ push = "store"
  /\ EndsNode(accepted + 1)
  /\ push' = "move"
  /\ torn' = (torn \/ main = "unlink")
  /\ UNCHANGED <<main, workers, app, exitvars, tasks, held, ran, accepted, stopvars>>

(* The task is stored, then the end moves and the mutex is given back. *)
EnqueueEnd ==
  /\ Alive
  /\ push # "idle"
  /\ accepted' = accepted + 1
  /\ tasks' = Append(tasks, accepted')
  /\ push' = "idle"
  /\ UNCHANGED <<main, workers, app, exitvars, held, ran, torn, stopvars>>

(***************************************************************************)
(* Kernel::stop, step by step.                                             *)
(***************************************************************************)

StopBegin ==
  /\ Alive
  /\ stopper.at = "idle"
  /\ stops < MaxStops
  /\ stops' = stops + 1
  /\ stopper' = [at |-> "read", thread |-> 1, last |-> spawned]
  /\ asked' = (asked \/ Running)
  /\ UNCHANGED <<main, workers, app, exitvars, loopvars, stopping>>

NextThread == [at |-> "read", thread |-> stopper.thread + 1, last |-> stopper.last]

(***************************************************************************)
(* The loop over thread_workers_ goes up to the end it had before.  A      *)
(* thread added to the vector meanwhile moves it, and the loop reads what  *)
(* it left behind: it may miss a thread that runs.                         *)
(***************************************************************************)
StopRead ==
  /\ Alive
  /\ stopper.at = "read"
  /\ stopper.thread <= stopper.last
  /\ \E saw \in {status[stopper.thread] = "run"}
                  \cup (IF spawned > stopper.last THEN {FALSE} ELSE {}) :
       stopper' = IF saw THEN [stopper EXCEPT !.at = "write"] ELSE NextThread
  /\ UNCHANGED <<main, workers, app, exitvars, loopvars, stopping, stops, asked>>

StopWrite ==
  /\ Alive
  /\ stopper.at = "write"
  /\ status' = [status EXCEPT ![stopper.thread] = "stop"]
  /\ stopper' = NextThread
  /\ UNCHANGED <<main, spawned, pc, collects, app, exitvars, loopvars, stopping,
                 stops, asked>>

StopStatus ==
  /\ Alive
  /\ stopper.at = "read"
  /\ stopper.thread > stopper.last
  /\ app' = "stop"
  /\ stopper' = [stopper EXCEPT !.at = "flag"]
  /\ UNCHANGED <<main, workers, exitvars, loopvars, stopping, stops, asked>>

StopFlag ==
  /\ Alive
  /\ stopper.at = "flag"
  /\ stopping' = TRUE
  /\ stopper' = Idle
  /\ UNCHANGED <<main, workers, app, exitvars, loopvars, stops, asked>>

StopStep == StopRead \/ StopWrite \/ StopStatus \/ StopFlag

Next ==
  \/ NewThread \/ SetRunning \/ WaitEnd \/ Exit \/ Join
  \/ LoopCheck \/ LoopFront \/ LoopTake \/ LoopPop \/ LoopUnlink \/ LoopTask
  \/ \E t \in Threads : Start(t) \/ Collect(t) \/ CheckStop(t) \/ Work(t) \/ Leave(t)
  \/ EnqueueBegin \/ EnqueueMove \/ EnqueueEnd
  \/ StopBegin \/ StopRead \/ StopWrite \/ StopStatus \/ StopFlag

Spec == Init /\ [][Next]_vars

(***************************************************************************)
(* The system schedules every thread; the handler and an enqueue run to    *)
(* their end.                                                              *)
(* Nobody has to call stop or enqueue.                                     *)
(***************************************************************************)
FairSpec ==
  /\ Spec
  /\ WF_vars(MainStep \/ WaitEnd)
  /\ \A t \in Threads : WF_vars(ThreadStep(t))
  /\ WF_vars(StopStep)
  /\ WF_vars(EnqueueEnd)

-----------------------------------------------------------------------------

TypeOK ==
  /\ main \in LoopPoints \cup {"run", "wait", "left", "exited", "joined", "thrown"}
  /\ spawned \in 0..NumThreads
  /\ pc \in [Threads -> {"absent", "created", "started", "looping", "working",
                         "leaving", "ended"}]
  /\ status \in [Threads -> {"none", "run", "stop"}]
  /\ collects \in 0..NumThreads
  /\ app \in {"running", "stop"}
  /\ stopping \in BOOLEAN
  /\ forceexit \in BOOLEAN
  /\ timedout \in BOOLEAN
  /\ tasks \in Seq(Nat)
  /\ held \in Nat
  /\ ran \in Seq(Nat)
  /\ accepted \in Nat
  /\ push \in {"idle", "store", "move"}
  /\ torn \in BOOLEAN
  /\ stopper \in [at : {"idle", "read", "write", "flag"}, thread : Nat, last : Nat]
  /\ stops \in Nat
  /\ asked \in BOOLEAN

(* What the main loop has of the queue: the task it took, and the queue    *)
(* without the place it took it from.                                      *)
InHand == IF held = 0 THEN <<>> ELSE <<held>>

Queued == IF main \in {"pop", "unlink"} THEN Tail(tasks) ELSE tasks

(* The main loop runs the tasks it was given in the order of their         *)
(* enqueue, none twice and none left out, though it looks at tasks_, takes *)
(* the first task and removes it without the lock enqueue holds: unless    *)
(* the map of the queue moved while a node was unlinked.                   *)
TasksInOrder == torn \/ ran \o InHand \o Queued = [n \in 1..accepted |-> n]

(* False: a push that moves the map and a pop that unlinks a node meet.    *)
NeverTorn == ~torn

(* Once stop was called on a running engine the main thread does not leave *)
(* before its time limit while a thread works, and no thread starts to     *)
(* work after it left.                                                     *)
NoWorkAfterLeaving ==
  asked /\ ~timedout /\ main \in {"left", "exited", "joined"}
    => \A t \in Threads : pc[t] # "working"

(* A stop of a running engine ends the program. *)
StopOfRunningEnds == asked ~> ~Alive

(* Every stop ends the program.  False: one that comes before run marks the *)
(* program running is forgotten, and a thread that has not started yet is   *)
(* not stopped.                                                             *)
StopEnds == stops > 0 ~> ~Alive

(* Tasks that are enqueued are run unless the main thread has left its loop *)
(* or the queue was torn: as no more than MaxTasks come, it has run all.    *)
TaskRuns ==
  accepted > Len(ran) ~>
    accepted = Len(ran) \/ torn \/ main \notin LoopPoints \cup {"run"}
=============================================================================
