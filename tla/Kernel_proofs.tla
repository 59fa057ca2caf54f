--------------------------- MODULE Kernel_proofs ---------------------------
(***************************************************************************)
(* For any number of threads, tasks and calls of stop: the main thread     *)
(* leaves only when no thread works, and the tasks run in order until a    *)
(* push and a pop meet in the map of the queue.                            *)
(***************************************************************************)
EXTENDS Kernel, FiniteSetTheorems, TLAPS

Counting == {"looping", "working", "leaving"}

(* The threads that are counted. *)
Counted == {t \in Threads : pc[t] \in Counting}

Tallied == collects = Cardinality(Counted)

AllStopped == \A t \in Threads : status[t] = "stop"

(* A thread has a status as soon as it has started. *)
StatusInv ==
  /\ \A t \in Threads : status[t] = "none" <=> pc[t] \in {"absent", "created"}
  /\ \A t \in Threads : t > spawned => pc[t] = "absent"
  /\ main \notin {"run", "thrown"} => spawned = NumThreads

(* Where stop is in its loop. *)
StopperInv ==
  /\ stopper.last <= spawned
  /\ stopper.thread \in 1..(stopper.last + 1)
  /\ stopper.at = "write" =>
       /\ stopper.thread <= stopper.last
       /\ status[stopper.thread] # "none"

(* A stop of the running engine sees all threads and stops each, before it  *)
(* stops the main thread.                                                  *)
AskedInv ==
  asked =>
    /\ main # "run" /\ spawned = NumThreads
    /\ \A t \in Threads : status[t] # "none"
    /\ stopper.at \in {"read", "write"} =>
         /\ stopper.last = NumThreads
         /\ \A t \in Threads : t < stopper.thread => status[t] = "stop"
    /\ app = "stop" \/ stopper.at = "flag" \/ main \in {"wait", "left", "exited", "joined"}
         => AllStopped

TaskInv ==
  /\ TasksInOrder
  /\ main \in {"take", "pop", "unlink"} => tasks # <<>>
  /\ held # 0 => main \in {"pop", "unlink", "task"} \/ torn

(* The actions of the main thread after run, which touch neither the       *)
(* threads nor stop, and those of an enqueue.                              *)
LoopStep ==
  \/ SetRunning \/ LoopCheck \/ LoopFront \/ LoopTake \/ LoopPop \/ LoopUnlink
  \/ LoopTask \/ WaitEnd \/ Exit \/ Join

EnqueueStep == EnqueueBegin \/ EnqueueMove \/ EnqueueEnd

KernelInv ==
  /\ TypeOK
  /\ Tallied
  /\ StatusInv
  /\ StopperInv
  /\ AskedInv
  /\ TaskInv
  /\ NoWorkAfterLeaving

-----------------------------------------------------------------------------

LEMMA SetsOfThreads ==
  ASSUME NEW S \in SUBSET Threads
  PROVE  IsFiniteSet(S) /\ Cardinality(S) \in 0..NumThreads
<1>1. IsFiniteSet(Threads) /\ Cardinality(Threads) = NumThreads
  BY FS_Interval, KernelAssumption DEF Threads
<1>2. IsFiniteSet(S) /\ Cardinality(S) <= NumThreads
  BY <1>1, FS_Subset
<1>3. Cardinality(S) \in Nat
  BY <1>2, FS_CardinalityType
<1> QED
  BY <1>2, <1>3, KernelAssumption

LEMMA KernelInvInit == Init => KernelInv
<1> SUFFICES ASSUME Init PROVE KernelInv
  OBVIOUS
<1>1. TypeOK
  <2>1. stopper \in [at : {"idle", "read", "write", "flag"}, thread : Nat, last : Nat]
    BY DEF Init, Idle
  <2>2. /\ tasks \in Seq(Nat) /\ ran \in Seq(Nat) /\ held \in Nat /\ accepted \in Nat
        /\ push \in {"idle", "store", "move"}
    BY DEF Init
  <2>3. /\ stopping \in BOOLEAN /\ forceexit \in BOOLEAN /\ timedout \in BOOLEAN /\ asked \in BOOLEAN
        /\ torn \in BOOLEAN
    BY Zenon DEF Init
  <2>4. pc \in [Threads -> {"absent"}] /\ status \in [Threads -> {"none"}]
    BY DEF Init
  <2>5. spawned \in 0..NumThreads /\ collects \in 0..NumThreads /\ stops \in Nat
    BY KernelAssumption DEF Init
  <2> QED
    BY <2>1, <2>2, <2>3, <2>4, <2>5 DEF Init, TypeOK
<1>2. Counted = {}
  BY DEF Init, Counted, Counting
<1>3. Tallied
  BY <1>2, FS_EmptySet DEF Init, Tallied
<1>4. StatusInv
  BY KernelAssumption DEF Init, StatusInv, Threads
<1>6. StopperInv
  BY DEF Init, StopperInv, Idle
<1>7. AskedInv /\ NoWorkAfterLeaving
  BY DEF Init, AskedInv, NoWorkAfterLeaving
<1>5. TaskInv
  BY DEF Init, TaskInv, TasksInOrder, InHand, Queued
<1> QED
  BY <1>1, <1>3, <1>4, <1>5, <1>6, <1>7 DEF KernelInv

LEMMA StopperMoves ==
  ASSUME stopper \in [at : {"idle", "read", "write", "flag"}, thread : Nat, last : Nat]
  PROVE  /\ NextThread \in [at : {"idle", "read", "write", "flag"}, thread : Nat, last : Nat]
         /\ NextThread.at = "read"
         /\ NextThread.thread = stopper.thread + 1
         /\ NextThread.last = stopper.last
  BY DEF NextThread

(* A step that moves no thread into or out of the counted ones.            *)
LEMMA SameTally ==
  ASSUME Tallied, Counted' = Counted, UNCHANGED collects
  PROVE  Tallied'
  BY DEF Tallied

(* Every step keeps the count: only Collect and Leave move a thread into   *)
(* the counted ones or out of them.                                        *)
LEMMA TallyStep ==
  ASSUME KernelInv, [Next]_vars
  PROVE  Tallied'
<1> USE DEF KernelInv
<1>1. CASE NewThread
  <2>1. Counted' = Counted
    BY <1>1 DEF NewThread, Counted, Counting, TypeOK, StatusInv
  <2> QED
    BY <1>1, <2>1, SameTally DEF NewThread
<1>2. CASE \/ LoopStep \/ EnqueueStep
           \/ StopBegin \/ StopRead \/ StopWrite \/ StopStatus \/ StopFlag
           \/ UNCHANGED vars
  BY <1>2
  DEF LoopStep, SetRunning, LoopCheck, LoopFront, LoopTake, LoopPop, LoopUnlink, LoopTask,
      WaitEnd, Exit, Join, EnqueueStep, EnqueueBegin, EnqueueMove, EnqueueEnd, StopBegin,
      StopRead, StopWrite, StopStatus, StopFlag, Tallied, Counted, vars, workers
<1>3. ASSUME NEW t \in Threads, Start(t) \/ CheckStop(t) \/ Work(t) PROVE Tallied'
  <2>1. Counted' = Counted
    BY <1>3 DEF Start, CheckStop, Work, Go, Counted, Counting, TypeOK
  <2> QED
    BY <1>3, <2>1, SameTally DEF Start, CheckStop, Work
<1>4. ASSUME NEW t \in Threads, Collect(t) PROVE Tallied'
  <2>1. t \notin Counted /\ Counted' = Counted \cup {t}
    BY <1>4 DEF Collect, Go, Counted, Counting, TypeOK
  <2>2. Cardinality(Counted \cup {t}) = Cardinality(Counted) + 1
    BY <2>1, SetsOfThreads, FS_AddElement DEF Counted
  <2> QED
    BY <1>4, <2>1, <2>2 DEF Collect, Tallied
<1>5. ASSUME NEW t \in Threads, Leave(t) PROVE Tallied'
  <2>1. t \in Counted /\ Counted' = Counted \ {t}
    BY <1>5 DEF Leave, Go, Counted, Counting, TypeOK
  <2>2. Cardinality(Counted \ {t}) = Cardinality(Counted) - 1
    BY <2>1, SetsOfThreads, FS_RemoveElement DEF Counted
  <2> QED
    BY <1>5, <2>1, <2>2 DEF Leave, Tallied
<1> QED
  BY <1>1, <1>2, <1>3, <1>4, <1>5 DEF Next, LoopStep, EnqueueStep

LEMMA TypeStep ==
  ASSUME KernelInv, [Next]_vars
  PROVE  TypeOK'
<1> USE KernelAssumption DEF KernelInv
<1>1. collects' \in 0..NumThreads
  <2>1. Counted' \in SUBSET Threads
    BY DEF Counted
  <2> QED
    BY <2>1, SetsOfThreads, TallyStep DEF Tallied
<1>2. CASE NewThread
  BY <1>1, <1>2, SMTT(30) DEF NewThread, TypeOK, exitvars, loopvars, stopvars
<1>3. CASE SetRunning \/ LoopCheck \/ LoopFront
  BY <1>1, <1>3
  DEF SetRunning, LoopCheck, LoopFront, LoopPoints, TypeOK, workers, exitvars, loopvars, stopvars
<1>4. CASE WaitEnd \/ Exit \/ Join
  BY <1>1, <1>4, ZenonT(30) DEF WaitEnd, Exit, Join, TypeOK, workers, exitvars, loopvars, stopvars
<1>5. CASE LoopTake \/ LoopPop \/ LoopUnlink \/ LoopTask
  <2>1. main' \in LoopPoints \cup {"thrown"}
    BY <1>5 DEF LoopTake, LoopPop, LoopUnlink, LoopTask, LoopPoints
  <2>2. torn' \in BOOLEAN /\ UNCHANGED <<workers, app, exitvars, accepted, push, stopvars>>
    BY <1>5, Zenon DEF LoopTake, LoopPop, LoopUnlink, LoopTask, TypeOK
  <2>3. tasks' \in Seq(Nat) /\ held' \in Nat /\ ran' \in Seq(Nat)
    <3>1. CASE LoopTake
      BY <3>1 DEF LoopTake, TypeOK, TaskInv
    <3>2. CASE LoopPop
      <4>1. tasks' \in {tasks, Tail(tasks)} /\ UNCHANGED <<held, ran>> /\ tasks # <<>>
        BY <3>2 DEF LoopPop, TaskInv
      <4>2. tasks \in Seq(Nat) /\ held \in Nat /\ ran \in Seq(Nat)
        BY DEF TypeOK
      <4>3. Tail(tasks) \in Seq(Nat)
        BY <4>1, <4>2
      <4> QED
        BY <4>1, <4>2, <4>3
    <3>3. CASE LoopUnlink
      <4>1. \A n \in 1..Len(tasks) : SubSeq(tasks, n + 1, Len(tasks)) \in Seq(Nat)
        BY DEF TypeOK
      <4>2. Tail(tasks) \in Seq(Nat)
        BY <3>3 DEF LoopUnlink, TypeOK, TaskInv
      <4> QED
        BY <3>3, <4>1, <4>2 DEF LoopUnlink, TypeOK
    <3>4. CASE LoopTask
      BY <3>4 DEF LoopTask, TypeOK
    <3> QED
      BY <1>5, <3>1, <3>2, <3>3, <3>4
  <2> QED
    BY <1>1, <2>1, <2>2, <2>3 DEF TypeOK, workers, stopvars, exitvars
<1>6. ASSUME NEW t \in Threads, ThreadStep(t) PROVE TypeOK'
  BY <1>1, <1>6, ZenonT(40)
  DEF ThreadStep, Start, Collect, CheckStop, Work, Leave, Go, TypeOK, exitvars, loopvars,
      stopvars
<1>8. CASE EnqueueStep
  <2>1. torn' \in BOOLEAN
    BY <1>8, Zenon DEF EnqueueStep, EnqueueBegin, EnqueueMove, EnqueueEnd, TypeOK
  <2>2. /\ tasks' \in Seq(Nat) /\ accepted' \in Nat
        /\ push' \in {"idle", "store", "move"}
    <3>1. tasks \in Seq(Nat) /\ accepted \in Nat
      BY DEF TypeOK
    <3>2. CASE EnqueueBegin
      BY <3>1, <3>2 DEF EnqueueBegin
    <3>3. CASE EnqueueMove
      BY <3>1, <3>3 DEF EnqueueMove
    <3>4. CASE EnqueueEnd
      BY <3>1, <3>4 DEF EnqueueEnd
    <3> QED
      BY <1>8, <3>2, <3>3, <3>4 DEF EnqueueStep
  <2>3. UNCHANGED <<main, spawned, pc, status, app, stopping, forceexit, timedout, held, ran,
                    stopper, stops, asked>>
    BY <1>8
    DEF EnqueueStep, EnqueueBegin, EnqueueMove, EnqueueEnd, workers, stopvars, exitvars
  <2> QED
    BY <1>1, <2>1, <2>2, <2>3, ZenonT(30) DEF TypeOK
<1>9. CASE StopBegin
  <2>1. stopper' \in [at : {"idle", "read", "write", "flag"}, thread : Nat, last : Nat]
    <3>1. stopper' = [at |-> "read", thread |-> 1, last |-> spawned]
      BY <1>9 DEF StopBegin
    <3>2. spawned \in Nat
      BY DEF TypeOK
    <3> QED
      BY <3>1, <3>2
  <2> QED
    BY <1>1, <1>9, <2>1 DEF StopBegin, TypeOK, workers, loopvars, exitvars
<1>10. CASE StopRead
  <2>1. stopper' \in [at : {"idle", "read", "write", "flag"}, thread : Nat, last : Nat]
    <3>1. \/ stopper' = [stopper EXCEPT !.at = "write"]
          \/ stopper' = NextThread
      BY <1>10 DEF StopRead
    <3> QED
      BY <3>1, StopperMoves DEF TypeOK
  <2> QED
    BY <1>1, <1>10, <2>1 DEF StopRead, TypeOK, workers, loopvars, exitvars
<1>11. CASE StopWrite
  <2>1. stopper' \in [at : {"idle", "read", "write", "flag"}, thread : Nat, last : Nat]
    <3>1. stopper' = NextThread
      BY <1>11 DEF StopWrite
    <3> QED
      BY <3>1, StopperMoves DEF TypeOK
  <2> QED
    BY <1>1, <1>11, <2>1 DEF StopWrite, TypeOK, loopvars, exitvars
<1>12. CASE StopStatus \/ StopFlag
  <2>1. stopper' \in [at : {"idle", "read", "write", "flag"}, thread : Nat, last : Nat]
    BY <1>12 DEF StopStatus, StopFlag, Idle, TypeOK
  <2> QED
    BY <1>1, <1>12, <2>1 DEF StopStatus, StopFlag, TypeOK, workers, loopvars, exitvars
<1>7. CASE UNCHANGED vars
  BY <1>7 DEF TypeOK, vars, workers, loopvars, stopvars, exitvars
<1> QED
  BY <1>2, <1>3, <1>4, <1>5, <1>6, <1>7, <1>8, <1>9, <1>10, <1>11, <1>12 DEF Next, ThreadStep, LoopStep, EnqueueStep

LEMMA LoopStepLeaves ==
  ASSUME LoopStep
  PROVE  UNCHANGED <<workers, stopvars>>
  BY DEF LoopStep, SetRunning, LoopCheck, LoopFront, LoopTake, LoopPop, LoopUnlink, LoopTask,
      WaitEnd, Exit, Join, exitvars

LEMMA ThreadStepLeaves ==
  ASSUME NEW t \in Threads, ThreadStep(t)
  PROVE  UNCHANGED <<main, spawned, app, exitvars, loopvars, stopvars>>
  BY DEF ThreadStep, Start, Collect, CheckStop, Work, Leave, Go

LEMMA StatusStep ==
  ASSUME KernelInv, [Next]_vars
  PROVE  StatusInv'
<1> USE KernelAssumption DEF KernelInv
<1>1. CASE NewThread
  <2>1. UNCHANGED status /\ main = "run" /\ main' \in {"run", "thrown"}
    BY <1>1 DEF NewThread
  <2>2. CASE stopping
    BY <1>1, <2>1, <2>2 DEF NewThread, StatusInv
  <2>3. CASE ~stopping
    <3>1. spawned' = spawned + 1 /\ spawned' \in Threads
      BY <1>1, <2>3 DEF NewThread, TypeOK, Threads
    <3>2. pc' = [pc EXCEPT ![spawned + 1] = "created"] /\ pc[spawned + 1] = "absent"
      BY <1>1, <2>3, <3>1 DEF NewThread, TypeOK, StatusInv, Threads
    <3>3. \A u \in Threads : status[u] = "none" <=> pc'[u] \in {"absent", "created"}
      BY <3>1, <3>2 DEF StatusInv, TypeOK
    <3>4. \A u \in Threads : u > spawned + 1 => pc'[u] = "absent"
      BY <3>1, <3>2 DEF StatusInv, TypeOK, Threads
    <3> QED
      BY <2>1, <3>1, <3>3, <3>4 DEF StatusInv
  <2> QED
    BY <2>2, <2>3
<1>2. CASE LoopStep
  <2>1. main' \notin {"run", "thrown"} => spawned = NumThreads
    BY <1>2
    DEF LoopStep, SetRunning, LoopCheck, LoopFront, LoopTake, LoopPop, LoopUnlink, LoopTask,
      WaitEnd, Exit, Join, StatusInv
  <2> QED
    BY <1>2, <2>1, LoopStepLeaves DEF StatusInv, workers
<1>3. ASSUME NEW t \in Threads, ThreadStep(t) PROVE StatusInv'
  <2>1. UNCHANGED <<main, spawned>>
    BY <1>3, ThreadStepLeaves
  <2>2. \A u \in Threads : status'[u] = "none" <=> pc'[u] \in {"absent", "created"}
    BY <1>3, SMTT(30) DEF ThreadStep, Start, Collect, CheckStop, Work, Leave, Go, StatusInv, TypeOK
  <2>3. \A u \in Threads : u > spawned => pc'[u] = "absent"
    BY <1>3 DEF ThreadStep, Start, Collect, CheckStop, Work, Leave, Go, StatusInv, TypeOK
  <2> QED
    BY <2>1, <2>2, <2>3 DEF StatusInv
<1>4. CASE StopWrite
  <2>1. UNCHANGED <<main, spawned, pc>>
    BY <1>4 DEF StopWrite
  <2>2. \A u \in Threads : status'[u] = "none" <=> status[u] = "none"
    BY <1>4 DEF StopWrite, StopperInv, TypeOK
  <2> QED
    BY <2>1, <2>2 DEF StatusInv
<1>5. CASE EnqueueStep \/ StopBegin \/ StopRead \/ StopStatus \/ StopFlag \/ UNCHANGED vars
  BY <1>5
  DEF EnqueueStep, EnqueueBegin, EnqueueMove, EnqueueEnd, StopBegin, StopRead, StopStatus, StopFlag, StatusInv, workers, vars
<1> QED
  BY <1>1, <1>2, <1>3, <1>4, <1>5 DEF Next, ThreadStep, LoopStep, EnqueueStep

LEMMA StopperStep ==
  ASSUME KernelInv, [Next]_vars
  PROVE  StopperInv'
<1> USE KernelAssumption DEF KernelInv
<1>1. CASE NewThread
  BY <1>1 DEF NewThread, StopperInv, TypeOK, stopvars
<1>2. CASE LoopStep
  BY <1>2, LoopStepLeaves DEF StopperInv, workers, stopvars
<1>3. ASSUME NEW t \in Threads, ThreadStep(t) PROVE StopperInv'
  <2>1. UNCHANGED <<spawned, stopper>>
    BY <1>3, ThreadStepLeaves DEF stopvars
  <2>2. \A u \in Threads : status[u] # "none" => status'[u] # "none"
    BY <1>3 DEF ThreadStep, Start, Collect, CheckStop, Work, Leave, Go, TypeOK
  <2>3. stopper.at = "write" => stopper.thread \in Threads
    BY DEF StopperInv, TypeOK, Threads
  <2> QED
    BY <2>1, <2>2, <2>3 DEF StopperInv
<1>4. CASE StopBegin
  <2>1. stopper' = [at |-> "read", thread |-> 1, last |-> spawned] /\ UNCHANGED spawned
    BY <1>4 DEF StopBegin, workers
  <2> QED
    BY <2>1 DEF StopperInv, TypeOK
<1>5. CASE StopRead
  <2>1. UNCHANGED <<spawned, status>>
    BY <1>5 DEF StopRead, workers
  <2>2. \/ /\ stopper' = [stopper EXCEPT !.at = "write"]
           /\ status[stopper.thread] = "run"
        \/ stopper' = NextThread
    BY <1>5 DEF StopRead
  <2>3. stopper.thread <= stopper.last
    BY <1>5 DEF StopRead
  <2>4. CASE stopper' = NextThread
    BY <2>1, <2>3, <2>4, StopperMoves DEF StopperInv, TypeOK
  <2>5. CASE stopper' = [stopper EXCEPT !.at = "write"] /\ status[stopper.thread] = "run"
    <3>1. stopper'.thread = stopper.thread /\ stopper'.last = stopper.last
      BY <2>5 DEF TypeOK
    <3> QED
      BY <2>1, <2>3, <2>5, <3>1 DEF StopperInv
  <2> QED
    BY <2>2, <2>4, <2>5
<1>6. CASE StopWrite
  <2>1. stopper' = NextThread /\ UNCHANGED spawned
    BY <1>6 DEF StopWrite
  <2>2. stopper.thread <= stopper.last
    BY <1>6 DEF StopWrite, StopperInv
  <2> QED
    BY <2>1, <2>2, StopperMoves DEF StopperInv, TypeOK
<1>7. CASE StopStatus
  BY <1>7 DEF StopStatus, StopperInv, TypeOK, workers
<1>8. CASE StopFlag
  <2>1. stopper' = [at |-> "idle", thread |-> 1, last |-> 0] /\ UNCHANGED spawned
    BY <1>8 DEF StopFlag, Idle, workers
  <2> QED
    BY <2>1 DEF StopperInv, TypeOK
<1>9. CASE EnqueueStep \/ UNCHANGED vars
  BY <1>9 DEF EnqueueStep, EnqueueBegin, EnqueueMove, EnqueueEnd, StopperInv, workers, stopvars, vars
<1> QED
  BY <1>1, <1>2, <1>3, <1>4, <1>5, <1>6, <1>7, <1>8, <1>9 DEF Next, ThreadStep, LoopStep, EnqueueStep

(* A step of a thread never brings one that stops back.                    *)
LEMMA ThreadStepStatus ==
  ASSUME KernelInv, NEW t \in Threads, ThreadStep(t)
  PROVE  \A u \in Threads : /\ status[u] # "none" => status'[u] = status[u]
                            /\ status'[u] # "none" \/ status[u] = "none"
  BY DEF KernelInv, StatusInv, ThreadStep, Start, Collect, CheckStop, Work, Leave, Go, TypeOK

LEMMA AskedStep ==
  ASSUME KernelInv, [Next]_vars
  PROVE  AskedInv'
<1> USE KernelAssumption DEF KernelInv
<1>1. CASE NewThread
  BY <1>1 DEF NewThread, AskedInv, AllStopped, stopvars
<1>2. CASE LoopStep
  <2>1. UNCHANGED <<status, spawned, stopper, asked>>
    BY <1>2, LoopStepLeaves DEF workers, stopvars
  <2>2. main # "run" =>
          /\ main' # "run"
          /\ UNCHANGED app
          /\ main' \in {"wait", "left", "exited", "joined"}
               => app = "stop" \/ main \in {"wait", "left", "exited", "joined"}
    BY <1>2 DEF LoopStep, SetRunning, LoopCheck, LoopFront, LoopTake, LoopPop, LoopUnlink, LoopTask,
      WaitEnd, Exit, Join
  <2> QED
    BY <2>1, <2>2 DEF AskedInv, AllStopped
<1>3. ASSUME NEW t \in Threads, ThreadStep(t) PROVE AskedInv'
  <2>1. UNCHANGED <<main, app, spawned, stopper, asked>>
    BY <1>3, ThreadStepLeaves DEF stopvars
  <2> QED
    BY <1>3, <2>1, ThreadStepStatus DEF AskedInv, AllStopped
<1>4. CASE StopBegin
  <2>1. stopper' = [at |-> "read", thread |-> 1, last |-> spawned]
    BY <1>4 DEF StopBegin
  <2>2. UNCHANGED <<main, app, status, spawned>>
    BY <1>4 DEF StopBegin, workers
  <2>3. CASE asked
    BY <2>1, <2>2, <2>3 DEF AskedInv, AllStopped, StatusInv, Threads
  <2>4. CASE ~asked /\ asked'
    <3>1. Running
      BY <1>4, <2>4 DEF StopBegin
    <3> QED
      BY <2>1, <2>2, <3>1 DEF Running, LoopPoints, AskedInv, StatusInv, Threads
  <2> QED
    BY <2>3, <2>4, <1>4 DEF AskedInv
<1>5. CASE StopRead
  <2>1. UNCHANGED <<main, app, status, spawned, asked>>
    BY <1>5 DEF StopRead, workers
  <2> SUFFICES ASSUME asked PROVE AskedInv'
    BY <2>1 DEF AskedInv
  <2>2. /\ stopper.at = "read" /\ stopper.last = NumThreads /\ spawned = NumThreads
        /\ stopper.thread \in Threads
    BY <1>5 DEF StopRead, AskedInv, StatusInv, StopperInv, TypeOK, Threads
  <2>3. \/ stopper' = [stopper EXCEPT !.at = "write"]
        \/ stopper' = NextThread /\ status[stopper.thread] = "stop"
    <3>1. ~(spawned > stopper.last)
      BY <2>2
    <3>2. stopper' = IF status[stopper.thread] = "run"
                     THEN [stopper EXCEPT !.at = "write"] ELSE NextThread
      <4>1. PICK saw \in {status[stopper.thread] = "run"} :
              stopper' = IF saw THEN [stopper EXCEPT !.at = "write"] ELSE NextThread
        BY <1>5, <3>1, Zenon DEF StopRead
      <4> QED
        BY <4>1, Zenon
    <3>3. status[stopper.thread] \in {"none", "run", "stop"}
      BY <2>2 DEF TypeOK
    <3>4. status[stopper.thread] # "none"
      BY <2>2 DEF AskedInv
    <3> QED
      BY <3>2, <3>3, <3>4
  <2>4. CASE stopper' = [stopper EXCEPT !.at = "write"]
    <3>1. stopper'.at = "write" /\ stopper'.thread = stopper.thread /\ stopper'.last = stopper.last
      BY <2>4 DEF TypeOK
    <3> QED
      BY <2>1, <2>2, <3>1 DEF AskedInv, AllStopped
  <2>5. CASE stopper' = NextThread /\ status[stopper.thread] = "stop"
    BY <2>1, <2>2, <2>5, StopperMoves DEF AskedInv, AllStopped, TypeOK, Threads
  <2> QED
    BY <2>3, <2>4, <2>5
<1>6. CASE StopWrite
  <2>1. stopper' = NextThread /\ UNCHANGED <<main, app, spawned, asked>>
    BY <1>6 DEF StopWrite
  <2>2. \A u \in Threads :
          status'[u] = IF u = stopper.thread THEN "stop" ELSE status[u]
    BY <1>6 DEF StopWrite, TypeOK
  <2>3. stopper.at = "write"
    BY <1>6 DEF StopWrite
  <2> QED
    BY <2>1, <2>2, <2>3, StopperMoves DEF AskedInv, AllStopped, TypeOK, Threads
<1>7. CASE StopStatus
  <2>1. UNCHANGED <<main, status, spawned, asked>> /\ stopper'.at = "flag"
    BY <1>7 DEF StopStatus, TypeOK, workers
  <2>2. asked => AllStopped
    BY <1>7 DEF StopStatus, AskedInv, AllStopped, TypeOK, Threads
  <2> QED
    BY <2>1, <2>2 DEF AskedInv, AllStopped
<1>8. CASE StopFlag
  BY <1>8 DEF StopFlag, Idle, AskedInv, AllStopped, workers
<1>9. CASE EnqueueStep \/ UNCHANGED vars
  BY <1>9 DEF EnqueueStep, EnqueueBegin, EnqueueMove, EnqueueEnd, AskedInv, AllStopped, workers, stopvars, vars
<1> QED
  BY <1>1, <1>2, <1>3, <1>4, <1>5, <1>6, <1>7, <1>8, <1>9 DEF Next, ThreadStep, LoopStep, EnqueueStep

LEMMA TaskStep ==
  ASSUME KernelInv, [Next]_vars
  PROVE  TaskInv'
<1> USE DEF KernelInv
<1>0. /\ tasks \in Seq(Nat) /\ ran \in Seq(Nat) /\ held \in Nat /\ accepted \in Nat
      /\ torn \in BOOLEAN
  BY DEF TypeOK
<1>1. CASE LoopTake
  <2>1. tasks # <<>> /\ main = "take" /\ main' = "pop" /\ UNCHANGED <<ran, accepted, torn>>
        /\ held' = Head(tasks) /\ tasks' = <<0>> \o Tail(tasks)
    BY <1>1 DEF LoopTake, TaskInv
  <2>2. Tail(tasks') = Tail(tasks) /\ tasks' # <<>>
    BY <1>0, <2>1
  <2>3. ASSUME ~torn PROVE ran \o InHand' \o Queued' = [n \in 1..accepted |-> n]
    <3>1. ran \o tasks = [n \in 1..accepted |-> n]
      <4>1. held = 0
        BY <2>1, <2>3 DEF TaskInv
      <4>2. ran \o <<>> = ran
        BY <1>0
      <4> QED
        BY <2>1, <2>3, <4>1, <4>2 DEF TaskInv, TasksInOrder, InHand, Queued
    <3>2. (ran \o tasks)[Len(ran) + 1] = Head(tasks) /\ Len(ran) + 1 \in 1..Len(ran \o tasks)
      BY <1>0, <2>1
    <3>3. Head(tasks) = Len(ran) + 1 /\ Head(tasks) # 0
      <4>1. DOMAIN (ran \o tasks) = 1..Len(ran \o tasks)
        BY <1>0
      <4>2. Len(ran) + 1 \in 1..accepted
        BY <3>1, <3>2, <4>1
      <4> QED
        BY <1>0, <3>1, <3>2, <4>2
    <3>4. InHand' = <<Head(tasks)>> /\ Queued' = Tail(tasks)
      BY <2>1, <2>2, <3>3 DEF InHand, Queued
    <3>5. ran \o <<Head(tasks)>> \o Tail(tasks) = ran \o tasks
      BY <1>0, <2>1, SMTT(30)
    <3> QED
      BY <3>1, <3>4, <3>5
  <2> QED
    BY <2>1, <2>2, <2>3 DEF TaskInv, TasksInOrder
<1>2. CASE LoopPop
  <2>1. main = "pop" /\ UNCHANGED <<ran, held, accepted>> /\ tasks # <<>>
        /\ InHand' = InHand
    BY <1>2 DEF LoopPop, TaskInv, InHand
  <2>2. torn => torn'
    BY <1>2 DEF LoopPop
  <2>3. Queued' = Queued /\ main' \in {"unlink", "task"} /\ (main' = "unlink" => tasks' # <<>>)
    BY <1>2, <2>1 DEF LoopPop, Queued
  <2> QED
    BY <2>1, <2>2, <2>3 DEF TaskInv, TasksInOrder
<1>3. CASE LoopUnlink
  <2>1. main = "unlink" /\ UNCHANGED <<ran, held, accepted, torn>> /\ main' \in {"task", "thrown"}
        /\ InHand' = InHand
    BY <1>3 DEF LoopUnlink, InHand
  <2>2. torn \/ (main' = "task" /\ Queued' = Queued)
    BY <1>3 DEF LoopUnlink, Queued
  <2> QED
    BY <2>1, <2>2 DEF TaskInv, TasksInOrder
<1>4. CASE LoopTask
  <2>1. main = "task" /\ main' = "loop" /\ UNCHANGED <<tasks, accepted, torn>> /\ held' = 0
        /\ ran' = (IF held = 0 THEN ran ELSE Append(ran, held))
    BY <1>4 DEF LoopTask
  <2>2. InHand' = <<>> /\ Queued' = Queued
    BY <2>1 DEF InHand, Queued
  <2>3. ran' \o <<>> = ran \o InHand
    <3>1. CASE held = 0
      BY <2>1, <3>1 DEF InHand
    <3>2. CASE held # 0
      BY <1>0, <2>1, <3>2 DEF InHand
    <3> QED
      BY <3>1, <3>2
  <2> QED
    BY <2>1, <2>2, <2>3 DEF TaskInv, TasksInOrder
<1>5. CASE EnqueueEnd
  <2>1. tasks' = Append(tasks, accepted + 1) /\ accepted' = accepted + 1
        /\ UNCHANGED <<main, ran, held, torn>> /\ InHand' = InHand
    BY <1>5 DEF EnqueueEnd, InHand
  <2>2. tasks' # <<>>
    BY <1>0, <2>1
  <2>3. Queued \in Seq(Nat) /\ Queued' = Append(Queued, accepted + 1)
    BY <1>0, <2>1 DEF Queued, TaskInv
  <2>4. ran \o InHand \in Seq(Nat)
    BY <1>0 DEF InHand
  <2>5. ran \o InHand \o Queued' = Append(ran \o InHand \o Queued, accepted + 1)
    <3> HIDE DEF InHand, Queued
    <3> QED
      BY <1>0, <2>3, <2>4, SMTT(30)
  <2>6. Append([m \in 1..accepted |-> m], accepted + 1) = [m \in 1..(accepted + 1) |-> m]
    BY <1>0
  <2> QED
    BY <2>1, <2>2, <2>5, <2>6 DEF TaskInv, TasksInOrder
<1>6. CASE \/ NewThread \/ SetRunning \/ LoopCheck \/ LoopFront \/ WaitEnd \/ Exit \/ Join
           \/ EnqueueBegin \/ EnqueueMove
           \/ StopBegin \/ StopRead \/ StopWrite \/ StopStatus \/ StopFlag \/ UNCHANGED vars
  <2>1. UNCHANGED <<tasks, held, ran, accepted>>
    BY <1>6
    DEF NewThread, SetRunning, LoopCheck, LoopFront, WaitEnd, Exit, Join, EnqueueBegin,
        EnqueueMove, StopBegin, StopRead, StopWrite, StopStatus, StopFlag, vars, loopvars
  <2>0. torn => torn'
    <3>1. CASE EnqueueMove
      BY <3>1 DEF EnqueueMove
    <3>2. CASE EnqueueBegin
      BY <3>2 DEF EnqueueBegin
    <3>3. CASE UNCHANGED torn
      BY <3>3
    <3> QED
      BY <1>6, <3>1, <3>2, <3>3
      DEF NewThread, SetRunning, LoopCheck, LoopFront, WaitEnd, Exit, Join, StopBegin,
          StopRead, StopWrite, StopStatus, StopFlag, vars, loopvars
  <2>2. \/ main' = main
        \/ /\ main \notin {"take", "pop", "unlink", "task"}
           /\ main' \notin {"pop", "unlink"}
           /\ main' = "take" => tasks # <<>>
    BY <1>6
    DEF NewThread, SetRunning, LoopCheck, LoopFront, WaitEnd, Exit, Join, EnqueueBegin,
        EnqueueMove, StopBegin, StopRead, StopWrite, StopStatus, StopFlag, vars
  <2>3. InHand' = InHand /\ Queued' = Queued
    BY <2>1, <2>2 DEF InHand, Queued
  <2> QED
    BY <2>0, <2>1, <2>2, <2>3 DEF TaskInv, TasksInOrder
<1>7. ASSUME NEW t \in Threads, ThreadStep(t) PROVE TaskInv'
  BY <1>7, ThreadStepLeaves DEF loopvars, TaskInv, TasksInOrder, InHand, Queued
<1> QED
  BY <1>1, <1>2, <1>3, <1>4, <1>5, <1>6, <1>7 DEF Next, ThreadStep

(* The main thread leaves on time only when no thread is counted, and a    *)
(* thread that is counted later has been stopped before.                   *)
LEMMA NoWorkStep ==
  ASSUME KernelInv, [Next]_vars
  PROVE  NoWorkAfterLeaving'
<1> USE DEF KernelInv
<1>1. CASE WaitEnd
  <2> SUFFICES ASSUME ~timedout', NEW t \in Threads, pc[t] = "working" PROVE FALSE
    BY <1>1 DEF WaitEnd, NoWorkAfterLeaving, workers
  <2>1. collects <= 0
    BY <1>1 DEF WaitEnd
  <2>2. Counted \in SUBSET Threads /\ t \in Counted
    BY DEF Counted, Counting
  <2>3. IsFiniteSet(Counted) /\ Cardinality(Counted) = 0
    BY <2>1, <2>2, SetsOfThreads, KernelAssumption DEF Tallied
  <2> QED
    BY <2>2, <2>3, FS_EmptySet
<1>2. ASSUME NEW t \in Threads, ThreadStep(t) PROVE NoWorkAfterLeaving'
  <2> SUFFICES ASSUME asked, ~timedout, main \in {"left", "exited", "joined"}
               PROVE  \A u \in Threads : pc'[u] # "working"
    BY <1>2, ThreadStepLeaves DEF NoWorkAfterLeaving, exitvars, stopvars
  <2>1. AllStopped
    BY DEF AskedInv
  <2> QED
    BY <1>2, <2>1
    DEF ThreadStep, Start, Collect, CheckStop, Work, Leave, Go, AllStopped, TypeOK,
        NoWorkAfterLeaving
<1>3. CASE StopBegin
  BY <1>3 DEF StopBegin, Running, LoopPoints, NoWorkAfterLeaving, workers, exitvars
<1>4. CASE \/ NewThread \/ SetRunning \/ LoopCheck \/ LoopFront \/ LoopTake \/ LoopPop
           \/ LoopUnlink \/ LoopTask
  BY <1>4
  DEF NewThread, SetRunning, LoopCheck, LoopFront, LoopTake, LoopPop, LoopUnlink, LoopTask,
      NoWorkAfterLeaving
<1>5. CASE Exit \/ Join
  BY <1>5 DEF Exit, Join, NoWorkAfterLeaving, workers, exitvars, stopvars
<1>6. CASE EnqueueStep \/ StopRead \/ StopWrite \/ StopStatus \/ StopFlag \/ UNCHANGED vars
  BY <1>6
  DEF EnqueueStep, EnqueueBegin, EnqueueMove, EnqueueEnd, StopRead, StopWrite, StopStatus, StopFlag, vars, NoWorkAfterLeaving, workers,
      exitvars, stopvars
<1> QED
  BY <1>1, <1>2, <1>3, <1>4, <1>5, <1>6 DEF Next, ThreadStep, LoopStep, EnqueueStep

(* The inductive invariant: who is counted, what a thread's status says of  *)
(* where it is, and how far a stop has come.                               *)
THEOREM KernelInvariant == Spec => []KernelInv
<1>1. KernelInv /\ [Next]_vars => KernelInv'
  BY TypeStep, TallyStep, StatusStep, StopperStep, AskedStep, TaskStep, NoWorkStep
  DEF KernelInv
<1> QED
  BY <1>1, KernelInvInit, PTL DEF Spec

-----------------------------------------------------------------------------

(* The type invariant, for any number of threads; its bound on the count of *)
(* threads is that ThreadCollect never counts one twice.                   *)
THEOREM KernelTypes == Spec => []TypeOK
  BY KernelInvariant, PTL DEF KernelInv

(* Tasks run in the order of their enqueue, whoever enqueues and whenever  *)
(* the engine is stopped, though the main loop takes no mutex, until a push *)
(* that moves the map of the queue meets a pop that unlinks a node.        *)
THEOREM TasksRunInOrder == Spec => []TasksInOrder
  BY KernelInvariant, PTL DEF KernelInv, TaskInv

(* After a stop of the running engine the main thread does not leave       *)
(* before its time limit while a thread works.                             *)
THEOREM MainWaitsForWork == Spec => []NoWorkAfterLeaving
  BY KernelInvariant, PTL DEF KernelInv
=============================================================================
