------------------------------ MODULE ShareLock ------------------------------
(***************************************************************************)
(* The lock of the shared memory: share::lock, share::unlock and the scope *)
(* guard unique_lock (src/pf/core/src/sys/memory/share.cc and share.h).    *)
(*                                                                         *)
(* The mutex is one atomic byte in a segment several processes attach.  It *)
(* holds the flag of its holder, or Free.  Both functions first look at    *)
(* the GLOBALS of the calling process and return at once when the process  *)
(* is stopped or runs in the recover model, and both leave their loop      *)
(* when the process stops; unlock writes its own flag over the mutex after *)
(* MaxTries failures.  The exchange is compare_exchange_weak, which may    *)
(* fail for no reason, so no failing step tests the mutex.                 *)
(***************************************************************************)
EXTENDS Integers

CONSTANTS
  Procs,        \* processes attached to the segment
  Threads,      \* their threads
  ProcOf,       \* the process of each thread
  Recovering,   \* processes whose app.cmdmodel is kCmdModelRecover
  Flags,        \* lock flags, kFlagSelfRead .. kFlagMax + 1
  Free,         \* kFlagFree
  MaxTries      \* failed exchanges unlock tolerates before it forces (100)

ASSUME ShareLockAssumption ==
  /\ ProcOf \in [Threads -> Procs]
  /\ Recovering \subseteq Procs
  /\ Free \notin Flags
  /\ MaxTries \in Nat

VARIABLES
  mutex,   \* the atomic in the segment: a flag or Free
  phase,   \* per process: before run(), between run() and stop(), after stop()
  pc,      \* where each thread is
  flag,    \* the flag_ of the thread's unique_lock
  tries,   \* the counter of the thread's unlock loop
  owns,    \* history: the exchange of the thread's lock call succeeded
  overrun  \* history: run() came while a thread was between lock and unlock

vars == <<mutex, phase, pc, flag, tries, owns, overrun>>

Phases == {"starting", "running", "stopped"}
Points == {"idle", "spin", "critical", "release"}

(* app.status is kAppStatusStop until Kernel::run and again after stop. *)
Stopped(t) == phase[ProcOf[t]] # "running"

(* The test both functions start with. *)
Bypassed(t) == ProcOf[t] \in Recovering \/ Stopped(t)

Goto(t, point) == pc' = [pc EXCEPT ![t] = point]

(* The destructor returns and the guard is gone. *)
Leave(t) ==
  /\ Goto(t, "idle")
  /\ flag' = [flag EXCEPT ![t] = Free]
  /\ tries' = [tries EXCEPT ![t] = 0]
  /\ owns' = [owns EXCEPT ![t] = FALSE]

-----------------------------------------------------------------------------

Init ==
  /\ mutex = Free
  /\ phase = [p \in Procs |-> "starting"]
  /\ pc = [t \in Threads |-> "idle"]
  /\ flag = [t \in Threads |-> Free]
  /\ tries = [t \in Threads |-> 0]
  /\ owns = [t \in Threads |-> FALSE]
  /\ overrun = FALSE

(* Kernel::run marks the process running after it has started the threads: *)
(* one of them may be in a section already that lock let it into untouched. *)
Run(p) ==
  /\ phase[p] = "starting"
  /\ phase' = [phase EXCEPT ![p] = "running"]
  /\ overrun' = (overrun \/ \E t \in Threads :
                    ProcOf[t] = p /\ p \notin Recovering /\ pc[t] # "idle")
  /\ UNCHANGED <<mutex, pc, flag, tries, owns>>

(* Kernel::stop. *)
Stop(p) ==
  /\ phase[p] = "running"
  /\ phase' = [phase EXCEPT ![p] = "stopped"]
  /\ UNCHANGED <<mutex, pc, flag, tries, owns, overrun>>

(* The constructor of unique_lock calls lock. *)
Lock(t, f) ==
  /\ pc[t] = "idle"
  /\ Goto(t, IF Bypassed(t) THEN "critical" ELSE "spin")
  /\ flag' = [flag EXCEPT ![t] = f]
  /\ UNCHANGED <<mutex, phase, tries, owns, overrun>>

(* The exchange in lock succeeds. *)
Acquire(t) ==
  /\ pc[t] = "spin"
  /\ mutex = Free
  /\ mutex' = flag[t]
  /\ owns' = [owns EXCEPT ![t] = TRUE]
  /\ Goto(t, "critical")
  /\ UNCHANGED <<phase, flag, tries, overrun>>

MutantSpinOn(t) ==  \* lock's loop does not look at app.status
  /\ pc[t] = "spin"
  /\ Stopped(t)
  /\ UNCHANGED vars

MutantGiveUp(t) ==  \* lock returns after a failed exchange
  /\ pc[t] = "spin"
  /\ Goto(t, "critical")
  /\ UNCHANGED <<mutex, phase, flag, tries, owns, overrun>>

(* The exchange in lock failed and the process has stopped. *)
LockBreak(t) ==
  /\ pc[t] = "spin"
  /\ Stopped(t)
  /\ Goto(t, "critical")
  /\ UNCHANGED <<mutex, phase, flag, tries, owns, overrun>>

MutantUnlockAlways(t) ==  \* unlock does not look at app.status first
  /\ pc[t] = "critical"
  /\ Goto(t, "release")
  /\ UNCHANGED <<mutex, phase, flag, tries, owns, overrun>>

MutantUnlockDropped(t) ==  \* the guard has no destructor
  /\ pc[t] = "critical"
  /\ Leave(t)
  /\ UNCHANGED <<mutex, phase, overrun>>

(* The destructor of unique_lock calls unlock, which returns at once when  *)
(* the process has stopped: a flag this thread set then stays in the mutex. *)
Unlock(t) ==
  /\ pc[t] = "critical"
  /\ IF Bypassed(t)
     THEN Leave(t)
     ELSE Goto(t, "release") /\ UNCHANGED <<flag, tries, owns>>
  /\ UNCHANGED <<mutex, phase, overrun>>

(* The exchange in unlock succeeds. *)
Release(t) ==
  /\ pc[t] = "release"
  /\ tries[t] <= MaxTries
  /\ mutex = flag[t]
  /\ mutex' = Free
  /\ Leave(t)
  /\ UNCHANGED <<phase, overrun>>

(* The exchange in unlock failed and the process has stopped. *)
UnlockBreak(t) ==
  /\ pc[t] = "release"
  /\ tries[t] <= MaxTries
  /\ Stopped(t)
  /\ Leave(t)
  /\ UNCHANGED <<mutex, phase, overrun>>

(* The exchange in unlock failed and the process runs: one more try. *)
Retry(t) ==
  /\ pc[t] = "release"
  /\ tries[t] <= MaxTries
  /\ ~Stopped(t)
  /\ tries' = [tries EXCEPT ![t] = @ + 1]
  /\ UNCHANGED <<mutex, phase, pc, flag, owns, overrun>>

MutantForceReturns(t) ==  \* unlock returns after too many tries
  /\ pc[t] = "release"
  /\ tries[t] > MaxTries
  /\ Leave(t)
  /\ UNCHANGED <<mutex, phase, overrun>>

MutantForceUncounted(t) ==  \* the counter is not reset
  /\ pc[t] = "release"
  /\ tries[t] > MaxTries
  /\ mutex' = flag[t]
  /\ tries' = [tries EXCEPT ![t] = @ + 1]
  /\ UNCHANGED <<phase, pc, flag, owns, overrun>>

(* Too many tries: "Not safe to unlock want". *)
ForceUnlock(t) ==
  /\ pc[t] = "release"
  /\ tries[t] > MaxTries
  /\ mutex' = flag[t]
  /\ tries' = [tries EXCEPT ![t] = 0]
  /\ UNCHANGED <<phase, pc, flag, owns, overrun>>

(* What a thread does on its own once it has called lock. *)
Step(t) ==
  \/ Acquire(t)
  \/ LockBreak(t)
  \/ Unlock(t)
  \/ Release(t)
  \/ UnlockBreak(t)
  \/ Retry(t)
  \/ ForceUnlock(t)

Next ==
  \/ \E p \in Procs : Run(p) \/ Stop(p)
  \/ \E t \in Threads, f \in Flags : Lock(t, f)
  \/ \E t \in Threads : Step(t)

Spec == Init /\ [][Next]_vars

(* The scheduler runs every thread, critical sections end, and a loop of    *)
(* compare_exchange_weak that keeps finding the expected value succeeds.    *)
(* Nothing makes a thread call lock, nor a process run or stop.             *)
Fairness ==
  \A t \in Threads :
    /\ WF_vars(Acquire(t))
    /\ WF_vars(LockBreak(t))
    /\ WF_vars(Unlock(t))
    /\ SF_vars(Release(t))
    /\ WF_vars(UnlockBreak(t))
    /\ WF_vars(ForceUnlock(t))

FairSpec == Spec /\ Fairness

-----------------------------------------------------------------------------

TypeOK ==
  /\ mutex \in Flags \cup {Free}
  /\ phase \in [Procs -> Phases]
  /\ pc \in [Threads -> Points]
  /\ flag \in [Threads -> Flags \cup {Free}]
  /\ tries \in [Threads -> 0 .. MaxTries + 1]
  /\ owns \in [Threads -> BOOLEAN]
  /\ overrun \in BOOLEAN

Inside(t) == pc[t] \in {"critical", "release"}

(* The thread has set its flag and not yet taken it back. *)
Owner(t) == owns[t] /\ Inside(t)

(* What unique_lock is for: of the threads whose process is up, at most one *)
(* is between lock and unlock of a mutex, whatever other processes that     *)
(* attach the segment do, stop in the middle of a section included.         *)
Exclusion ==
  \A t, u \in Threads :
    /\ pc[t] = "critical" /\ ~Bypassed(t)
    /\ pc[u] = "critical" /\ ~Bypassed(u)
    => t = u

(* Threads may lock before Kernel::run marks their process running: they    *)
(* pass untouched, and exclusion is safe as long as each of them is out     *)
(* again when run marks it.                                                 *)
ExclusionUntilOverrun == overrun \/ Exclusion

(* A flag stays in the mutex with no thread to take it back only if some    *)
(* process stopped: whoever wrote it, the forced exchange of a thread that  *)
(* never had the lock included, is still to come to its unlock and frees it. *)
LeftBehindByStop ==
  mutex # Free =>
    \/ \E t \in Threads : Inside(t) /\ ~Bypassed(t) /\ flag[t] = mutex
    \/ \E p \in Procs : phase[p] = "stopped"

(* A flag in the mutex is never overwritten, and only the thread that set   *)
(* it takes it back: the forced exchange of unlock (share.cc:360) takes no  *)
(* lock away from another thread, before run has overrun a section.         *)
OnlyOwnerReleases ==
  [][~overrun /\ mutex # Free /\ mutex' # mutex =>
       mutex' = Free /\ \E t \in Threads : Owner(t) /\ ~owns'[t]]_vars

(* A stopped process does not hang: each of its threads comes back from     *)
(* lock and unlock, even from a mutex nobody will free.                     *)
StopFreesThreads ==
  \A t \in Threads :
    pc[t] # "idle" /\ phase[ProcOf[t]] = "stopped" ~> pc[t] = "idle"

(* As long as no process stops, threads waiting for a mutex do not all wait *)
(* for ever.                                                                *)
SomeoneEnters ==
  (\E t \in Threads : pc[t] = "spin") ~>
    \/ \E t \in Threads : pc[t] = "critical"
    \/ \E p \in Procs : phase[p] = "stopped"
=============================================================================
