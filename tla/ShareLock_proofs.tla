-------------------------- MODULE ShareLock_proofs --------------------------
(***************************************************************************)
(* For any processes, threads and flags, and threads that may call lock    *)
(* before Kernel::run has marked their process running: the variables keep *)
(* their types and a flag is left in the mutex by stopped processes only.  *)
(* The share lock excludes, and forces nobody out, until run finds a       *)
(* thread of its process in a section.                                     *)
(***************************************************************************)
EXTENDS ShareLock, TLAPS

(* A thread that looks at the mutex belongs to a process that was marked    *)
(* running once and does not recover.                                       *)
ThreadInv(t) ==
  /\ pc[t] # "idle" => flag[t] \in Flags
  /\ pc[t] \in {"spin", "release"} \/ owns[t] =>
       ProcOf[t] \notin Recovering /\ phase[ProcOf[t]] # "starting"
  /\ owns[t] => Inside(t)

(* A thread that will look at the mutex when it unlocks, or whose process   *)
(* has stopped since it locked.                                             *)
Writer(t) ==
  Inside(t) /\ ProcOf[t] \notin Recovering /\ phase[ProcOf[t]] # "starting"

(* A flag in the mutex is the flag of such a thread.                        *)
WriterIsInside ==
  mutex # Free =>
    \/ \E t \in Threads : Writer(t) /\ flag[t] = mutex
    \/ \E p \in Procs : phase[p] = "stopped"

(* Before run overran a section, a thread that owns the mutex has its flag  *)
(* in it.  A thread in a section it does not own bypassed the lock, and     *)
(* will do so in unlock.                                                    *)
OwnerInv(t) ==
  /\ owns[t] => mutex = flag[t]
  /\ pc[t] = "release" => owns[t]
  /\ pc[t] = "critical" /\ ~owns[t] => Bypassed(t)

SoleOwner == \A t, u \in Threads : owns[t] /\ owns[u] => t = u

LockInv ==
  /\ TypeOK
  /\ \A t \in Threads : ThreadInv(t)
  /\ WriterIsInside
  /\ overrun \/ (SoleOwner /\ \A t \in Threads : OwnerInv(t))

LEMMA LockInvInit == Init => LockInv
<1> SUFFICES ASSUME Init PROVE LockInv
  OBVIOUS
<1>1. TypeOK
  <2>1. [t \in Threads |-> 0] \in [Threads -> 0 .. MaxTries + 1]
    BY ShareLockAssumption
  <2> QED
    BY <2>1 DEF Init, TypeOK, Phases, Points
<1>2. (\A t \in Threads : ThreadInv(t) /\ OwnerInv(t)) /\ WriterIsInside /\ SoleOwner
  BY DEF Init, ThreadInv, OwnerInv, SoleOwner, WriterIsInside
<1> QED
  BY <1>1, <1>2 DEF LockInv

(* A thread may leave without touching the mutex if it bypasses it.         *)
LEMMA LeaveUntouched ==
  ASSUME LockInv, NEW t \in Threads, Inside(t), Leave(t), Bypassed(t),
         UNCHANGED <<mutex, phase, overrun>>
  PROVE  LockInv'
<1>1. TypeOK'
  BY ShareLockAssumption DEF LockInv, TypeOK, Points, Goto, Leave
<1>2. pc'[t] = "idle" /\ ~owns'[t]
  BY DEF LockInv, TypeOK, Goto, Leave
<1>3. \A u \in Threads \ {t} :
        pc'[u] = pc[u] /\ flag'[u] = flag[u] /\ owns'[u] = owns[u]
  BY DEF LockInv, TypeOK, Goto, Leave
<1>4. \A u \in Threads : ThreadInv(u)'
  BY <1>2, <1>3 DEF LockInv, ThreadInv, Inside
<1>5. Writer(t) => phase[ProcOf[t]] = "stopped" /\ ProcOf[t] \in Procs
  BY ShareLockAssumption
  DEF Writer, Bypassed, Stopped, LockInv, TypeOK, Phases
<1>6. WriterIsInside'
  BY <1>2, <1>3, <1>5 DEF LockInv, WriterIsInside, Writer, Inside
<1>7. overrun \/ (SoleOwner /\ \A u \in Threads : OwnerInv(u))'
  BY <1>2, <1>3 DEF LockInv, SoleOwner, OwnerInv, Bypassed, Stopped
<1> QED
  BY <1>1, <1>4, <1>6, <1>7 DEF LockInv

(* Run makes a writer of a thread it finds in a section, and sees that.     *)
LEMMA LockInvRun ==
  ASSUME LockInv, NEW p \in Procs, Run(p) PROVE LockInv'
<1>1. TypeOK'
  BY DEF LockInv, TypeOK, Run, Phases
<1>2. \A t \in Threads : ThreadInv(t)'
  BY DEF LockInv, TypeOK, Run, ThreadInv, Inside
<1>3. WriterIsInside'
  BY ShareLockAssumption
  DEF LockInv, TypeOK, Run, WriterIsInside, Writer, Inside
<1>4. ASSUME ~overrun'
      PROVE  (SoleOwner /\ \A t \in Threads : OwnerInv(t))'
  <2>1. ~overrun /\ UNCHANGED <<mutex, pc, flag, tries, owns>>
    BY <1>4 DEF Run
  <2>2. \A t \in Threads : ProcOf[t] = p /\ p \notin Recovering => pc[t] = "idle"
    BY <1>4 DEF Run
  <2>3. \A t \in Threads : ProcOf[t] # p => phase'[ProcOf[t]] = phase[ProcOf[t]]
    BY ShareLockAssumption DEF Run, LockInv, TypeOK
  <2> QED
    BY <2>1, <2>2, <2>3 DEF LockInv, SoleOwner, OwnerInv, Bypassed, Stopped
<1> QED
  BY <1>1, <1>2, <1>3, <1>4 DEF LockInv

(* The forced exchange writes the flag of a thread that is inside; before   *)
(* any overrun it finds that flag there already.                            *)
LEMMA LockInvForce ==
  ASSUME LockInv, NEW t \in Threads, ForceUnlock(t) PROVE LockInv'
<1>1. flag[t] \in Flags /\ Writer(t)
  BY DEF ForceUnlock, LockInv, ThreadInv, Writer, Inside
<1>2. TypeOK'
  <2>1. tries' \in [Threads -> 0 .. MaxTries + 1]
    BY ShareLockAssumption DEF ForceUnlock, LockInv, TypeOK
  <2> QED
    BY <1>1, <2>1 DEF ForceUnlock, LockInv, TypeOK
<1>3. (\A u \in Threads : ThreadInv(u))' /\ WriterIsInside'
  BY <1>1 DEF ForceUnlock, LockInv, ThreadInv, WriterIsInside, Writer, Inside
<1>4. overrun \/ mutex' = mutex
  BY DEF ForceUnlock, LockInv, OwnerInv
<1>5. overrun \/ (SoleOwner /\ \A u \in Threads : OwnerInv(u))'
  BY <1>4 DEF ForceUnlock, LockInv, SoleOwner, OwnerInv, Bypassed, Stopped
<1> QED
  BY <1>2, <1>3, <1>5 DEF ForceUnlock, LockInv

(* The invariant is inductive: one case per action. *)
LEMMA LockInvStep == LockInv /\ [Next]_vars => LockInv'
<1> SUFFICES ASSUME LockInv, [Next]_vars PROVE LockInv'
  OBVIOUS
<1>1. ASSUME NEW p \in Procs, Stop(p) PROVE LockInv'
  BY <1>1, ShareLockAssumption
  DEF Stop, LockInv, ThreadInv, OwnerInv, SoleOwner, WriterIsInside, Writer,
      Inside, TypeOK, Phases, Bypassed, Stopped
<1>2. ASSUME NEW t \in Threads, NEW f \in Flags, Lock(t, f) PROVE LockInv'
  BY <1>2, ShareLockAssumption
  DEF Lock, LockInv, ThreadInv, OwnerInv, SoleOwner, WriterIsInside, Writer,
      Inside, TypeOK, Points, Bypassed, Stopped, Goto
<1>3. ASSUME NEW t \in Threads, Acquire(t) PROVE LockInv'
  BY <1>3, ShareLockAssumption
  DEF Acquire, LockInv, ThreadInv, OwnerInv, SoleOwner, WriterIsInside, Writer,
      Inside, TypeOK, Points, Bypassed, Stopped, Goto
<1>4. ASSUME NEW t \in Threads, LockBreak(t) PROVE LockInv'
  BY <1>4, ShareLockAssumption
  DEF LockBreak, LockInv, ThreadInv, OwnerInv, SoleOwner, WriterIsInside, Writer,
      Inside, TypeOK, Points, Bypassed, Stopped, Goto
<1>5. ASSUME NEW t \in Threads, Unlock(t) PROVE LockInv'
  <2>1. CASE Bypassed(t)
    BY <2>1, <1>5, LeaveUntouched DEF Unlock, Inside
  <2>2. CASE ~Bypassed(t)
    BY <2>2, <1>5, ShareLockAssumption
    DEF Unlock, LockInv, ThreadInv, OwnerInv, SoleOwner, WriterIsInside, Writer,
        Inside, TypeOK, Points, Bypassed, Stopped, Goto
  <2> QED
    BY <2>1, <2>2
<1>6. ASSUME NEW t \in Threads, Release(t) PROVE LockInv'
  BY <1>6, ShareLockAssumption
  DEF Release, LockInv, ThreadInv, OwnerInv, SoleOwner, WriterIsInside, Writer,
      Inside, TypeOK, Points, Bypassed, Stopped, Goto, Leave
<1>7. ASSUME NEW t \in Threads, UnlockBreak(t) PROVE LockInv'
  BY <1>7, LeaveUntouched DEF UnlockBreak, Bypassed, Inside
<1>8. ASSUME NEW t \in Threads, Retry(t) PROVE LockInv'
  BY <1>8, ShareLockAssumption
  DEF Retry, LockInv, ThreadInv, OwnerInv, SoleOwner, WriterIsInside, Writer,
      Inside, TypeOK, Bypassed, Stopped
<1>9. CASE UNCHANGED vars
  BY <1>9
  DEF vars, LockInv, ThreadInv, OwnerInv, SoleOwner, WriterIsInside, Writer,
      Inside, TypeOK, Bypassed, Stopped
<1> QED
  BY <1>1, <1>2, <1>3, <1>4, <1>5, <1>6, <1>7, <1>8, <1>9, LockInvRun,
     LockInvForce DEF Next, Step

LEMMA LockInvariant == Spec => []LockInv
BY LockInvInit, LockInvStep, PTL DEF Spec

-----------------------------------------------------------------------------

(* The variables keep their types whatever the threads and flags, and      *)
(* whether or not threads lock before their process is marked running.      *)
THEOREM TypeCorrect == Spec => []TypeOK
BY LockInvariant, PTL DEF LockInv

(* Until run finds a thread of its process in a section, at most one thread *)
(* of a live process is in a section the lock guards.                       *)
THEOREM MutualExclusion == Spec => []ExclusionUntilOverrun
<1>1. LockInv => ExclusionUntilOverrun
  BY DEF LockInv, OwnerInv, SoleOwner, Exclusion, ExclusionUntilOverrun
<1> QED
  BY <1>1, LockInvariant, PTL

(* A mutex nobody will free is the work of a stopped process, even when     *)
(* threads that never had the lock force their flag into it.                *)
THEOREM NothingLeftBehind == Spec => []LeftBehindByStop
<1>1. LockInv => LeftBehindByStop
  BY ShareLockAssumption
  DEF LockInv, WriterIsInside, Writer, LeftBehindByStop, Bypassed, Stopped,
      TypeOK, Phases
<1> QED
  BY <1>1, LockInvariant, PTL

(* Until run finds a thread of its process in a section, no step takes the  *)
(* mutex away from the thread that holds it: the forced exchange of unlock  *)
(* writes the flag that is there already.                                   *)
THEOREM NoTheft == Spec => OnlyOwnerReleases
<1>1. ASSUME LockInv, [Next]_vars, ~overrun, mutex # Free, mutex' # mutex
      PROVE  mutex' = Free /\ \E t \in Threads : Owner(t) /\ ~owns'[t]
  <2>1. ASSUME NEW t \in Threads, Release(t)
        PROVE  mutex' = Free /\ \E u \in Threads : Owner(u) /\ ~owns'[u]
    BY <1>1, <2>1
    DEF Release, Leave, Goto, Owner, Inside, LockInv, OwnerInv, TypeOK
  <2>2. \A t \in Threads : ForceUnlock(t) => mutex' = mutex
    BY <1>1 DEF ForceUnlock, LockInv, OwnerInv
  <2> QED
    BY <1>1, <2>1, <2>2
    DEF Next, Step, Run, Stop, Lock, Acquire, LockBreak, Unlock, UnlockBreak,
        Retry, vars
<1> QED
  BY <1>1, LockInvariant, PTL DEF Spec, OnlyOwnerReleases
=============================================================================
