------------------------------- MODULE Kmutex -------------------------------
(***************************************************************************)
(* The kernel mutexes of kernel/proc/kmutex.c on top of the scheduler.     *)
(*                                                                         *)
(* A thread locks and unlocks mutexes, blocks on a device, yields, cancels *)
(* other threads and exits, in any order its callers' contract allows: it  *)
(* locks no mutex it has, unlocks only what it has, and exits with none.   *)
(* "Has" is what the calls have told it (has), not km_holder.              *)
(***************************************************************************)
EXTENDS Sched

CONSTANT Mutex   (* each mutex stands for its wait queue, km_waitq         *)

ASSUME KmutexAssumption ==
  /\ Mutex \subseteq WaitQueue \ DevQueue
  /\ NoQueue \notin Thread

VARIABLES
  km_holder,  (* mutex -> the thread holding it, or NoQueue (NULL)         *)
  has,        (* thread -> the mutexes its returned calls say it holds     *)
  call        (* thread -> the lock call it is blocked in, [op, mtx]       *)

mutexVars == <<km_holder, has, call>>
kmutexVars == <<schedVars, mutexVars>>

NoCall == [op |-> "none", mtx |-> NoQueue]
LockOp == {"kmutex_lock", "kmutex_lock_cancellable"}

(* The current thread, executing its own code                               *)
InThread(t) == Running(t) /\ kt_state[t] = "KT_RUN" /\ call[t] = NoCall

mutexFree(m) == km_holder[m] = NoQueue
-----------------------------------------------------------------------------
kmutex_init ==
  /\ km_holder = [m \in Mutex |-> NoQueue]
  /\ has = [t \in Thread |-> {}]
  /\ call = [t \in Thread |-> NoCall]

(* A free mutex is taken without a scheduling point.                        *)
Take(t, m) ==
  /\ mutexFree(m)
  /\ km_holder' = [km_holder EXCEPT ![m] = t]
  /\ has' = [has EXCEPT ![t] = @ \cup {m}]
  /\ UNCHANGED <<schedVars, call>>

Block(t, m, op) ==
  /\ call' = [call EXCEPT ![t] = [op |-> op, mtx |-> m]]
  /\ UNCHANGED <<km_holder, has>>

(* kmutex_lock; the KASSERT of line 51 is the second conjunct.              *)
kmutex_lock(t, m) ==
  /\ InThread(t)
  /\ km_holder[m] # t
  /\ \/ Take(t, m)
     \/ ~mutexFree(m) /\ sched_sleep_on(t, m) /\ Block(t, m, "kmutex_lock")

(* kmutex_lock_cancellable; an already cancelled thread gets -EINTR at once. *)
kmutex_lock_cancellable(t, m) ==
  /\ InThread(t)
  /\ km_holder[m] # t
  /\ \/ Take(t, m)
     \/ /\ ~mutexFree(m)
        /\ sched_cancellable_sleep_on(t, m)
        /\ IF kt_cancelled[t]
           THEN UNCHANGED mutexVars
           ELSE Block(t, m, "kmutex_lock_cancellable")

(* The sleep inside a lock call has ended and the call returns: 0, which    *)
(* tells the thread it has the mutex, or -EINTR.                            *)
LockReturns(t) ==
  /\ Running(t)
  /\ call[t] # NoCall
  /\ call' = [call EXCEPT ![t] = NoCall]
  /\ has' = IF call[t].op = "kmutex_lock_cancellable" /\ kt_ret[t] = "EINTR"
            THEN has
            ELSE [has EXCEPT ![t] = @ \cup {call[t].mtx}]
  /\ UNCHANGED <<schedVars, km_holder>>

kmutex_unlock_frees(t, m) ==
  /\ InThread(t)
  /\ m \in has[t]
  /\ has' = [has EXCEPT ![t] = @ \ {m}]
  /\ km_holder' = [km_holder EXCEPT ![m] = NoQueue]
  /\ IF ktq.list[m] # <<>> THEN sched_wakeup_on(m) ELSE UNCHANGED schedVars
  /\ UNCHANGED call

kmutex_unlock_no_wakeup(t, m) ==
  /\ InThread(t)
  /\ m \in has[t]
  /\ has' = [has EXCEPT ![t] = @ \ {m}]
  /\ km_holder' = [km_holder EXCEPT ![m] = NoQueue]
  /\ UNCHANGED <<schedVars, call>>

(* The mutex goes to the thread that has waited longest, which is woken.    *)
kmutex_unlock(t, m) ==
  /\ InThread(t)
  /\ m \in has[t]
  /\ has' = [has EXCEPT ![t] = @ \ {m}]
  /\ IF ktq.list[m] # <<>>
     THEN /\ km_holder' = [km_holder EXCEPT ![m] = Head(ktq.list[m])]
          /\ sched_wakeup_on(m)
     ELSE /\ km_holder' = [km_holder EXCEPT ![m] = NoQueue]
          /\ UNCHANGED schedVars
  /\ UNCHANGED call

(* What else the threads do                                                 *)
Create(t) ==
  /\ InThread(curthr) /\ sched_make_runnable(t) /\ UNCHANGED mutexVars

Cancel(t, victim) ==
  /\ InThread(t) /\ victim # t /\ kthread_cancel(victim) /\ UNCHANGED mutexVars

GiveUpCpu(t) ==
  /\ InThread(t)
  /\ Yield(t) \/ (\E q \in DevQueue : sched_sleep_on(t, q))
  /\ UNCHANGED mutexVars

Exit(t) ==
  /\ has[t] = {} /\ UNCHANGED mutexVars
  /\ \/ InThread(t) /\ kthread_exit(t)
     \/ proc_thread_exited(t)

Kernel ==
  /\ \/ sched_switch \/ NoneRunnable \/ intr_wait
     \/ \E q \in DevQueue : Interrupt(q)
  /\ UNCHANGED mutexVars
-----------------------------------------------------------------------------
MutexInit == Init /\ kmutex_init

MutexNext ==
  \/ \E t \in Thread, m \in Mutex :
       \/ kmutex_lock(t, m)
       \/ kmutex_lock_cancellable(t, m)
       \/ kmutex_unlock(t, m)
  \/ \E t \in Thread : LockReturns(t) \/ Create(t) \/ GiveUpCpu(t) \/ Exit(t)
  \/ \E t, victim \in Thread : Cancel(t, victim)
  \/ Kernel

MutexSpec == MutexInit /\ [][MutexNext]_kmutexVars

(* The CPU always goes on: a dispatch happens, devices answer, a call       *)
(* returns.  Threads run on, unlock what they have and do not keep the CPU  *)
(* for ever: the kernel is not preemptive and relies on it.                 *)
MutexFairness ==
  /\ WF_kmutexVars((sched_switch \/ NoneRunnable \/ intr_wait) /\ UNCHANGED mutexVars)
  /\ \A q \in DevQueue : WF_kmutexVars(Interrupt(q) /\ UNCHANGED mutexVars)
  /\ WF_kmutexVars(\E t \in Thread : LockReturns(t) \/ GiveUpCpu(t) \/ Exit(t))
  /\ \A m \in Mutex : SF_kmutexVars(\E t \in Thread : kmutex_unlock(t, m))

MutexFairSpec == MutexSpec /\ MutexFairness
-----------------------------------------------------------------------------
MutexTypeOK ==
  /\ TypeOK
  /\ km_holder \in [Mutex -> Thread \cup {NoQueue}]
  /\ has \in [Thread -> SUBSET Mutex]
  /\ call \in [Thread -> {NoCall} \cup [op : LockOp, mtx : Mutex]]

(* Mutual exclusion: what a thread was told it has, it holds, so that no    *)
(* two threads have one mutex (kmutex_unlock hands over, kmutex_lock takes  *)
(* only what is free).                                                      *)
MutualExclusion ==
  \A t \in Thread : \A m \in has[t] : km_holder[m] = t

(* Mutual exclusion, on a sound state of the scheduler under it             *)
MutexSafety == MutexTypeOK /\ MutualExclusion

(* Nobody waits for a free mutex, and only threads inside a lock call of it *)
(* are on its queue: kmutex_lock does not test km_holder again after its    *)
(* sleep, so that a waiter of a free mutex would sleep for ever.            *)
NoStrandedWaiter ==
  \A m \in Mutex :
    /\ mutexFree(m) => ktq.list[m] = <<>>
    /\ \A t \in Thread : ktq.wchan[t] = m => call[t].mtx = m /\ km_holder[m] # t

(* A thread leaves a lock call's sleep as the holder or as cancelled: the   *)
(* call returns 0 to holders only (kmutex.h 55).                            *)
WokenAsHolder ==
  \A t \in Thread :
    call[t] # NoCall =>
      \/ ktq.wchan[t] = call[t].mtx
      \/ km_holder[call[t].mtx] = t
      \/ call[t].op = "kmutex_lock_cancellable" /\ kt_cancelled[t]

(* What the two sides of a hand-over rely on                                *)
HandOver == NoStrandedWaiter /\ WokenAsHolder

(* A mutex held by a thread whose calls never told it so: nobody will ever  *)
(* unlock it.                                                               *)
Leaked(m) ==
  LET t == km_holder[m] IN
    ~mutexFree(m) /\ m \notin has[t] /\ call[t].mtx # m

(* Unless a mutex is leaked, every lock call returns: the lock is handed    *)
(* round first come, first served, and no wake-up is lost.                  *)
LockCallsReturn ==
  [](\A m \in Mutex : ~Leaked(m)) =>
     \A t \in Thread : call[t] # NoCall ~> call[t] = NoCall

(* Each mutex step is a step of the scheduler or leaves it alone, so that   *)
(* what SchedProofs proves of Spec holds here.                              *)
ImplementsScheduler == Spec

(* "-EINTR if the sleep was cancelled and this thread does not hold the     *)
(* mutex" (kmutex.h 55 to 56): a call that returns -EINTR leaves the caller *)
(* without the mutex.                                                       *)
EINTRMeansNotHeld ==
  [][\A t \in Thread :
       /\ call[t].op = "kmutex_lock_cancellable"
       /\ call'[t] = NoCall
       /\ kt_ret[t] = "EINTR"
       => km_holder'[call[t].mtx] # t]_kmutexVars
=============================================================================
