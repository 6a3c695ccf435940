------------------------------- MODULE Sched -------------------------------
(***************************************************************************)
(* The thread scheduler: kernel/proc/sched.c and sched_helper.c, with the  *)
(* parts of kthread.c that change a thread's scheduling state.             *)
(*                                                                         *)
(* One CPU; a thread keeps it until it calls sched_switch.  A step of the  *)
(* module is one call the current thread makes, one iteration of a         *)
(* broadcast, the dispatch at the end of sched_switch, or one wake-up done *)
(* by a device's interrupt handler.  Interrupts may come between any two   *)
(* steps, but not while sched_switch keeps them masked; that any other     *)
(* step is atomic with respect to them is what raising the interrupt level *)
(* around the run queue is for.                                            *)
(***************************************************************************)
EXTENDS Naturals, Sequences, SequencesExt

CONSTANTS
  Thread,       (* every kthread_t                                         *)
  IdleThread,   (* the thread bootstrap() creates, current from the start  *)
  WaitQueue,    (* every ktqueue_t threads sleep on                        *)
  DevQueue,     (* those whose sleepers are woken by interrupt handlers    *)
  RunQ,         (* kt_runq                                                 *)
  NoQueue       (* a NULL kt_wchan                                         *)

ASSUME SchedAssumption ==
  /\ IdleThread \in Thread
  /\ DevQueue \subseteq WaitQueue
  /\ RunQ \notin WaitQueue
  /\ NoQueue \notin WaitQueue \cup {RunQ}

VARIABLES
  kt_state,      (* thread -> kthread_state_t                              *)
  kt_cancelled,  (* thread -> has kthread_cancel been called on it         *)
  kt_ret,        (* thread -> what its last sched_cancellable_sleep_on     *)
                 (*   returned, "blocked" while it is inside the call      *)
  ktq,           (* the queues: per queue tq_list and tq_size, per thread  *)
                 (*   kt_wchan                                             *)
  curthr,        (* the thread whose context the CPU is in                 *)
  cpu,           (* "run"; inside sched_switch: "switch"; "idle" once it   *)
                 (*   has found no thread to run; "halt" in intr_wait      *)
  bcast          (* the queue curthr is broadcasting on, or NoQueue        *)

schedVars == <<kt_state, kt_cancelled, kt_ret, ktq, curthr, cpu, bcast>>

Queue == WaitQueue \cup {RunQ}

ThreadState ==
  {"KT_NO_STATE", "KT_RUN", "KT_SLEEP", "KT_SLEEP_CANCELLABLE", "KT_EXITED"}

Sleeping == {"KT_SLEEP", "KT_SLEEP_CANCELLABLE"}
-----------------------------------------------------------------------------
(***************************************************************************)
(* The queue operations.  list[q][1] is the link before the list head,     *)
(* which ktqueue_dequeue takes; ktqueue_enqueue inserts at the other end.  *)
(***************************************************************************)
ktqueue_enqueue_lifo(s, q, thr) ==
  [list  |-> [s.list EXCEPT ![q] = <<thr>> \o @],
   size  |-> [s.size EXCEPT ![q] = @ + 1],
   wchan |-> [s.wchan EXCEPT ![thr] = q]]

ktqueue_enqueue(s, q, thr) ==
  [list  |-> [s.list EXCEPT ![q] = Append(@, thr)],
   size  |-> [s.size EXCEPT ![q] = @ + 1],
   wchan |-> [s.wchan EXCEPT ![thr] = q]]

ktqueue_dequeue(s, q) ==
  [list  |-> [s.list EXCEPT ![q] = Tail(@)],
   size  |-> [s.size EXCEPT ![q] = @ - 1],
   wchan |-> [s.wchan EXCEPT ![Head(s.list[q])] = NoQueue]]

IndexIn(s, q, thr) == CHOOSE i \in DOMAIN s.list[q] : s.list[q][i] = thr

ktqueue_remove_keeps_size(s, q, thr) ==
  [s EXCEPT !.list[q] = RemoveAt(@, IndexIn(s, q, thr)), !.wchan[thr] = NoQueue]

ktqueue_remove(s, q, thr) ==
  [list  |-> [s.list EXCEPT ![q] = RemoveAt(@, IndexIn(s, q, thr))],
   size  |-> [s.size EXCEPT ![q] = @ - 1],
   wchan |-> [s.wchan EXCEPT ![thr] = NoQueue]]

sched_queue_init == [list  |-> [q \in Queue |-> <<>>],
                     size  |-> [q \in Queue |-> 0],
                     wchan |-> [t \in Thread |-> NoQueue]]
-----------------------------------------------------------------------------
Running(t) == curthr = t /\ cpu = "run" /\ bcast = NoQueue

(* The body of sched_make_runnable, on the queues s                         *)
MakeRunnable(s, thr) ==
  /\ ktq' = ktqueue_enqueue(s, RunQ, thr)
  /\ kt_state' = [kt_state EXCEPT ![thr] = "KT_RUN"]

(* A kthread_t is allocated: one never used, or one kthread_destroy freed.  *)
kthread_create(thr) ==
  /\ Running(curthr)
  /\ thr # curthr
  /\ kt_state[thr] \in {"KT_NO_STATE", "KT_EXITED"}
  /\ kt_state' = [kt_state EXCEPT ![thr] = "KT_NO_STATE"]
  /\ kt_cancelled' = [kt_cancelled EXCEPT ![thr] = FALSE]
  /\ kt_ret' = [kt_ret EXCEPT ![thr] = "none"]
  /\ UNCHANGED <<ktq, curthr, cpu, bcast>>

(* A new thread becomes runnable.                                           *)
sched_make_runnable(thr) ==
  /\ Running(curthr)
  /\ kt_state[thr] = "KT_NO_STATE"
  /\ MakeRunnable(ktq, thr)
  /\ UNCHANGED <<kt_cancelled, kt_ret, curthr, cpu, bcast>>

(* sched_make_runnable(curthr); sched_switch() *)
Yield(t) ==
  /\ Running(t)
  /\ kt_state[t] = "KT_RUN"
  /\ MakeRunnable(ktq, t)
  /\ cpu' = "switch"
  /\ UNCHANGED <<kt_cancelled, kt_ret, curthr, bcast>>

sched_sleep_on(t, q) ==
  /\ Running(t)
  /\ kt_state' = [kt_state EXCEPT ![t] = "KT_SLEEP"]
  /\ ktq' = ktqueue_enqueue(ktq, q, t)
  /\ cpu' = "switch"
  /\ UNCHANGED <<kt_cancelled, kt_ret, curthr, bcast>>

CancellableSleep(t, q) ==
  /\ Running(t)
  /\ kt_state' = [kt_state EXCEPT ![t] = "KT_SLEEP_CANCELLABLE"]
  /\ ktq' = ktqueue_enqueue(ktq, q, t)
  /\ kt_ret' = [kt_ret EXCEPT ![t] = "blocked"]
  /\ cpu' = "switch"
  /\ UNCHANGED <<kt_cancelled, curthr, bcast>>

sched_cancellable_sleep_on(t, q) ==
  \/ ~kt_cancelled[t] /\ CancellableSleep(t, q)
  \/ /\ kt_cancelled[t] /\ Running(t)
     /\ kt_ret' = [kt_ret EXCEPT ![t] = "EINTR"]
     /\ UNCHANGED <<kt_state, kt_cancelled, ktq, curthr, cpu, bcast>>

WakeOne(q) ==
  /\ ktq.size[q] > 0
  /\ MakeRunnable(ktqueue_dequeue(ktq, q), Head(ktq.list[q]))

sched_wakeup_on(q) ==
  /\ Running(curthr)
  /\ WakeOne(q)
  /\ UNCHANGED <<kt_cancelled, kt_ret, curthr, cpu, bcast>>

(* The loop of sched_broadcast_on, one thread per step.                     *)
sched_broadcast_on(q) ==
  /\ Running(curthr)
  /\ ktq.size[q] > 0
  /\ bcast' = q
  /\ UNCHANGED <<kt_state, kt_cancelled, kt_ret, ktq, curthr, cpu>>

BroadcastStep ==
  /\ bcast \in WaitQueue
  /\ cpu = "run"
  /\ IF ktq.size[bcast] > 0
     THEN WakeOne(bcast) /\ UNCHANGED bcast
     ELSE bcast' = NoQueue /\ UNCHANGED <<kt_state, ktq>>
  /\ UNCHANGED <<kt_cancelled, kt_ret, curthr, cpu>>

sched_cancel_unqueues(thr) ==
  /\ kt_cancelled' = [kt_cancelled EXCEPT ![thr] = TRUE]
  /\ IF kt_state[thr] = "KT_SLEEP_CANCELLABLE"
     THEN /\ ktq' = ktqueue_remove(ktq, ktq.wchan[thr], thr)
          /\ kt_state' = [kt_state EXCEPT ![thr] = "KT_RUN"]
     ELSE UNCHANGED <<kt_state, ktq>>

(* The sleep of a cancellable sleeper ends; any other thread is only marked. *)
sched_cancel(thr) ==
  /\ kt_cancelled' = [kt_cancelled EXCEPT ![thr] = TRUE]
  /\ IF kt_state[thr] = "KT_SLEEP_CANCELLABLE"
     THEN MakeRunnable(ktqueue_remove(ktq, ktq.wchan[thr], thr), thr)
     ELSE UNCHANGED <<kt_state, ktq>>

(* Called on another thread; on curthr itself it is kthread_exit.           *)
kthread_cancel(thr) ==
  /\ Running(curthr)
  /\ thr # curthr
  /\ sched_cancel(thr)
  /\ UNCHANGED <<kt_ret, curthr, cpu, bcast>>

(* KT_EXITED is set here and, after the clean-up, once more in proc_cleanup. *)
kthread_exit(t) ==
  /\ Running(t)
  /\ kt_state' = [kt_state EXCEPT ![t] = "KT_EXITED"]
  /\ UNCHANGED <<kt_cancelled, kt_ret, ktq, curthr, cpu, bcast>>

(* The sched_switch() at the end of proc_thread_exited                      *)
proc_thread_exited(t) ==
  /\ Running(t)
  /\ kt_state[t] = "KT_EXITED"
  /\ cpu' = "switch"
  /\ UNCHANGED <<kt_state, kt_cancelled, kt_ret, ktq, curthr, bcast>>

Returned_ok(t) == IF kt_ret[t] # "blocked" THEN kt_ret[t] ELSE "ok"

(* What the resumed call returns is read from kt_cancelled only now.        *)
Returned(t) ==
  IF kt_ret[t] # "blocked" THEN kt_ret[t]
  ELSE IF kt_cancelled[t] THEN "EINTR" ELSE "ok"

(* With an empty run queue, found with all interrupts masked, sched_switch   *)
(* disables interrupts before it lowers the level again ...                  *)
NoneRunnable ==
  /\ cpu = "switch"
  /\ ktq.list[RunQ] = <<>>
  /\ cpu' = "idle"
  /\ UNCHANGED <<kt_state, kt_cancelled, kt_ret, ktq, curthr, bcast>>

Masked_not_disabled == FALSE
Masked == cpu = "idle"

(* ... and enables them and halts in one: the halt ends with an interrupt.   *)
intr_wait ==
  /\ cpu = "idle"
  /\ cpu' = "halt"
  /\ UNCHANGED <<kt_state, kt_cancelled, kt_ret, ktq, curthr, bcast>>

(* The end of sched_switch: the oldest thread of the run queue resumes where *)
(* it called sched_switch.                                                   *)
sched_switch ==
  /\ cpu = "switch"
  /\ ktq.list[RunQ] # <<>>
  /\ LET next == Head(ktq.list[RunQ]) IN
       /\ curthr' = next
       /\ kt_ret' = [kt_ret EXCEPT ![next] = Returned(next)]
  /\ ktq' = ktqueue_dequeue(ktq, RunQ)
  /\ cpu' = "run"
  /\ UNCHANGED <<kt_state, kt_cancelled, bcast>>

(* A device's interrupt handler wakes a thread: at any point, also during   *)
(* sched_switch, before the old thread has been switched out.  Masked, it   *)
(* is delivered later; a halted CPU goes back to look at the run queue.     *)
Interrupt(q) ==
  /\ ~Masked
  /\ WakeOne(q)
  /\ cpu' = IF cpu = "halt" THEN "switch" ELSE cpu
  /\ UNCHANGED <<kt_cancelled, kt_ret, curthr, bcast>>
-----------------------------------------------------------------------------
Init ==
  /\ kt_state = [t \in Thread |-> IF t = IdleThread THEN "KT_RUN" ELSE "KT_NO_STATE"]
  /\ kt_cancelled = [t \in Thread |-> FALSE]
  /\ kt_ret = [t \in Thread |-> "none"]
  /\ ktq = sched_queue_init
  /\ curthr = IdleThread
  /\ cpu = "run"
  /\ bcast = NoQueue

(* The calls after which the current thread has given up the CPU            *)
GiveUp(t) ==
  \/ Yield(t)
  \/ \E q \in WaitQueue :
       \/ sched_sleep_on(t, q)
       \/ ~kt_cancelled[t] /\ CancellableSleep(t, q)
  \/ proc_thread_exited(t)

Next ==
  \/ \E t \in Thread :
       \/ kthread_create(t)
       \/ sched_make_runnable(t)
       \/ Yield(t)
       \/ kthread_cancel(t)
       \/ kthread_exit(t)
       \/ proc_thread_exited(t)
  \/ \E t \in Thread, q \in WaitQueue :
       \/ sched_sleep_on(t, q)
       \/ sched_cancellable_sleep_on(t, q)
  \/ \E q \in WaitQueue : sched_wakeup_on(q) \/ sched_broadcast_on(q)
  \/ BroadcastStep
  \/ sched_switch
  \/ NoneRunnable
  \/ intr_wait
  \/ \E q \in DevQueue : Interrupt(q)

Spec == Init /\ [][Next]_schedVars

(* A thread is never preempted, so that others run only if it gives the CPU *)
(* up: every kernel thread blocks, yields or exits sooner or later.         *)
Fairness ==
  /\ WF_schedVars(sched_switch)
  /\ WF_schedVars(BroadcastStep)
  /\ \A t \in Thread : WF_schedVars(GiveUp(t))

FairSpec == Spec /\ Fairness
-----------------------------------------------------------------------------
KtQueues == [list  : [Queue -> Seq(Thread)],
             size  : [Queue -> Nat],
             wchan : [Thread -> Queue \cup {NoQueue}]]

TypeOK ==
  /\ kt_state \in [Thread -> ThreadState]
  /\ kt_cancelled \in [Thread -> BOOLEAN]
  /\ kt_ret \in [Thread -> {"none", "blocked", "ok", "EINTR"}]
  /\ ktq \in KtQueues
  /\ curthr \in Thread
  /\ cpu \in {"run", "switch", "idle", "halt"}
  /\ bcast \in WaitQueue \cup {NoQueue}

(* A thread is linked on the queue its kt_wchan names and on no other, at   *)
(* one place only, and tq_size counts what is linked: what the KASSERTs of  *)
(* sched.c 48, 88 and 250 sample, and what lets sched_wakeup_on test        *)
(* tq_size where kmutex_unlock tests the list.                              *)
QueuesOK(s) ==
  /\ \A q \in Queue :
       /\ s.size[q] = Len(s.list[q])
       /\ \A i \in DOMAIN s.list[q] : s.wchan[s.list[q][i]] = q
       /\ \A i, j \in DOMAIN s.list[q] : s.list[q][i] = s.list[q][j] => i = j
  /\ \A t \in Thread :
       s.wchan[t] # NoQueue =>
         \E i \in DOMAIN s.list[s.wchan[t]] : s.list[s.wchan[t]][i] = t

OnItsQueueOnly == QueuesOK(ktq)

(* "Unless the thread is in the KT_NO_STATE or KT_EXITED state, it should   *)
(* be on some queue.  Otherwise, it will never be run again" (sched.c 142): *)
(* only the current thread may be on none, and only outside sched_switch.   *)
NeverLost ==
  \A t \in Thread :
    \/ kt_state[t] \in {"KT_NO_STATE", "KT_EXITED"}
    \/ ktq.wchan[t] # NoQueue
    \/ curthr = t /\ cpu = "run"

(* A thread's state says what kind of queue it is on (the KASSERT of        *)
(* sched_helper.c 56); the thread the CPU runs is on none, and not asleep.  *)
StateFitsQueue ==
  /\ \A t \in Thread :
       /\ ktq.wchan[t] = RunQ => kt_state[t] = "KT_RUN"
       /\ ktq.wchan[t] \in WaitQueue => kt_state[t] \in Sleeping
       /\ kt_state[t] \in Sleeping => ktq.wchan[t] \in WaitQueue
  /\ cpu = "run" => /\ ktq.wchan[curthr] = NoQueue
                    /\ kt_state[curthr] \in {"KT_RUN", "KT_EXITED"}

(* The CPU is not halted while a thread could run, in whatever place between *)
(* the test of the run queue and the halt an interrupt makes one runnable    *)
(* (sched.c 208-218, interrupt.h 77-90).                                     *)
HaltsOnlyIdle == cpu = "halt" => ktq.list[RunQ] = <<>>

(* A cancelled thread is in no cancellable sleep, whichever of the cancel   *)
(* and the sleep came first (sched.c 118 and 154).                          *)
CancelledNeverSleepsCancellably ==
  \A t \in Thread : ~(kt_cancelled[t] /\ kt_state[t] = "KT_SLEEP_CANCELLABLE")

(* The scheduler's data hang together.  Threads on two queues, a sleeper    *)
(* queued to run or a count that is off each break what a later call, of    *)
(* another thread, takes for granted.                                       *)
QueuesSound ==
  /\ TypeOK
  /\ OnItsQueueOnly
  /\ StateFitsQueue
  /\ CancelledNeverSleepsCancellably

(* The run queue is first in, first out: while a thread waits on it, one    *)
(* that was queued behind it stays behind and one that is newly queued goes *)
(* behind (ktqueue_enqueue and ktqueue_dequeue work at opposite ends, and   *)
(* sched_cancel takes nothing off it).                                      *)
Before(q, a, b) ==
  \E i, j \in DOMAIN ktq.list[q] :
    i < j /\ ktq.list[q][i] = a /\ ktq.list[q][j] = b

RunQueueFifo ==
  [][\A a, b \in Thread :
       ktq.wchan[a] = RunQ /\ ktq'.wchan[a] = RunQ =>
         /\ Before(RunQ, a, b) => Before(RunQ, a, b)'
         /\ ktq.wchan[b] # RunQ /\ ktq'.wchan[b] = RunQ => Before(RunQ, a, b)']_schedVars

(* A thread cancelled while it is inside sched_cancellable_sleep_on is told *)
(* so: the call returns -EINTR, also to a thread a wake-up had already put  *)
(* on the run queue when the cancel came (sched.c 126).                     *)
CancelIsReported ==
  \A t \in Thread :
    kt_cancelled[t] /\ kt_ret[t] = "blocked" ~> kt_ret[t] = "EINTR"

(* A thread on the run queue gets the CPU.                                  *)
RunnableRuns ==
  \A t \in Thread : ktq.wchan[t] = RunQ ~> curthr = t /\ cpu = "run"
=============================================================================
