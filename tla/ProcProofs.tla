----------------------------- MODULE ProcProofs -----------------------------
(* Proofs about Proc, for any processes, devices and bound on the pids.     *)
EXTENDS Proc, SchedProofs, WellFoundedInduction

USE SchedAssumption, ProcAssumption

(* Every thread's queue is a wait queue; none of them is the run queue.     *)
LEMMA Queues ==
  /\ Thread \subseteq WaitQueue /\ DevQueue \subseteq WaitQueue
  /\ RunQ \notin Thread /\ NoQueue \notin Thread /\ Thread \cap DevQueue = {}
OBVIOUS
-----------------------------------------------------------------------------
(* Lists of children                                                        *)
LEMMA AppendChild ==
  ASSUME NEW S, NEW s \in Seq(S), NEW e \in S
  PROVE  /\ Append(s, e) \in Seq(S)
         /\ Range(Append(s, e)) = Range(s) \cup {e}
         /\ IsInjective(s) /\ e \notin Range(s) => IsInjective(Append(s, e))
<1> DEFINE r == Append(s, e)
<1>1. /\ r \in Seq(S) /\ Len(r) = Len(s) + 1 /\ Len(s) \in Nat
      /\ \A i \in 1..Len(s) : r[i] = s[i]
      /\ r[Len(s) + 1] = e
  OBVIOUS
<1>2. DOMAIN r = 1..(Len(s) + 1) /\ DOMAIN s = 1..Len(s)
  BY <1>1
<1> HIDE DEF r
<1>3. 1..(Len(s) + 1) = 1..Len(s) \cup {Len(s) + 1}
  BY <1>1
<1>4. Range(r) = Range(s) \cup {e}
  BY <1>1, <1>2, <1>3 DEF Range
<1>5. ASSUME IsInjective(s), e \notin Range(s) PROVE IsInjective(r)
  BY <1>1, <1>2, <1>3, <1>5 DEF Range, IsInjective
<1>. QED BY <1>1, <1>4, <1>5 DEF r

LEMMA AppendChildren ==
  ASSUME NEW S, NEW s \in Seq(S), NEW r \in Seq(S)
  PROVE  /\ s \o r \in Seq(S)
         /\ Range(s \o r) = Range(s) \cup Range(r)
         /\ IsInjective(s) /\ IsInjective(r) /\ Range(s) \cap Range(r) = {} => IsInjective(s \o r)
<1> DEFINE c == s \o r
<1>1. c \in Seq(S) /\ Range(c) = Range(s) \cup Range(r)
  <2>1. c \in Seq(S)
    OBVIOUS
  <2>2. Range(c) = Range(s) \cup Range(r)
    BY RangeConcatenation
  <2>. QED BY <2>1, <2>2
<1>2. /\ Len(c) = Len(s) + Len(r) /\ Len(s) \in Nat /\ Len(r) \in Nat
      /\ DOMAIN c = 1..Len(c) /\ DOMAIN s = 1..Len(s) /\ DOMAIN r = 1..Len(r)
      /\ \A i \in DOMAIN c : c[i] = IF i <= Len(s) THEN s[i] ELSE r[i - Len(s)]
  <2>1. Len(s) \in Nat /\ Len(r) \in Nat /\ DOMAIN s = 1..Len(s) /\ DOMAIN r = 1..Len(r)
    OBVIOUS
  <2>2. Len(c) = Len(s) + Len(r) /\ DOMAIN c = 1..Len(c)
    OBVIOUS
  <2>3. \A i \in DOMAIN c : c[i] = IF i <= Len(s) THEN s[i] ELSE r[i - Len(s)]
    OBVIOUS
  <2>. QED BY <2>1, <2>2, <2>3
<1> HIDE DEF c
<1>3. ASSUME IsInjective(s), IsInjective(r), Range(s) \cap Range(r) = {},
             NEW i \in DOMAIN c, NEW j \in DOMAIN c, c[i] = c[j]
      PROVE  i = j
  <2>1. \A k \in DOMAIN c : k <= Len(s) => k \in DOMAIN s /\ c[k] \in Range(s)
    BY <1>2 DEF Range
  <2>2. \A k \in DOMAIN c : ~(k <= Len(s)) => k - Len(s) \in DOMAIN r
    BY <1>2
  <2>3. \A k \in DOMAIN c : ~(k <= Len(s)) => c[k] \in Range(r)
    BY <1>2, <2>2 DEF Range
  <2>4. CASE i <= Len(s) /\ j <= Len(s)
    BY <1>2, <1>3, <2>1, <2>4 DEF IsInjective
  <2>5. CASE ~(i <= Len(s)) /\ ~(j <= Len(s))
    <3>1. i - Len(s) = j - Len(s)
      BY <1>2, <1>3, <2>2, <2>5 DEF IsInjective
    <3>. QED BY <1>2, <3>1
  <2>. QED BY <1>3, <2>1, <2>3, <2>4, <2>5
<1>4. IsInjective(s) /\ IsInjective(r) /\ Range(s) \cap Range(r) = {} => IsInjective(c)
  BY <1>3 DEF IsInjective
<1>. QED BY <1>1, <1>4 DEF c

LEMMA RemoveChild ==
  ASSUME NEW S, NEW s \in Seq(S), IsInjective(s), NEW e \in Range(s)
  PROVE  /\ list_remove(s, e) \in Seq(S)
         /\ IsInjective(list_remove(s, e))
         /\ Range(list_remove(s, e)) = Range(s) \ {e}
<1> DEFINE k == CHOOSE i \in DOMAIN s : s[i] = e
           r == RemoveAt(s, k)
<1>1. k \in 1..Len(s) /\ s[k] = e /\ DOMAIN s = 1..Len(s) /\ Len(s) \in Nat
  BY DEF Range
<1> HIDE DEF k
<1>2. /\ r \in Seq(S) /\ Len(r) = Len(s) - 1
      /\ \A i \in 1..(Len(s) - 1) : r[i] = IF i < k THEN s[i] ELSE s[i + 1]
  BY <1>1, RemoveAtProperties, Zenon
<1> HIDE DEF r
<1>3. DOMAIN r = 1..(Len(s) - 1)
  BY <1>1, <1>2
<1>4. ASSUME NEW i \in DOMAIN r, NEW j \in DOMAIN r, r[i] = r[j] PROVE i = j
  <2> DEFINE at(n) == IF n < k THEN n ELSE n + 1
  <2>1. at(i) \in DOMAIN s /\ at(j) \in DOMAIN s
    BY <1>1, <1>3
  <2>2. s[at(i)] = s[at(j)]
    BY <1>2, <1>3, <1>4
  <2>3. at(i) = at(j)
    BY <2>1, <2>2 DEF IsInjective
  <2>. QED BY <1>1, <1>3, <2>3
<1>5. ASSUME NEW i \in DOMAIN r PROVE r[i] \in Range(s) \ {e}
  <2>1. CASE i < k
    BY <1>1, <1>2, <1>3, <2>1 DEF Range, IsInjective
  <2>2. CASE ~(i < k)
    <3>1. i + 1 \in DOMAIN s /\ i + 1 # k
      BY <1>1, <1>3, <2>2
    <3>2. s[i + 1] \in Range(s) /\ s[i + 1] # e
      BY <1>1, <3>1 DEF Range, IsInjective
    <3>. QED BY <1>2, <1>3, <2>2, <3>2
  <2>. QED BY <2>1, <2>2
<1>6. ASSUME NEW i \in DOMAIN s, i # k PROVE s[i] \in Range(r)
  <2>1. CASE i < k
    <3>1. i \in DOMAIN r /\ r[i] = s[i]
      BY <1>1, <1>2, <1>3, <2>1
    <3>. QED BY <3>1 DEF Range
  <2>2. CASE ~(i < k)
    <3>1. i - 1 \in DOMAIN r /\ ~(i - 1 < k) /\ (i - 1) + 1 = i
      BY <1>1, <1>3, <1>6, <2>2
    <3>2. r[i - 1] = s[i]
      BY <1>2, <1>3, <3>1
    <3>. QED BY <3>1, <3>2 DEF Range
  <2>. QED BY <2>1, <2>2
<1>7. Range(r) = Range(s) \ {e}
  BY <1>1, <1>5, <1>6 DEF Range
<1>. QED BY <1>2, <1>4, <1>7 DEF list_remove, k, r, IsInjective
-----------------------------------------------------------------------------
(* The inductive invariant.                                                 *)
FamilyTypes ==
  /\ p_state \in [Thread -> {"none", "PROC_RUNNING", "PROC_DEAD"}]
  /\ p_pproc \in [Thread -> Thread \cup {NoProc}]
  /\ p_children \in [Thread -> Seq(Thread)]
  /\ stage \in [Thread -> Stage]
  /\ child \in [Thread -> Thread \cup {NoProc}]

(* The stages a process passes through from its exit on                     *)
Leaving == {"exit", "cleanup", "flushed", "dead", "switch"}

(* Where a process is in its life, and what the scheduler knows of its      *)
(* thread: one that is not there, or is past its last switch, never runs,   *)
(* and between the scheduling points of a call its caller has the CPU.      *)
StageFitsThread ==
  /\ \A t \in Thread :
       /\ p_state[t] = "none" => curthr # t /\ kt_state[t] \in {"KT_NO_STATE", "KT_EXITED"}
       /\ p_state[t] = "PROC_DEAD" => stage[t] \in {"dead", "switch"}
       /\ stage[t] = "switch" => kt_state[t] = "KT_EXITED"
       /\ stage[t] \in {"create", "kill", "exit", "dead"} => curthr = t /\ cpu = "run"
       /\ stage[t] = "create" => /\ child[t] \in Thread
                                 /\ kt_state[child[t]] = "KT_NO_STATE"
                                 /\ p_state[child[t]] = "PROC_RUNNING"
  /\ stage[IdleThread] \notin Leaving \cup {"kill"}
  /\ stage[InitProc] # "kill"

(* No processes but init's descendants: every set of them has one whose     *)
(* parent is outside the set.                                               *)
Rooted ==
  \A S \in SUBSET (proc_list \ {IdleThread, InitProc}) :
    S # {} => \E p \in S : p_pproc[p] \notin S

Kinship ==
  /\ FamilyTree
  /\ \A p \in Thread : p_state[p] = "none" => p_pproc[p] = NoProc
  /\ IdleThread \in proc_list /\ p_pproc[IdleThread] = NoProc
  /\ \A p \in Thread : p_pproc[p] = IdleThread => p = InitProc
  /\ stage[InitProc] = "exit" => p_children[InitProc] = <<>>
  /\ Rooted

(* Only its owner sleeps on a process's queue, for a child of its own that  *)
(* lives, unless the broadcast that will end the sleep is going on.         *)
Waiting ==
  \A t \in Thread :
    /\ stage[t] = "wait" => child[t] \in Thread /\ p_pproc[child[t]] = t
    /\ \A u \in Thread : ktq.wchan[u] = t => u = t /\ stage[t] = "wait"
    /\ ktq.wchan[t] = t /\ p_state[child[t]] = "PROC_DEAD" => bcast = t

ProcIInv == IInv /\ FamilyTypes /\ StageFitsThread /\ Kinship /\ Waiting
-----------------------------------------------------------------------------
LEMMA RunningProcess ==
  ASSUME IInv, FamilyTypes, StageFitsThread, NEW t \in Thread, Running(t)
  PROVE  t \in proc_list /\ kt_state[t] \in {"KT_RUN", "KT_EXITED"} /\ ktq.wchan[t] = NoQueue
BY DEF StageFitsThread, Running, proc_list, IInv, StateFitsQueue

(* A process that gives back its resources has a parent.                    *)
LEMMA LeavingHasParent ==
  ASSUME ProcIInv, NEW t \in Thread, Running(t), stage[t] \in Leaving
  PROVE  p_pproc[t] \in Thread
BY RunningProcess DEF ProcIInv, Kinship, FamilyTree, Parent, StageFitsThread

LEMMA FreeProcIsFree ==
  ASSUME NEW t \in Thread, proc_create(t)
  PROVE  /\ FreeProc(t) \in Thread /\ p_state[FreeProc(t)] = "none"
         /\ FreeProc(t) = InitProc <=> t = IdleThread
<1>1. PICK p \in Thread : p_state[p] = "none" /\ (p = InitProc <=> t = IdleThread)
  BY DEF proc_create
<1>2. CASE t = IdleThread
  BY <1>1, <1>2 DEF FreeProc
<1>3. CASE t # IdleThread
  <2>1. \E c \in Thread \ {InitProc} : p_state[c] = "none"
    BY <1>1, <1>3
  <2>. QED BY <1>3, <2>1 DEF FreeProc
<1>. QED BY <1>2, <1>3

(* Every step of the processes is one of the scheduler: a wake-up of the    *)
(* parent finds one.                                                        *)
LEMMA ProcStep == ProcIInv /\ [ProcNext]_allProcVars => [Next]_schedVars
<1> SUFFICES ASSUME ProcIInv, [ProcNext]_allProcVars PROVE [Next]_schedVars
  OBVIOUS
<1>1. CASE Machine
  BY <1>1 DEF Machine, Next
<1>2. ASSUME NEW t \in Thread, proc_create(t) PROVE [Next]_schedVars
  BY <1>2, FreeProcIsFree DEF proc_create, Next
<1>3. ASSUME NEW t \in Thread, StartChild(t) PROVE [Next]_schedVars
  BY <1>3 DEF StartChild, Next, ProcIInv, StageFitsThread
<1>4. ASSUME NEW t \in Thread, NEW c, NEW any, WaitForChild(t, c, any) PROVE [Next]_schedVars
  <2>1. t \in WaitQueue
    OBVIOUS
  <2>. QED BY <1>4, <2>1 DEF WaitForChild, SleepForChild, Reap, Next
<1>5. ASSUME NEW t \in Thread, (\E c \in Thread, any \in BOOLEAN : do_waitpid(t, c, any)) \/ WaitAgain(t)
      PROVE  [Next]_schedVars
  BY <1>4, <1>5 DEF do_waitpid, WaitAgain
<1>6. ASSUME NEW t \in Thread, proc_kill_all(t) \/ (\E p \in Thread : proc_kill(t, p)) \/ KillAllEnds(t)
      PROVE  [Next]_schedVars
  BY <1>6 DEF proc_kill_all, proc_kill, KillAllEnds, Next
<1>7. ASSUME NEW t \in Thread, do_exit(t) \/ CleanupEnds(t) \/ ThreadExited(t)
      PROVE  [Next]_schedVars
  BY <1>7 DEF do_exit, CleanupEnds, ThreadExited, Next
<1>8. ASSUME NEW t \in Thread, WakeParentAndReparent(t) \/ BecomeDead(t) PROVE [Next]_schedVars
  <2>1. Parent(t) \in WaitQueue
    BY <1>8, LeavingHasParent DEF WakeParentAndReparent, BecomeDead, Leaving, Parent
  <2>. QED BY <1>8, <2>1 DEF WakeParentAndReparent, BecomeDead, Next
<1>9. ASSUME NEW t \in Thread, CleanupBlocks(t) \/ Blocks(t) \/ Yields(t) PROVE [Next]_schedVars
  BY <1>9 DEF CleanupBlocks, Blocks, Yields, Next
<1>10. CASE UNCHANGED allProcVars
  BY <1>10 DEF allProcVars
<1>11. ASSUME NEW t \in Thread, ThreadStep(t) PROVE [Next]_schedVars
  BY <1>2, <1>3, <1>5, <1>6, <1>7, <1>8, <1>9, <1>11
  DEF ThreadStep, Exits
<1>. QED BY <1>1, <1>10, <1>11 DEF ProcNext
-----------------------------------------------------------------------------
(* What a step of the scheduler does to the threads it does not run: it     *)
(* wakes some that were asleep.                                             *)
OnlyWakes ==
  \A u \in Thread :
    /\ ktq'.wchan[u] \in {ktq.wchan[u], RunQ, NoQueue}
    /\ kt_state'[u] # kt_state[u] => kt_state[u] \in Sleeping /\ kt_state'[u] = "KT_RUN"

LEMMA WakesOnly ==
  ASSUME IInv, NEW q \in WaitQueue, WakeOne(q)
  PROVE  OnlyWakes
<1>1. PICK h \in Thread : /\ ktq.wchan[h] = q
                          /\ ktq'.wchan = [ktq.wchan EXCEPT ![h] = RunQ]
                          /\ kt_state' = [kt_state EXCEPT ![h] = "KT_RUN"]
  BY WakeOneOK DEF IInv
<1>. QED BY <1>1 DEF OnlyWakes, IInv, TypeOK, KtQueues, StateFitsQueue

(* A queue without links is one nobody sleeps on.                           *)
LEMMA NobodyOn ==
  ASSUME IInv, NEW q \in WaitQueue
  PROVE  ktq.size[q] > 0 <=> \E u \in Thread : ktq.wchan[u] = q
<1>1. /\ q \in Queue /\ ktq.list[q] \in Seq(Thread) /\ ktq.size[q] = Len(ktq.list[q])
      /\ DOMAIN ktq.list[q] = 1..Len(ktq.list[q]) /\ Len(ktq.list[q]) \in Nat
  BY DEF IInv, TypeOK, KtQueues, OnItsQueueOnly, QueuesOK, Queue
<1>2. ASSUME ktq.size[q] > 0 PROVE \E u \in Thread : ktq.wchan[u] = q
  <2>1. 1 \in DOMAIN ktq.list[q] /\ ktq.list[q][1] \in Thread
    BY <1>1, <1>2
  <2>. QED BY <1>1, <2>1 DEF IInv, OnItsQueueOnly, QueuesOK
<1>3. ASSUME NEW u \in Thread, ktq.wchan[u] = q PROVE ktq.size[q] > 0
  <2>1. \E i \in DOMAIN ktq.list[q] : ktq.list[q][i] = u
    BY <1>3 DEF IInv, OnItsQueueOnly, QueuesOK
  <2>. QED BY <1>1, <2>1
<1>. QED BY <1>2, <1>3

(* The steps of the machine: wake-ups, the end of a broadcast when nobody is *)
(* left on its queue, and dispatching a thread that can run.                *)
LEMMA MachineSteps ==
  ASSUME IInv, Machine
  PROVE  /\ OnlyWakes /\ UNCHANGED procVars
         /\ \/ curthr' = curthr /\ (cpu' = cpu \/ cpu # "run")
            \/ cpu # "run" /\ curthr' \in Thread /\ kt_state'[curthr'] = "KT_RUN"
         /\ \/ bcast' = bcast
            \/ \A u \in Thread : ktq'.wchan[u] # bcast
<1>1. CASE sched_switch
  <2> DEFINE h == Head(ktq.list[RunQ])
  <2>1. ktq \in KtQueues /\ QueuesOK(ktq) /\ RunQ \in Queue /\ ktq.list[RunQ] # <<>>
    BY <1>1 DEF IInv, TypeOK, OnItsQueueOnly, Queue, sched_switch
  <2>2. h \in Thread /\ ktq.wchan[h] = RunQ /\ ktq'.wchan = [ktq.wchan EXCEPT ![h] = NoQueue]
    BY <1>1, <2>1, DequeueOK DEF sched_switch
  <2>3. curthr' = h /\ cpu = "switch" /\ UNCHANGED <<kt_state, bcast>>
    BY <1>1 DEF sched_switch
  <2> HIDE DEF h
  <2>. QED BY <2>1, <2>2, <2>3 DEF OnlyWakes, KtQueues, IInv, StateFitsQueue, Machine
<1>2. CASE NoneRunnable \/ intr_wait
  BY <1>2 DEF NoneRunnable, intr_wait, OnlyWakes, Machine
<1>3. CASE BroadcastStep
  <2>1. CASE ktq.size[bcast] > 0
    BY <1>3, <2>1, WakesOnly DEF BroadcastStep, Machine
  <2>2. CASE ~(ktq.size[bcast] > 0)
    <3>1. \A u \in Thread : ktq.wchan[u] # bcast
      BY <1>3, <2>2, NobodyOn DEF BroadcastStep
    <3>. QED BY <1>3, <2>2, <3>1 DEF BroadcastStep, OnlyWakes, Machine
  <2>. QED BY <2>1, <2>2
<1>4. CASE \E q \in DevQueue : Interrupt(q)
  <2>1. PICK q \in DevQueue : Interrupt(q)
    BY <1>4
  <2>2. OnlyWakes
    BY <2>1, WakesOnly DEF Interrupt
  <2>. QED BY <2>1, <2>2 DEF Interrupt, Machine
<1>. QED BY <1>1, <1>2, <1>3, <1>4 DEF Machine

LEMMA CancelWakes ==
  ASSUME IInv, NEW p \in Thread, kthread_cancel(p)
  PROVE  OnlyWakes /\ UNCHANGED <<kt_ret, curthr, cpu, bcast>>
<1>1. /\ ktq' \in KtQueues /\ QueuesOK(ktq')
      /\ \/ UNCHANGED <<ktq, kt_state>>
         \/ /\ kt_state[p] = "KT_SLEEP_CANCELLABLE"
            /\ kt_state' = [kt_state EXCEPT ![p] = "KT_RUN"]
            /\ ktq'.wchan = [ktq.wchan EXCEPT ![p] = RunQ]
  BY CancelMoves
<1>. QED BY <1>1 DEF kthread_cancel, OnlyWakes, IInv, TypeOK, KtQueues, Sleeping

(* The running thread goes to sleep on a queue.                             *)
LEMMA Sleeps ==
  ASSUME IInv, NEW t \in Thread, NEW q \in WaitQueue,
         sched_sleep_on(t, q) \/ CancellableSleep(t, q)
  PROVE  /\ ktq'.wchan = [ktq.wchan EXCEPT ![t] = q]
         /\ \A u \in Thread \ {t} : kt_state'[u] = kt_state[u]
         /\ kt_state'[t] \in Sleeping
         /\ ktq.wchan \in [Thread -> Queue \cup {NoQueue}]
         /\ Running(t) /\ cpu' = "switch" /\ UNCHANGED <<curthr, bcast>>
<1>1. Running(t) /\ ktq' = ktqueue_enqueue(ktq, q, t) /\ cpu' = "switch" /\ UNCHANGED <<curthr, bcast>>
  BY DEF sched_sleep_on, CancellableSleep
<1>2. \E st \in Sleeping : kt_state' = [kt_state EXCEPT ![t] = st]
  BY DEF sched_sleep_on, CancellableSleep, Sleeping
<1>3. ktq'.wchan = [ktq.wchan EXCEPT ![t] = q]
  BY <1>1, SleepOK DEF IInv
<1>. QED BY <1>1, <1>2, <1>3 DEF IInv, TypeOK, KtQueues
-----------------------------------------------------------------------------
(* The branches of do_waitpid, with what its callers make sure of           *)
SleepsForChild(t, c) ==
  /\ sched_sleep_on(t, t)
  /\ stage' = [stage EXCEPT ![t] = "wait"]
  /\ child' = [child EXCEPT ![t] = c]
  /\ UNCHANGED <<p_state, p_pid, p_pproc, p_children, next_pid, victims>>

LEMMA WaitBranches ==
  ASSUME ProcIInv, NEW t \in Thread,
         (\E c \in Thread, any \in BOOLEAN : do_waitpid(t, c, any)) \/ WaitAgain(t)
  PROVE  \E c \in Thread :
           /\ Running(t) /\ stage[t] \in {"user", "wait"}
           /\ c \in Range(p_children[t]) /\ p_pproc[c] = t
           /\ \/ p_state[c] # "PROC_DEAD" /\ SleepsForChild(t, c)
              \/ p_state[c] = "PROC_DEAD" /\ Reap(t, c)
<1>1. CASE \E c \in Thread, any \in BOOLEAN : do_waitpid(t, c, any)
  <2>1. PICK c \in Thread, any \in BOOLEAN : do_waitpid(t, c, any)
    BY <1>1
  <2>2. p_pproc[c] = t
    BY <2>1 DEF do_waitpid, ProcIInv, Kinship, FamilyTree, Parent
  <2>3. \/ p_state[c] # "PROC_DEAD" /\ SleepsForChild(t, c)
        \/ p_state[c] = "PROC_DEAD" /\ Reap(t, c)
    BY <2>1 DEF do_waitpid, WaitForChild, SleepForChild, SleepsForChild
  <2>. QED BY <2>1, <2>2, <2>3 DEF do_waitpid, MayCall
<1>2. CASE WaitAgain(t)
  <2>1. child[t] \in Thread /\ p_pproc[child[t]] = t
    BY <1>2 DEF WaitAgain, ProcIInv, Waiting
  <2>2. child[t] \in proc_list \ {IdleThread}
    BY <2>1, Queues DEF ProcIInv, Kinship, proc_list, NoProc
  <2>3. child[t] \in Range(p_children[t])
    BY <2>1, <2>2 DEF ProcIInv, Kinship, FamilyTree, Parent
  <2>4. \/ p_state[child[t]] # "PROC_DEAD" /\ SleepsForChild(t, child[t])
        \/ p_state[child[t]] = "PROC_DEAD" /\ Reap(t, child[t])
    BY <1>2 DEF WaitAgain, WaitForChild, SleepForChild, SleepsForChild
  <2>. QED BY <1>2, <2>1, <2>3, <2>4 DEF WaitAgain
<1>. QED BY <1>1, <1>2


(* The types are kept.                                                      *)
LEMMA TypesStep ==
  ASSUME ProcIInv, [ProcNext]_allProcVars
  PROVE  FamilyTypes'
<1>0. FamilyTypes /\ IInv
  BY DEF ProcIInv
<1>1. CASE Machine \/ UNCHANGED allProcVars
  BY <1>0, <1>1 DEF Machine, allProcVars, procVars, FamilyTypes
<1>2. ASSUME NEW t \in Thread, proc_create(t) PROVE FamilyTypes'
  <2> DEFINE c == FreeProc(t)
  <2>1. c \in Thread
    BY <1>2, FreeProcIsFree
  <2>2. /\ p_state' = [p_state EXCEPT ![c] = "PROC_RUNNING"]
        /\ p_pproc' = [p_pproc EXCEPT ![c] = t]
        /\ p_children' = [p_children EXCEPT ![t] = Append(@, c), ![c] = <<>>]
        /\ stage' = [stage EXCEPT ![t] = "create", ![c] = "user"]
        /\ child' = [child EXCEPT ![t] = c]
    BY <1>2 DEF proc_create
  <2> HIDE DEF c
  <2>3. Append(p_children[t], c) \in Seq(Thread) /\ <<>> \in Seq(Thread)
    BY <1>0, <2>1 DEF FamilyTypes
  <2>. QED BY <1>0, <2>1, <2>2, <2>3 DEF FamilyTypes, Stage
<1>3. ASSUME NEW t \in Thread, StartChild(t) \/ proc_kill_all(t) \/ KillAllEnds(t)
                               \/ do_exit(t) \/ CleanupEnds(t) \/ CleanupBlocks(t) \/ BecomeDead(t)
      PROVE  FamilyTypes'
  BY <1>0, <1>3 DEF StartChild, proc_kill_all, KillAllEnds, do_exit, CleanupEnds, CleanupBlocks,
                    BecomeDead, FamilyTypes, Stage
<1>4. ASSUME NEW t \in Thread, NEW p \in Thread, proc_kill(t, p) PROVE FamilyTypes'
  BY <1>0, <1>4 DEF proc_kill, FamilyTypes
<1>5. ASSUME NEW t \in Thread, WakeParentAndReparent(t) PROVE FamilyTypes'
  <2>1. p_children[InitProc] \o p_children[t] \in Seq(Thread) /\ <<>> \in Seq(Thread)
    BY <1>0, AppendChildren DEF FamilyTypes
  <2>. QED BY <1>0, <1>5, <2>1 DEF WakeParentAndReparent, Reparent, FamilyTypes, Stage
<1>6. ASSUME NEW t \in Thread, ThreadExited(t) \/ Blocks(t) \/ Yields(t) PROVE FamilyTypes'
  BY <1>0, <1>6 DEF ThreadExited, Blocks, Yields, procVars, FamilyTypes
<1>7. ASSUME NEW t \in Thread,
             (\E c \in Thread, any \in BOOLEAN : do_waitpid(t, c, any)) \/ WaitAgain(t)
      PROVE  FamilyTypes'
  <2>1. PICK c \in Thread : /\ c \in Range(p_children[t])
                            /\ SleepsForChild(t, c) \/ Reap(t, c)
    BY <1>7, WaitBranches
  <2>2. CASE SleepsForChild(t, c)
    BY <1>0, <2>1, <2>2 DEF SleepsForChild, FamilyTypes, Stage
  <2>3. CASE Reap(t, c)
    <3>1. list_remove(p_children[t], c) \in Seq(Thread)
      BY <1>0, <2>1, RemoveChild DEF FamilyTypes, ProcIInv, Kinship, FamilyTree
    <3>. QED BY <1>0, <2>1, <2>3, <3>1 DEF Reap, FamilyTypes, Stage
  <2>. QED BY <2>1, <2>2, <2>3
<1>8. ASSUME NEW t \in Thread, ThreadStep(t) PROVE FamilyTypes'
  BY <1>2, <1>3, <1>4, <1>5, <1>6, <1>7, <1>8
  DEF ThreadStep, Exits
<1>. QED BY <1>1, <1>8 DEF ProcNext
-----------------------------------------------------------------------------
(* The family                                                               *)

(* A process that exits has a living init to leave its children to.         *)
LEMMA InitLives ==
  ASSUME FamilyTypes, Kinship, NEW t \in proc_list \ {IdleThread, InitProc}
  PROVE  /\ p_state[InitProc] = "PROC_RUNNING"
         /\ stage[InitProc] \notin {"cleanup", "flushed", "dead", "switch"}
<1> DEFINE S == proc_list \ {IdleThread, InitProc}
<1>1. PICK p \in S : p_pproc[p] \notin S
  BY DEF Kinship, Rooted
<1>2. p_pproc[p] \in Thread /\ p_pproc[p] # IdleThread /\ p_state[p_pproc[p]] = "PROC_RUNNING"
  BY <1>1 DEF Kinship, FamilyTree, Parent, proc_list
<1>3. p_pproc[p] = InitProc
  BY <1>1, <1>2 DEF proc_list
<1>. QED BY <1>1, <1>3 DEF Kinship, FamilyTree, Parent

(* Stages change, but nobody with children gets past the reparenting.       *)
LEMMA StagesMove ==
  ASSUME Kinship, UNCHANGED <<p_pproc, p_children>>, NEW t \in Thread,
         \A u \in Thread \ {t} : stage'[u] = stage[u],
         \/ stage'[t] = stage[t]
         \/ stage'[t] \notin Leaving
         \/ stage'[t] = "exit" /\ (t = InitProc => p_children[t] = <<>>)
         \/ stage'[t] # "exit" /\ stage[t] \in Leaving \ {"exit"},
         \/ p_state' = p_state
         \/ stage[t] \in Leaving \ {"exit"} /\ t \in proc_list
            /\ p_state' = [p_state EXCEPT ![t] = "PROC_DEAD"],
         FamilyTypes
  PROVE  Kinship'
<1>1. proc_list' = proc_list
  BY DEF proc_list, FamilyTypes
<1>2. FamilyTree'
  <2>1. ASSUME NEW p \in proc_list \ {IdleThread}
        PROVE  /\ p_pproc[p] \in Thread /\ p_state'[p_pproc[p]] = "PROC_RUNNING"
               /\ stage'[p_pproc[p]] \notin {"cleanup", "flushed", "dead", "switch"}
               /\ p \in Range(p_children[p_pproc[p]])
    BY <2>1 DEF Kinship, FamilyTree, Parent, Leaving, FamilyTypes, proc_list
  <2>. QED BY <1>1, <2>1 DEF Kinship, FamilyTree, Parent
<1>3. Rooted'
  BY <1>1 DEF Kinship, Rooted
<1>4. stage'[InitProc] = "exit" => p_children'[InitProc] = <<>>
  BY DEF Kinship, Leaving
<1>. QED BY <1>1, <1>2, <1>3, <1>4 DEF Kinship, proc_list

LEMMA CreateKin ==
  ASSUME ProcIInv, NEW t \in Thread, proc_create(t)
  PROVE  Kinship'
<1> DEFINE c == FreeProc(t)
<1>1. /\ c \in Thread /\ p_state[c] = "none" /\ (c = InitProc <=> t = IdleThread)
      /\ Running(t) /\ stage[t] = "user"
      /\ p_state' = [p_state EXCEPT ![c] = "PROC_RUNNING"]
      /\ p_pproc' = [p_pproc EXCEPT ![c] = t]
      /\ p_children' = [p_children EXCEPT ![t] = Append(@, c), ![c] = <<>>]
      /\ stage' = [stage EXCEPT ![t] = "create", ![c] = "user"]
  BY FreeProcIsFree DEF proc_create, MayCall
<1> HIDE DEF c
<1>2. /\ FamilyTypes /\ Kinship /\ t \in proc_list /\ t # c
      /\ p_state[t] = "PROC_RUNNING" /\ curthr = t
  <2>1. IInv /\ FamilyTypes /\ StageFitsThread /\ Kinship
    BY DEF ProcIInv
  <2>2. t \in proc_list /\ curthr = t
    BY <1>1, <2>1, RunningProcess DEF Running
  <2>3. p_state[t] \in {"PROC_RUNNING", "PROC_DEAD"} /\ p_state[t] # "PROC_DEAD"
    <3>1. p_state[t] # "none"
      BY <2>2 DEF proc_list
    <3>2. p_state[t] # "PROC_DEAD"
      BY <1>1, <2>1 DEF StageFitsThread
    <3>3. p_state[t] \in {"none", "PROC_RUNNING", "PROC_DEAD"}
      BY <2>1 DEF FamilyTypes
    <3>. QED BY <3>1, <3>2, <3>3
  <2>4. t # c
    BY <1>1, <2>3
  <2>. QED BY <2>1, <2>2, <2>3, <2>4
<1>3. proc_list' = proc_list \cup {c} /\ c \notin proc_list
  BY <1>1, <1>2 DEF proc_list, FamilyTypes
<1>4. \A q \in Thread : c \notin Range(p_children[q])
  BY <1>2, <1>3 DEF Kinship, FamilyTree
<1>5. /\ Range(p_children'[t]) = Range(p_children[t]) \cup {c} /\ IsInjective(p_children'[t])
      /\ Range(p_children'[c]) = {} /\ IsInjective(p_children'[c])
      /\ \A q \in Thread \ {t, c} : p_children'[q] = p_children[q]
  <2>1. p_children[t] \in Seq(Thread) /\ IsInjective(p_children[t])
    BY <1>2 DEF FamilyTypes, Kinship, FamilyTree
  <2>2. p_children'[t] = Append(p_children[t], c) /\ p_children'[c] = <<>>
    BY <1>1, <1>2 DEF FamilyTypes
  <2>3. Range(<<>>) = {} /\ IsInjective(<<>>)
    BY DEF Range, IsInjective
  <2>4. /\ Range(p_children'[t]) = Range(p_children[t]) \cup {c}
        /\ IsInjective(p_children'[t])
    <3>1. c \in Thread /\ c \notin Range(p_children[t])
      BY <1>1, <1>4
    <3>. QED BY <2>1, <2>2, <3>1, AppendChild
  <2>5. \A q \in Thread \ {t, c} : p_children'[q] = p_children[q]
    BY <1>1, <1>2 DEF FamilyTypes
  <2>. QED BY <2>2, <2>3, <2>4, <2>5
<1>6. \A p \in proc_list \ {IdleThread} : p_pproc[p] # c /\ p_pproc'[p] = p_pproc[p]
  BY <1>1, <1>2, <1>3 DEF Kinship, FamilyTree, Parent, FamilyTypes
<1>7. FamilyTree'
  <2>1. ASSUME NEW p \in proc_list' \ {IdleThread}
        PROVE  /\ p_pproc'[p] \in Thread /\ p_state'[p_pproc'[p]] = "PROC_RUNNING"
               /\ stage'[p_pproc'[p]] \notin {"cleanup", "flushed", "dead", "switch"}
               /\ p \in Range(p_children'[p_pproc'[p]])
    <3>1. CASE p = c
      BY <1>1, <1>2, <1>5, <3>1 DEF FamilyTypes
    <3>2. CASE p # c
      <4>1. p \in proc_list \ {IdleThread}
        BY <1>3, <2>1, <3>2
      <4>2. /\ p_pproc[p] \in Thread /\ p_state[p_pproc[p]] = "PROC_RUNNING"
            /\ stage[p_pproc[p]] \notin {"cleanup", "flushed", "dead", "switch"}
            /\ p \in Range(p_children[p_pproc[p]])
            /\ p_pproc[p] # c /\ p_pproc'[p] = p_pproc[p]
        BY <1>2, <1>6, <4>1 DEF Kinship, FamilyTree, Parent
      <4>3. p_state'[p_pproc[p]] = "PROC_RUNNING"
        BY <1>1, <1>2, <4>2 DEF FamilyTypes
      <4>4. stage'[p_pproc[p]] \notin {"cleanup", "flushed", "dead", "switch"}
        BY <1>1, <1>2, <4>2 DEF FamilyTypes
      <4>5. p \in Range(p_children'[p_pproc[p]])
        BY <1>5, <4>2
      <4>. QED BY <4>2, <4>3, <4>4, <4>5
    <3>. QED BY <3>1, <3>2
  <2>2. ASSUME NEW p \in Thread
        PROVE  /\ IsInjective(p_children'[p])
               /\ \A d \in Range(p_children'[p]) : d \in proc_list' /\ p_pproc'[d] = p
    <3>1. IsInjective(p_children[p]) /\ \A d \in Range(p_children[p]) : d \in proc_list /\ p_pproc[d] = p
      BY <1>2 DEF Kinship, FamilyTree, Parent
    <3>2. IsInjective(p_children'[p])
      BY <1>5, <3>1
    <3>3. ASSUME NEW d \in Range(p_children'[p]) PROVE d \in proc_list' /\ p_pproc'[d] = p
      <4>1. d \in Range(p_children[p]) \/ (p = t /\ d = c)
        BY <1>5, <3>3
      <4>2. d = c => p_pproc'[d] = t /\ d \in proc_list'
        BY <1>1, <1>2, <1>3 DEF FamilyTypes
      <4>3. d \in Range(p_children[p]) => d # c /\ d \in Thread
        BY <1>4, <3>1 DEF proc_list
      <4>. QED BY <1>1, <1>2, <1>3, <3>1, <4>1, <4>2, <4>3 DEF FamilyTypes
    <3>. QED BY <3>2, <3>3
  <2>. QED BY <2>1, <2>2 DEF FamilyTree, Parent
<1>8. Rooted'
  <2> SUFFICES ASSUME NEW S \in SUBSET (proc_list' \ {IdleThread, InitProc}), S # {}
               PROVE  \E p \in S : p_pproc'[p] \notin S
    BY DEF Rooted
  <2>1. CASE S = {c}
    BY <1>1, <1>2, <2>1 DEF FamilyTypes
  <2>2. CASE S # {c}
    <3>1. S \ {c} \in SUBSET (proc_list \ {IdleThread, InitProc}) /\ S \ {c} # {}
      BY <1>3, <2>2
    <3>2. PICK p \in S \ {c} : p_pproc[p] \notin S \ {c}
      BY <1>2, <3>1 DEF Kinship, Rooted
    <3>. QED BY <1>6, <3>1, <3>2
  <2>. QED BY <2>1, <2>2
<1>9. stage'[InitProc] # "exit"
  BY <1>1, <1>2 DEF FamilyTypes, ProcIInv, StageFitsThread
<1>10. ASSUME NEW p \in Thread
       PROVE  /\ p_state'[p] = "none" => p_pproc'[p] = NoProc
              /\ p_pproc'[p] = IdleThread => p = InitProc
  BY <1>1, <1>2 DEF Kinship, FamilyTypes
<1>11. p_pproc'[IdleThread] = NoProc
  <2>1. IdleThread # c
    BY <1>1, <1>2 DEF Kinship, proc_list
  <2>. QED BY <1>1, <1>2, <2>1 DEF Kinship, FamilyTypes
<1>12. IdleThread \in proc_list'
  BY <1>2, <1>3 DEF Kinship
<1>. QED BY <1>7, <1>8, <1>9, <1>10, <1>11, <1>12 DEF Kinship

LEMMA ReapKin ==
  ASSUME ProcIInv, NEW t \in Thread, NEW c \in Thread, Running(t), stage[t] \in {"user", "wait"},
         c \in Range(p_children[t]), p_pproc[c] = t, p_state[c] = "PROC_DEAD", Reap(t, c)
  PROVE  Kinship'
<1>1. /\ FamilyTypes /\ Kinship /\ c # t /\ curthr = t /\ c # IdleThread
      /\ p_children' = [p_children EXCEPT ![t] = list_remove(@, c)]
      /\ p_state' = [p_state EXCEPT ![c] = "none"]
      /\ p_pproc' = [p_pproc EXCEPT ![c] = NoProc]
      /\ stage' = [stage EXCEPT ![t] = "user"]
  <2>1. c # t
    BY DEF ProcIInv, StageFitsThread
  <2>2. c # IdleThread
    BY Queues DEF ProcIInv, Kinship, NoProc
  <2>. QED BY <2>1, <2>2 DEF ProcIInv, Reap, Running
<1>2. proc_list' = proc_list \ {c} /\ c \in proc_list
  BY <1>1 DEF proc_list, FamilyTypes
<1>3. /\ IsInjective(p_children'[t])
      /\ Range(p_children'[t]) = Range(p_children[t]) \ {c}
      /\ \A q \in Thread \ {t} : p_children'[q] = p_children[q]
  <2>1. p_children[t] \in Seq(Thread) /\ IsInjective(p_children[t])
    BY <1>1 DEF FamilyTypes, Kinship, FamilyTree
  <2>2. p_children'[t] = list_remove(p_children[t], c)
    BY <1>1 DEF FamilyTypes
  <2>3. \A q \in Thread \ {t} : p_children'[q] = p_children[q]
    BY <1>1 DEF FamilyTypes
  <2>. QED BY <2>1, <2>2, <2>3, RemoveChild
<1>4. \A p \in Thread \ {c} : p_pproc'[p] = p_pproc[p]
  BY <1>1 DEF FamilyTypes
<1>5. FamilyTree'
  <2>1. ASSUME NEW p \in proc_list' \ {IdleThread}
        PROVE  /\ p_pproc'[p] \in Thread /\ p_state'[p_pproc'[p]] = "PROC_RUNNING"
               /\ stage'[p_pproc'[p]] \notin {"cleanup", "flushed", "dead", "switch"}
               /\ p \in Range(p_children'[p_pproc'[p]])
    <3>1. p \in proc_list \ {IdleThread} /\ p # c /\ p_pproc'[p] = p_pproc[p]
      BY <1>2, <1>4, <2>1 DEF proc_list
    <3>2. /\ p_pproc[p] \in Thread /\ p_state[p_pproc[p]] = "PROC_RUNNING"
          /\ stage[p_pproc[p]] \notin {"cleanup", "flushed", "dead", "switch"}
          /\ p \in Range(p_children[p_pproc[p]])
      BY <1>1, <3>1 DEF Kinship, FamilyTree, Parent
    <3>3. p_state'[p_pproc[p]] = "PROC_RUNNING"
      BY <1>1, <3>2 DEF FamilyTypes
    <3>4. stage'[p_pproc[p]] \notin {"cleanup", "flushed", "dead", "switch"}
      BY <1>1, <3>2 DEF FamilyTypes
    <3>5. p \in Range(p_children'[p_pproc[p]])
      BY <1>3, <3>1, <3>2
    <3>. QED BY <3>1, <3>2, <3>3, <3>4, <3>5
  <2>2. ASSUME NEW p \in Thread
        PROVE  /\ IsInjective(p_children'[p])
               /\ \A d \in Range(p_children'[p]) : d \in proc_list' /\ p_pproc'[d] = p
    <3>1. IsInjective(p_children[p]) /\ \A d \in Range(p_children[p]) : d \in proc_list /\ p_pproc[d] = p
      BY <1>1 DEF Kinship, FamilyTree, Parent
    <3>2. IsInjective(p_children'[p])
      BY <1>3, <3>1
    <3>3. ASSUME NEW d \in Range(p_children'[p]) PROVE d \in proc_list' /\ p_pproc'[d] = p
      <4>1. d \in Range(p_children[p]) /\ d # c
        BY <1>3, <3>1, <3>3
      <4>. QED BY <1>2, <1>4, <3>1, <4>1 DEF proc_list
    <3>. QED BY <3>2, <3>3
  <2>. QED BY <2>1, <2>2 DEF FamilyTree, Parent
<1>6. Rooted'
  <2> SUFFICES ASSUME NEW S \in SUBSET (proc_list' \ {IdleThread, InitProc}), S # {}
               PROVE  \E p \in S : p_pproc'[p] \notin S
    BY DEF Rooted
  <2>1. PICK p \in S : p_pproc[p] \notin S
    BY <1>1, <1>2 DEF Kinship, Rooted
  <2>. QED BY <1>2, <1>4, <2>1 DEF proc_list
<1>7. stage'[InitProc] # "exit"
  BY <1>1 DEF FamilyTypes, ProcIInv, StageFitsThread
<1>8. ASSUME NEW p \in Thread
      PROVE  /\ p_state'[p] = "none" => p_pproc'[p] = NoProc
             /\ p_pproc'[p] = IdleThread => p = InitProc
  BY <1>1, Queues DEF Kinship, FamilyTypes, NoProc
<1>9. IdleThread \in proc_list' /\ p_pproc'[IdleThread] = NoProc
  BY <1>1, <1>2, <1>4 DEF Kinship
<1>. QED BY <1>5, <1>6, <1>7, <1>8, <1>9 DEF Kinship

LEMMA ReparentKin ==
  ASSUME ProcIInv, NEW t \in Thread, WakeParentAndReparent(t)
  PROVE  Kinship'
<1>1. /\ FamilyTypes /\ Kinship /\ Running(t) /\ stage[t] = "exit" /\ Reparent(t)
      /\ stage' = [stage EXCEPT ![t] = "cleanup"] /\ p_state' = p_state
  BY DEF ProcIInv, WakeParentAndReparent
<1>2. t \in proc_list /\ t # IdleThread /\ curthr = t
  BY <1>1, RunningProcess DEF ProcIInv, StageFitsThread, Leaving, Running
<1>3. proc_list' = proc_list
  BY <1>1 DEF proc_list
<1> DEFINE C == Range(p_children[t])
<1>4. /\ \A p \in Thread : p_pproc'[p] = IF p \in C THEN InitProc ELSE p_pproc[p]
      /\ \A p \in Thread : p \in C <=> p_pproc[p] = t
      /\ C \subseteq Thread
  <2>1. \A p \in Thread : p_pproc[p] = t => p \in proc_list \ {IdleThread}
    BY <1>1, Queues DEF Kinship, NoProc, proc_list
  <2>2. \A p \in Thread : p \in C <=> p_pproc[p] = t
    BY <1>1, <2>1 DEF Kinship, FamilyTree, Parent
  <2>3. C \subseteq Thread
    BY <1>1 DEF Kinship, FamilyTree, proc_list
  <2>. QED BY <1>1, <2>2, <2>3 DEF Reparent
<1>5. C # {} => /\ t # InitProc /\ p_state[InitProc] = "PROC_RUNNING"
                /\ stage[InitProc] \notin {"cleanup", "flushed", "dead", "switch"}
  <2>1. ASSUME C # {} PROVE t # InitProc
    <3>1. Range(<<>>) = {}
      BY DEF Range
    <3>. QED BY <1>1, <2>1, <3>1 DEF Kinship
  <2>. QED BY <1>1, <1>2, <2>1, InitLives
<1>6. /\ \A q \in Thread : Range(p_children'[q]) = IF q = t THEN {}
                               ELSE IF q = InitProc THEN Range(p_children[q]) \cup C ELSE Range(p_children[q])
      /\ \A q \in Thread : IsInjective(p_children'[q])
  <2>0. \A q \in Thread : IsInjective(p_children[q]) /\ p_children[q] \in Seq(Thread)
    BY <1>1 DEF Kinship, FamilyTree, FamilyTypes
  <2>1. CASE p_children[t] = <<>>
    <3>1. C = {} /\ p_children' = p_children
      BY <1>1, <2>1 DEF Reparent, Range
    <3>. QED BY <2>0, <3>1
  <2>2. CASE p_children[t] # <<>>
    <3>1. C # {}
      <4>1. 1 \in DOMAIN p_children[t]
        BY <2>0, <2>2
      <4>. QED BY <4>1 DEF Range
    <3>2. /\ p_children'[t] = <<>> /\ p_children'[InitProc] = p_children[InitProc] \o p_children[t]
          /\ \A q \in Thread \ {t, InitProc} : p_children'[q] = p_children[q]
      BY <1>1, <1>5, <2>2, <3>1 DEF Reparent, FamilyTypes
    <3>3. Range(<<>>) = {} /\ IsInjective(<<>>)
      BY DEF Range, IsInjective
    <3>4. Range(p_children[InitProc]) \cap C = {}
      BY <1>1, <1>4, <1>5, <3>1 DEF Kinship, FamilyTree, Parent
    <3>5. /\ Range(p_children'[InitProc]) = Range(p_children[InitProc]) \cup C
          /\ IsInjective(p_children'[InitProc])
      BY <2>0, <3>2, <3>4, AppendChildren
    <3>. QED BY <1>5, <2>0, <3>1, <3>2, <3>3, <3>5
  <2>. QED BY <2>1, <2>2
<1> HIDE DEF C
<1>7. FamilyTree'
  <2>1. ASSUME NEW p \in proc_list' \ {IdleThread}
        PROVE  /\ p_pproc'[p] \in Thread /\ p_state'[p_pproc'[p]] = "PROC_RUNNING"
               /\ stage'[p_pproc'[p]] \notin {"cleanup", "flushed", "dead", "switch"}
               /\ p \in Range(p_children'[p_pproc'[p]])
    <3>1. p \in proc_list \ {IdleThread} /\ p \in Thread
      BY <1>3, <2>1 DEF proc_list
    <3>2. /\ p_pproc[p] \in Thread /\ p_state[p_pproc[p]] = "PROC_RUNNING"
          /\ stage[p_pproc[p]] \notin {"cleanup", "flushed", "dead", "switch"}
          /\ p \in Range(p_children[p_pproc[p]])
      BY <1>1, <3>1 DEF Kinship, FamilyTree, Parent
    <3>3. CASE p \in C
      <4>1. p_pproc'[p] = InitProc /\ InitProc # t
        BY <1>4, <1>5, <3>1, <3>3
      <4>2. stage'[InitProc] = stage[InitProc]
        BY <1>1, <4>1 DEF FamilyTypes
      <4>. QED BY <1>1, <1>5, <1>6, <3>3, <4>1, <4>2
    <3>4. CASE p \notin C
      <4>1. p_pproc'[p] = p_pproc[p] /\ p_pproc[p] # t
        BY <1>4, <3>1, <3>4
      <4>2. stage'[p_pproc[p]] = stage[p_pproc[p]]
        BY <1>1, <3>2, <4>1 DEF FamilyTypes
      <4>. QED BY <1>1, <1>6, <3>2, <4>1, <4>2
    <3>. QED BY <3>3, <3>4
  <2>2. ASSUME NEW p \in Thread, NEW d \in Range(p_children'[p])
        PROVE  d \in proc_list' /\ p_pproc'[d] = p
    <3>1. \A q \in Thread : \A e \in Range(p_children[q]) : e \in proc_list /\ e \in Thread /\ p_pproc[e] = q
      BY <1>1 DEF Kinship, FamilyTree, Parent, proc_list
    <3>2. \A e \in C : e \in proc_list /\ e \in Thread /\ p_pproc'[e] = InitProc
      BY <1>4, <3>1 DEF C
    <3>3. CASE d \in C
      <4>1. p = InitProc
        BY <1>4, <1>6, <2>2, <3>1, <3>2, <3>3
      <4>. QED BY <1>3, <3>2, <3>3, <4>1
    <3>4. CASE d \notin C
      <4>1. Range(p_children'[p]) = IF p = t THEN {}
                               ELSE IF p = InitProc THEN Range(p_children[p]) \cup C ELSE Range(p_children[p])
        BY <1>6
      <4>2. d \in Range(p_children[p])
        BY <2>2, <3>4, <4>1
      <4>3. d \in proc_list /\ d \in Thread /\ p_pproc[d] = p
        BY <3>1, <4>2
      <4>. QED BY <1>3, <1>4, <3>4, <4>3
    <3>. QED BY <3>3, <3>4
  <2>. QED BY <1>6, <2>1, <2>2 DEF FamilyTree, Parent
<1>8. Rooted'
  <2> SUFFICES ASSUME NEW S \in SUBSET (proc_list \ {IdleThread, InitProc}), S # {}
               PROVE  \E p \in S : p_pproc'[p] \notin S
    BY <1>3 DEF Rooted
  <2>1. PICK p \in S : p_pproc[p] \notin S
    BY <1>1 DEF Kinship, Rooted
  <2>. QED BY <1>4, <2>1 DEF proc_list
<1>9. stage'[InitProc] # "exit"
  BY <1>1, <1>2 DEF FamilyTypes, ProcIInv, StageFitsThread
<1>10. ASSUME NEW p \in Thread
       PROVE  /\ p_state'[p] = "none" => p_pproc'[p] = NoProc
              /\ p_pproc'[p] = IdleThread => p = InitProc
  <2>1. p \in C => p \in proc_list
    BY <1>1 DEF C, Kinship, FamilyTree
  <2>. QED BY <1>1, <1>4, <2>1 DEF Kinship, proc_list
<1>11. IdleThread \in proc_list' /\ p_pproc'[IdleThread] = NoProc
  BY <1>1, <1>3, <1>4, Queues DEF Kinship, NoProc
<1>. QED BY <1>7, <1>8, <1>9, <1>10, <1>11 DEF Kinship
-----------------------------------------------------------------------------
(* Stages and threads                                                       *)

(* Nobody but the thread that has the CPU is at a stage that needs it.      *)
LEMMA OthersStages ==
  ASSUME StageFitsThread, NEW t \in Thread, curthr = t, NEW u \in Thread \ {t}
  PROVE  stage[u] \notin {"create", "kill", "exit", "dead"}
BY DEF StageFitsThread

(* What keeps StageFitsThread for a thread a step does not run              *)
LEMMA BystanderStage ==
  ASSUME StageFitsThread, NEW t \in Thread, curthr = t, curthr' = t,
         NEW u \in Thread \ {t},
         p_state'[u] = p_state[u], stage'[u] = stage[u],
         kt_state'[u] # kt_state[u] => kt_state[u] \notin {"KT_NO_STATE", "KT_EXITED"}
  PROVE  /\ p_state'[u] = "none" => curthr' # u /\ kt_state'[u] \in {"KT_NO_STATE", "KT_EXITED"}
         /\ p_state'[u] = "PROC_DEAD" => stage'[u] \in {"dead", "switch"}
         /\ stage'[u] = "switch" => kt_state'[u] = "KT_EXITED"
         /\ stage'[u] \notin {"create", "kill", "exit", "dead"}
BY DEF StageFitsThread

LEMMA MachineStage ==
  ASSUME ProcIInv, Machine
  PROVE  StageFitsThread'
<1>1. IInv /\ StageFitsThread /\ UNCHANGED procVars
  BY MachineSteps DEF ProcIInv
<1>2. /\ OnlyWakes
      /\ \/ curthr' = curthr /\ (cpu' = cpu \/ cpu # "run")
         \/ cpu # "run" /\ curthr' \in Thread /\ kt_state'[curthr'] = "KT_RUN"
  BY <1>1, MachineSteps
<1>3. \A u \in Thread : kt_state[u] \in {"KT_NO_STATE", "KT_EXITED"} => kt_state'[u] = kt_state[u]
  BY <1>2 DEF OnlyWakes, Sleeping
<1>4. UNCHANGED <<p_state, stage, child>>
  BY <1>1 DEF procVars
<1>5. ASSUME NEW u \in Thread
      PROVE  /\ p_state[u] = "none" => curthr' # u /\ kt_state'[u] \in {"KT_NO_STATE", "KT_EXITED"}
             /\ stage[u] = "switch" => kt_state'[u] = "KT_EXITED"
  <2>1. /\ p_state[u] = "none" => curthr # u /\ kt_state[u] \in {"KT_NO_STATE", "KT_EXITED"}
        /\ stage[u] = "switch" => kt_state[u] = "KT_EXITED"
    BY <1>1 DEF StageFitsThread
  <2>2. kt_state[u] \in {"KT_NO_STATE", "KT_EXITED"} => kt_state'[u] = kt_state[u]
    BY <1>3
  <2>3. curthr' = curthr \/ kt_state'[curthr'] = "KT_RUN"
    BY <1>2
  <2>. QED BY <2>1, <2>2, <2>3
<1>6. ASSUME NEW u \in Thread, stage[u] \in {"create", "kill", "exit", "dead"}
      PROVE  curthr' = u /\ cpu' = "run"
  BY <1>1, <1>2, <1>6 DEF StageFitsThread
<1>7. ASSUME NEW u \in Thread, stage[u] = "create"
      PROVE  /\ child[u] \in Thread /\ p_state[child[u]] = "PROC_RUNNING"
             /\ kt_state'[child[u]] = "KT_NO_STATE"
  BY <1>1, <1>3, <1>7 DEF StageFitsThread
<1>. QED BY <1>1, <1>4, <1>5, <1>6, <1>7 DEF StageFitsThread

LEMMA CreateStage ==
  ASSUME ProcIInv, NEW t \in Thread, proc_create(t)
  PROVE  StageFitsThread'
<1> DEFINE c == FreeProc(t)
<1>1. /\ c \in Thread /\ p_state[c] = "none" /\ (c = InitProc <=> t = IdleThread)
      /\ Running(t) /\ stage[t] = "user" /\ kthread_create(c)
      /\ p_state' = [p_state EXCEPT ![c] = "PROC_RUNNING"]
      /\ stage' = [stage EXCEPT ![t] = "create", ![c] = "user"]
      /\ child' = [child EXCEPT ![t] = c]
  BY FreeProcIsFree DEF proc_create, MayCall
<1> HIDE DEF c
<1>2. /\ FamilyTypes /\ StageFitsThread /\ t # c
      /\ curthr = t /\ curthr' = t /\ cpu' = "run"
      /\ kt_state' = [kt_state EXCEPT ![c] = "KT_NO_STATE"]
      /\ kt_state \in [Thread -> ThreadState]
  BY <1>1 DEF ProcIInv, kthread_create, Running, IInv, TypeOK
<1>3. /\ stage'[t] = "create" /\ stage'[c] = "user" /\ child'[t] = c
      /\ p_state'[c] = "PROC_RUNNING" /\ kt_state'[c] = "KT_NO_STATE"
      /\ p_state'[t] = p_state[t] /\ kt_state'[t] = kt_state[t]
  BY <1>1, <1>2 DEF FamilyTypes
<1>4. ASSUME NEW u \in Thread \ {t, c}
      PROVE  /\ p_state'[u] = "none" => curthr' # u /\ kt_state'[u] \in {"KT_NO_STATE", "KT_EXITED"}
             /\ p_state'[u] = "PROC_DEAD" => stage'[u] \in {"dead", "switch"}
             /\ stage'[u] = "switch" => kt_state'[u] = "KT_EXITED"
             /\ stage'[u] \notin {"create", "kill", "exit", "dead"}
  <2>1. p_state'[u] = p_state[u] /\ stage'[u] = stage[u] /\ kt_state'[u] = kt_state[u]
    BY <1>1, <1>2 DEF FamilyTypes
  <2>. QED BY <1>2, <2>1, BystanderStage
<1>5. p_state[t] # "none" /\ p_state[t] # "PROC_DEAD"
  BY <1>1, <1>2 DEF StageFitsThread
<1>6. stage'[IdleThread] \notin Leaving \cup {"kill"} /\ stage'[InitProc] # "kill"
  BY <1>1, <1>2 DEF StageFitsThread, FamilyTypes, Leaving
<1>7. ASSUME NEW u \in Thread
      PROVE  /\ p_state'[u] = "none" => curthr' # u /\ kt_state'[u] \in {"KT_NO_STATE", "KT_EXITED"}
             /\ p_state'[u] = "PROC_DEAD" => stage'[u] \in {"dead", "switch"}
             /\ stage'[u] = "switch" => kt_state'[u] = "KT_EXITED"
             /\ stage'[u] \in {"create", "kill", "exit", "dead"} => u = t
  <2>1. CASE u \in {t, c}
    BY <1>3, <1>5, <2>1
  <2>2. CASE u \notin {t, c}
    BY <1>4, <2>2
  <2>. QED BY <2>1, <2>2
<1>8. ASSUME NEW u \in Thread
      PROVE  /\ stage'[u] \in {"create", "kill", "exit", "dead"} => curthr' = u /\ cpu' = "run"
             /\ stage'[u] = "create" => /\ child'[u] \in Thread
                                        /\ kt_state'[child'[u]] = "KT_NO_STATE"
                                        /\ p_state'[child'[u]] = "PROC_RUNNING"
  <2>1. c \in Thread /\ curthr' = t /\ cpu' = "run"
    BY <1>1, <1>2
  <2>. QED BY <1>3, <1>7, <2>1
<1>. QED BY <1>6, <1>7, <1>8 DEF StageFitsThread

(* The steps of a running thread t that change at most its own stage and    *)
(* wake sleepers; t becomes PROC_DEAD only as its stage becomes "dead".     *)
LEMMA OwnStage ==
  ASSUME FamilyTypes, StageFitsThread, NEW t \in Thread, curthr = t, curthr' = t,
         t \in proc_list,
         \A u \in Thread \ {t} :
           /\ stage'[u] = stage[u]
           /\ kt_state'[u] # kt_state[u] => kt_state[u] \in Sleeping \/ p_state[u] = "PROC_RUNNING",
         stage'[t] # "create",
         stage'[t] \in {"kill", "exit", "dead"} => cpu' = "run",
         stage'[t] = "switch" => kt_state'[t] = "KT_EXITED",
         t = IdleThread => stage'[t] \notin Leaving \cup {"kill"},
         t = InitProc => stage'[t] # "kill",
         \/ p_state' = p_state /\ (p_state[t] = "PROC_DEAD" => stage'[t] = "switch")
         \/ p_state' = [p_state EXCEPT ![t] = "PROC_DEAD"] /\ stage'[t] = "dead",
         \A u \in Thread \ {t} : stage[u] = "switch" => kt_state'[u] = "KT_EXITED"
  PROVE  StageFitsThread'
<1>1. ASSUME NEW u \in Thread \ {t}
      PROVE  /\ p_state'[u] = "none" => curthr' # u /\ kt_state'[u] \in {"KT_NO_STATE", "KT_EXITED"}
             /\ p_state'[u] = "PROC_DEAD" => stage'[u] \in {"dead", "switch"}
             /\ stage'[u] = "switch" => kt_state'[u] = "KT_EXITED"
             /\ stage'[u] \notin {"create", "kill", "exit", "dead"}
  <2>1. p_state'[u] = p_state[u] /\ stage'[u] = stage[u]
    BY DEF FamilyTypes
  <2>2. p_state[u] = "none" => kt_state'[u] = kt_state[u]
    BY DEF StageFitsThread, Sleeping
  <2>. QED BY <2>1, <2>2 DEF StageFitsThread
<1>2. /\ p_state'[t] # "none"
      /\ p_state'[t] = "PROC_DEAD" => stage'[t] \in {"dead", "switch"}
  BY DEF FamilyTypes, proc_list
<1>3. stage'[IdleThread] \notin Leaving \cup {"kill"} /\ stage'[InitProc] # "kill"
  BY DEF StageFitsThread
<1>4. ASSUME NEW u \in Thread
      PROVE  /\ p_state'[u] = "none" => curthr' # u /\ kt_state'[u] \in {"KT_NO_STATE", "KT_EXITED"}
             /\ p_state'[u] = "PROC_DEAD" => stage'[u] \in {"dead", "switch"}
             /\ stage'[u] = "switch" => kt_state'[u] = "KT_EXITED"
             /\ stage'[u] \in {"kill", "exit", "dead"} => u = t
             /\ stage'[u] # "create"
  <2>1. CASE u = t
    BY <1>2, <2>1
  <2>2. CASE u # t
    BY <1>1, <2>2
  <2>. QED BY <2>1, <2>2
<1>5. ASSUME NEW u \in Thread, stage'[u] \in {"create", "kill", "exit", "dead"}
      PROVE  curthr' = u /\ cpu' = "run"
  BY <1>4, <1>5
<1>. QED BY <1>3, <1>4, <1>5 DEF StageFitsThread

LEMMA ReapStage ==
  ASSUME ProcIInv, NEW t \in Thread, NEW c \in Thread, Running(t), stage[t] \in {"user", "wait"},
         p_state[c] = "PROC_DEAD", Reap(t, c)
  PROVE  StageFitsThread'
<1>1. /\ FamilyTypes /\ StageFitsThread /\ IInv /\ curthr = t /\ t \in proc_list
      /\ p_state' = [p_state EXCEPT ![c] = "none"]
      /\ stage' = [stage EXCEPT ![t] = "user"]
      /\ child' = [child EXCEPT ![t] = NoProc]
      /\ UNCHANGED <<kt_state, curthr, cpu>>
  BY RunningProcess DEF ProcIInv, Reap, Running, schedVars
<1>2. stage[c] \in {"dead", "switch"} /\ c # t
  BY <1>1 DEF StageFitsThread
<1>3. kt_state[c] = "KT_EXITED"
  BY <1>1, <1>2 DEF StageFitsThread
<1>4. ASSUME NEW u \in Thread
      PROVE  /\ p_state'[u] = "none" => curthr # u /\ kt_state[u] \in {"KT_NO_STATE", "KT_EXITED"}
             /\ p_state'[u] = "PROC_DEAD" => stage'[u] \in {"dead", "switch"}
             /\ stage'[u] = "switch" => kt_state[u] = "KT_EXITED"
             /\ stage'[u] \notin {"create", "kill", "exit", "dead"}
  <2>1. CASE u = t
    BY <1>1, <1>2, <2>1 DEF FamilyTypes, proc_list, StageFitsThread
  <2>2. CASE u = c
    BY <1>1, <1>2, <1>3, <2>2, OthersStages DEF FamilyTypes
  <2>3. CASE u \notin {t, c}
    <3>1. p_state'[u] = p_state[u] /\ stage'[u] = stage[u]
      BY <1>1, <2>3 DEF FamilyTypes
    <3>. QED BY <1>1, <2>3, <3>1 DEF StageFitsThread
  <2>. QED BY <2>1, <2>2, <2>3
<1>5. stage'[IdleThread] \notin Leaving \cup {"kill"} /\ stage'[InitProc] # "kill"
  BY <1>1 DEF StageFitsThread, FamilyTypes, Leaving
<1>. QED BY <1>1, <1>4, <1>5 DEF StageFitsThread

LEMMA StageStep ==
  ASSUME ProcIInv, [ProcNext]_allProcVars
  PROVE  StageFitsThread'
<1>0. IInv /\ FamilyTypes /\ StageFitsThread
  BY DEF ProcIInv
<1>1. CASE Machine
  BY <1>1, MachineStage
<1>2. CASE UNCHANGED allProcVars
  BY <1>0, <1>2 DEF allProcVars, schedVars, procVars, StageFitsThread
<1>3. ASSUME NEW t \in Thread, proc_create(t) PROVE StageFitsThread'
  BY <1>3, CreateStage
(* In all the others the thread that runs moves on.                         *)
<1>4. ASSUME NEW t \in Thread, Running(t), stage[t] # "switch", stage[t] # "dead"
      PROVE  /\ curthr = t /\ t \in proc_list /\ p_state[t] = "PROC_RUNNING"
             /\ \A u \in Thread : stage[u] = "switch" => kt_state[u] = "KT_EXITED"
             /\ stage[t] \in Leaving \cup {"kill"} => t # IdleThread
             /\ stage[t] = "kill" => t # InitProc
             /\ kt_state \in [Thread -> ThreadState]
  <2>1. t \in proc_list /\ curthr = t
    BY <1>0, <1>4, RunningProcess DEF Running
  <2>2. p_state[t] = "PROC_RUNNING"
    BY <1>0, <1>4, <2>1 DEF FamilyTypes, StageFitsThread, proc_list
  <2>. QED BY <1>0, <2>1, <2>2 DEF StageFitsThread, IInv, TypeOK
<1>5. ASSUME OnlyWakes, NEW u \in Thread
      PROVE  /\ kt_state'[u] # kt_state[u] => kt_state[u] \in Sleeping
             /\ stage[u] = "switch" => kt_state'[u] = "KT_EXITED"
  BY <1>0, <1>5 DEF OnlyWakes, StageFitsThread, Sleeping
<1>6. ASSUME NEW t \in Thread, StartChild(t) PROVE StageFitsThread'
  <2>1. /\ Running(t) /\ stage[t] = "create" /\ stage' = [stage EXCEPT ![t] = "user"]
        /\ p_state' = p_state /\ curthr' = curthr
        /\ kt_state' = [kt_state EXCEPT ![child[t]] = "KT_RUN"]
    BY <1>6 DEF StartChild, sched_make_runnable, MakeRunnable
  <2>2. child[t] \in Thread /\ kt_state[child[t]] = "KT_NO_STATE" /\ p_state[child[t]] = "PROC_RUNNING"
    BY <1>0, <2>1 DEF StageFitsThread
  <2>3. ASSUME NEW u \in Thread \ {t}
        PROVE  /\ stage'[u] = stage[u]
               /\ kt_state'[u] # kt_state[u] => p_state[u] = "PROC_RUNNING"
               /\ stage[u] = "switch" => kt_state'[u] = "KT_EXITED"
    BY <1>0, <1>4, <2>1, <2>2 DEF FamilyTypes
  <2>4. stage'[t] = "user"
    BY <1>0, <2>1 DEF FamilyTypes
  <2>. QED BY <1>0, <1>4, <2>1, <2>3, <2>4, OwnStage DEF Leaving
<1>7. ASSUME NEW t \in Thread, NEW st \in {"kill", "exit"}, Running(t), stage[t] \in {"user", "kill"},
             st = "kill" => t # InitProc, t # IdleThread,
             stage' = [stage EXCEPT ![t] = st], p_state' = p_state, curthr' = curthr, cpu' = cpu,
             \A u \in Thread \ {t} : kt_state'[u] = kt_state[u]
      PROVE  StageFitsThread'
  <2>1. stage'[t] = st /\ \A u \in Thread \ {t} : stage'[u] = stage[u]
    BY <1>0, <1>7 DEF FamilyTypes
  <2>. QED BY <1>0, <1>4, <1>7, <2>1, OwnStage DEF Running
<1>8. ASSUME NEW t \in Thread, do_exit(t) \/ proc_kill_all(t) \/ KillAllEnds(t)
      PROVE  StageFitsThread'
  <2>1. kt_state \in [Thread -> ThreadState]
    BY <1>0 DEF IInv, TypeOK
  <2>2. CASE do_exit(t)
    BY <1>0, <1>7, <2>1, <2>2 DEF do_exit, kthread_exit
  <2>3. CASE proc_kill_all(t)
    BY <1>0, <1>7, <2>3 DEF proc_kill_all, ActsFreely, MayCall, schedVars
  <2>4. CASE KillAllEnds(t)
    <3>1. t # IdleThread
      BY <1>0, <2>4 DEF KillAllEnds, StageFitsThread
    <3>. QED BY <1>0, <1>7, <2>1, <2>4, <3>1 DEF KillAllEnds, kthread_exit
  <2>. QED BY <1>8, <2>2, <2>3, <2>4
<1>9. ASSUME NEW t \in Thread, NEW p \in Thread, proc_kill(t, p) PROVE StageFitsThread'
  <2>1. /\ Running(t) /\ stage[t] = "kill" /\ kthread_cancel(p) /\ UNCHANGED <<stage, p_state>>
    BY <1>9 DEF proc_kill
  <2>2. OnlyWakes /\ UNCHANGED <<curthr, cpu>>
    BY <1>0, <2>1, CancelWakes
  <2>. QED BY <1>0, <1>4, <1>5, <2>1, <2>2, OwnStage DEF Running
<1>10. ASSUME NEW t \in Thread, WakeParentAndReparent(t) PROVE StageFitsThread'
  <2>1. /\ Running(t) /\ stage[t] = "exit" /\ stage' = [stage EXCEPT ![t] = "cleanup"]
        /\ p_state' = p_state
    BY <1>10 DEF WakeParentAndReparent
  <2>2. OnlyWakes /\ curthr' = curthr
    <3>1. CASE UNCHANGED schedVars
      BY <3>1 DEF schedVars, OnlyWakes
    <3>2. CASE sched_wakeup_on(Parent(t))
      <4>1. Parent(t) \in WaitQueue
        BY <2>1, LeavingHasParent DEF Leaving, Parent
      <4>. QED BY <1>0, <3>2, <4>1, WakesOnly DEF sched_wakeup_on
    <3>. QED BY <1>10, <3>1, <3>2 DEF WakeParentAndReparent
  <2>3. stage'[t] = "cleanup" /\ \A u \in Thread \ {t} : stage'[u] = stage[u]
    BY <1>0, <2>1 DEF FamilyTypes
  <2>. QED BY <1>0, <1>4, <1>5, <2>1, <2>2, <2>3, OwnStage DEF Leaving
<1>11. ASSUME NEW t \in Thread, BecomeDead(t) PROVE StageFitsThread'
  <2>1. /\ Running(t) /\ stage[t] \in {"cleanup", "flushed"}
        /\ stage' = [stage EXCEPT ![t] = "dead"]
        /\ p_state' = [p_state EXCEPT ![t] = "PROC_DEAD"]
        /\ UNCHANGED <<kt_state, curthr, cpu>>
    BY <1>11 DEF BecomeDead, sched_broadcast_on, schedVars
  <2>2. stage'[t] = "dead" /\ \A u \in Thread \ {t} : stage'[u] = stage[u]
    BY <1>0, <2>1 DEF FamilyTypes
  <2>. QED BY <1>0, <1>4, <2>1, <2>2, OwnStage DEF Leaving, Running
<1>12. ASSUME NEW t \in Thread, CleanupEnds(t) PROVE StageFitsThread'
  <2>1. /\ Running(t) /\ stage[t] = "dead" /\ stage' = [stage EXCEPT ![t] = "switch"]
        /\ kt_state' = [kt_state EXCEPT ![t] = "KT_EXITED"]
        /\ UNCHANGED <<p_state, curthr, cpu>>
    BY <1>12 DEF CleanupEnds, kthread_exit
  <2>2. /\ stage'[t] = "switch" /\ \A u \in Thread \ {t} : stage'[u] = stage[u]
        /\ kt_state'[t] = "KT_EXITED" /\ \A u \in Thread \ {t} : kt_state'[u] = kt_state[u]
    BY <1>0, <2>1 DEF FamilyTypes, IInv, TypeOK
  <2>3. t \in proc_list /\ curthr = t /\ t # IdleThread
    BY <1>0, <2>1, RunningProcess DEF Running, StageFitsThread, Leaving
  <2>4. \A u \in Thread \ {t} : stage[u] = "switch" => kt_state'[u] = "KT_EXITED"
    BY <1>0, <2>2 DEF StageFitsThread
  <2>. QED BY <1>0, <2>1, <2>2, <2>3, <2>4, OwnStage
<1>13. ASSUME NEW t \in Thread, ThreadExited(t) PROVE StageFitsThread'
  <2>1. Running(t) /\ stage[t] = "switch" /\ UNCHANGED <<p_state, stage, child, kt_state, curthr>>
    BY <1>13 DEF ThreadExited, proc_thread_exited, procVars
  <2>2. \A u \in Thread : stage[u] \notin {"create", "kill", "exit", "dead"}
    BY <1>0, <2>1 DEF StageFitsThread, Running
  <2>. QED BY <1>0, <2>1, <2>2 DEF StageFitsThread
(* The steps that end with the thread asleep or on the run queue            *)
<1>14. ASSUME NEW t \in Thread, Running(t), stage[t] \notin {"switch", "dead"},
              stage'[t] \in {"user", "wait", "flushed"},
              t = IdleThread => stage'[t] # "flushed",
              \A u \in Thread \ {t} : stage'[u] = stage[u],
              UNCHANGED <<p_state, curthr>>, \A u \in Thread \ {t} : kt_state'[u] = kt_state[u]
       PROVE  StageFitsThread'
  BY <1>0, <1>4, <1>14, OwnStage DEF Leaving
<1>15. ASSUME NEW t \in Thread, CleanupBlocks(t) PROVE StageFitsThread'
  <2>1. PICK q \in DevQueue : sched_sleep_on(t, q)
    BY <1>15 DEF CleanupBlocks
  <2>2. Running(t) /\ stage[t] = "cleanup" /\ stage' = [stage EXCEPT ![t] = "flushed"] /\ p_state' = p_state
    BY <1>15 DEF CleanupBlocks
  <2>3. curthr' = curthr /\ \A u \in Thread \ {t} : kt_state'[u] = kt_state[u]
    BY <1>0, <2>1, Sleeps, Queues
  <2>4. stage'[t] = "flushed" /\ \A u \in Thread \ {t} : stage'[u] = stage[u]
    BY <1>0, <2>2 DEF FamilyTypes
  <2>5. t # IdleThread
    BY <1>0, <2>2 DEF StageFitsThread, Leaving
  <2>. QED BY <1>14, <2>2, <2>3, <2>4, <2>5
<1>16. ASSUME NEW t \in Thread, Blocks(t) \/ Yields(t) PROVE StageFitsThread'
  <2>1. Running(t) /\ stage[t] = "user" /\ UNCHANGED <<stage, p_state>>
    BY <1>16 DEF Blocks, Yields, ActsFreely, MayCall, procVars
  <2>2. curthr' = curthr /\ \A u \in Thread \ {t} : kt_state'[u] = kt_state[u]
    BY <1>0, <1>16 DEF Blocks, Yields, Yield, MakeRunnable, sched_sleep_on,
       sched_cancellable_sleep_on, CancellableSleep, IInv, TypeOK
  <2>. QED BY <1>14, <2>1, <2>2
<1>17. ASSUME NEW t \in Thread,
              (\E c \in Thread, any \in BOOLEAN : do_waitpid(t, c, any)) \/ WaitAgain(t)
       PROVE  StageFitsThread'
  <2>1. PICK c \in Thread :
           /\ Running(t) /\ stage[t] \in {"user", "wait"}
           /\ c \in Range(p_children[t]) /\ p_pproc[c] = t
           /\ \/ p_state[c] # "PROC_DEAD" /\ SleepsForChild(t, c)
              \/ p_state[c] = "PROC_DEAD" /\ Reap(t, c)
    BY <1>17, WaitBranches
  <2>2. CASE SleepsForChild(t, c)
    <3>1. stage'[t] = "wait" /\ (\A u \in Thread \ {t} : stage'[u] = stage[u]) /\ p_state' = p_state
      BY <1>0, <2>2 DEF SleepsForChild, FamilyTypes
    <3>2. curthr' = curthr /\ \A u \in Thread \ {t} : kt_state'[u] = kt_state[u]
      BY <1>0, <2>2, Sleeps, Queues DEF SleepsForChild
    <3>. QED BY <1>14, <2>1, <3>1, <3>2
  <2>. QED BY <2>1, <2>2, ReapStage
<1>18. ASSUME NEW t \in Thread, ThreadStep(t) PROVE StageFitsThread'
  BY <1>3, <1>6, <1>8, <1>9, <1>10, <1>11, <1>12, <1>13, <1>15, <1>16, <1>17, <1>18
  DEF ThreadStep, Exits
<1>. QED BY <1>1, <1>2, <1>18 DEF ProcNext

LEMMA KinStep ==
  ASSUME ProcIInv, [ProcNext]_allProcVars
  PROVE  Kinship'
<1>0. IInv /\ FamilyTypes /\ StageFitsThread /\ Kinship
  BY DEF ProcIInv
<1>1. ASSUME UNCHANGED procVars PROVE Kinship'
  BY <1>0, <1>1 DEF procVars, Kinship, FamilyTree, Parent, Rooted, proc_list
<1>2. CASE Machine \/ UNCHANGED allProcVars
  BY <1>1, <1>2 DEF Machine, allProcVars
<1>3. ASSUME NEW t \in Thread, proc_create(t) PROVE Kinship'
  BY <1>3, CreateKin
<1>4. ASSUME NEW t \in Thread, NEW st, UNCHANGED <<p_pproc, p_children, p_state>>,
             stage' = [stage EXCEPT ![t] = st],
             \/ st \notin Leaving
             \/ st = "exit" /\ (t = InitProc => p_children[t] = <<>>)
             \/ st # "exit" /\ stage[t] \in Leaving \ {"exit"}
      PROVE  Kinship'
  <2>1. stage'[t] = st /\ \A u \in Thread \ {t} : stage'[u] = stage[u]
    BY <1>0, <1>4 DEF FamilyTypes
  <2>. QED BY <1>0, <1>4, <2>1, StagesMove
<1>5. ASSUME NEW t \in Thread, StartChild(t) \/ proc_kill_all(t) PROVE Kinship'
  BY <1>4, <1>5 DEF StartChild, proc_kill_all, Leaving
<1>6. ASSUME NEW t \in Thread, do_exit(t) PROVE Kinship'
  BY <1>4, <1>6 DEF do_exit
<1>7. ASSUME NEW t \in Thread, KillAllEnds(t) PROVE Kinship'
  <2>1. t # InitProc
    BY <1>0, <1>7 DEF KillAllEnds, StageFitsThread
  <2>. QED BY <1>4, <1>7, <2>1 DEF KillAllEnds
<1>8. ASSUME NEW t \in Thread, CleanupBlocks(t) \/ CleanupEnds(t) PROVE Kinship'
  BY <1>4, <1>8 DEF CleanupBlocks, CleanupEnds, Leaving
<1>9. ASSUME NEW t \in Thread, BecomeDead(t) PROVE Kinship'
  <2>1. /\ Running(t) /\ stage[t] \in {"cleanup", "flushed"} /\ UNCHANGED <<p_pproc, p_children>>
        /\ stage' = [stage EXCEPT ![t] = "dead"] /\ p_state' = [p_state EXCEPT ![t] = "PROC_DEAD"]
    BY <1>9 DEF BecomeDead
  <2>2. t \in proc_list
    BY <1>0, <2>1, RunningProcess
  <2>3. stage'[t] = "dead" /\ \A u \in Thread \ {t} : stage'[u] = stage[u]
    BY <1>0, <2>1 DEF FamilyTypes
  <2>. QED BY <1>0, <2>1, <2>2, <2>3, StagesMove DEF Leaving
<1>10. ASSUME NEW t \in Thread, NEW p \in Thread, proc_kill(t, p) PROVE Kinship'
  BY <1>0, <1>10 DEF proc_kill, Kinship, FamilyTree, Parent, Rooted, proc_list
<1>11. ASSUME NEW t \in Thread, WakeParentAndReparent(t) PROVE Kinship'
  BY <1>11, ReparentKin
<1>12. ASSUME NEW t \in Thread, ThreadExited(t) \/ Blocks(t) \/ Yields(t) PROVE Kinship'
  BY <1>1, <1>12 DEF ThreadExited, Blocks, Yields
<1>13. ASSUME NEW t \in Thread,
              (\E c \in Thread, any \in BOOLEAN : do_waitpid(t, c, any)) \/ WaitAgain(t)
       PROVE  Kinship'
  <2>1. PICK c \in Thread :
           /\ Running(t) /\ stage[t] \in {"user", "wait"}
           /\ c \in Range(p_children[t]) /\ p_pproc[c] = t
           /\ \/ p_state[c] # "PROC_DEAD" /\ SleepsForChild(t, c)
              \/ p_state[c] = "PROC_DEAD" /\ Reap(t, c)
    BY <1>13, WaitBranches
  <2>2. CASE SleepsForChild(t, c)
    BY <1>4, <2>2 DEF SleepsForChild, Leaving
  <2>. QED BY <2>1, <2>2, ReapKin
<1>14. ASSUME NEW t \in Thread, ThreadStep(t) PROVE Kinship'
  BY <1>3, <1>5, <1>6, <1>7, <1>8, <1>9, <1>10, <1>11, <1>12, <1>13, <1>14
  DEF ThreadStep, Exits
<1>. QED BY <1>2, <1>14 DEF ProcNext
-----------------------------------------------------------------------------
(* Waiting for children                                                     *)

(* The steps after which nobody sleeps on a process's queue who did not     *)
(* before, and no child that is waited for dies.                            *)
LEMMA KeepsWaiting ==
  ASSUME Waiting,
         \A u \in Thread : ktq'.wchan[u] = ktq.wchan[u] \/ ktq'.wchan[u] \notin Thread,
         \A u \in Thread : ktq.wchan[u] \in Thread => stage'[u] = stage[u],
         \A u \in Thread : stage'[u] = "wait" =>
           stage[u] = "wait" /\ child'[u] = child[u]
           /\ (p_pproc[child[u]] = u => p_pproc'[child[u]] = u),
         \A u \in Thread : p_state'[u] = "PROC_DEAD" => p_state[u] = "PROC_DEAD",
         bcast' = bcast \/ \A u \in Thread : ktq'.wchan[u] # bcast
  PROVE  Waiting'
<1> SUFFICES ASSUME NEW t \in Thread
             PROVE  /\ stage'[t] = "wait" => child'[t] \in Thread /\ p_pproc'[child'[t]] = t
                    /\ \A u \in Thread : ktq'.wchan[u] = t => u = t /\ stage'[t] = "wait"
                    /\ ktq'.wchan[t] = t /\ p_state'[child'[t]] = "PROC_DEAD" => bcast' = t
  BY DEF Waiting
<1>1. stage'[t] = "wait" => /\ child'[t] \in Thread /\ p_pproc'[child'[t]] = t
                            /\ child'[t] = child[t]
  BY DEF Waiting
<1>2. ASSUME NEW u \in Thread, ktq'.wchan[u] = t PROVE u = t /\ stage'[t] = "wait" /\ ktq.wchan[t] = t
  <2>1. ktq.wchan[u] = t
    BY <1>2
  <2>2. u = t /\ stage[t] = "wait"
    BY <2>1 DEF Waiting
  <2>. QED BY <2>1, <2>2
<1>3. ASSUME ktq'.wchan[t] = t, p_state'[child'[t]] = "PROC_DEAD" PROVE bcast' = t
  <2>1. stage'[t] = "wait" /\ ktq.wchan[t] = t
    BY <1>2, <1>3
  <2>2. p_state[child[t]] = "PROC_DEAD"
    BY <1>1, <1>3, <2>1
  <2>3. bcast = t
    BY <2>1, <2>2 DEF Waiting
  <2>. QED BY <1>3, <2>3
<1>. QED BY <1>1, <1>2, <1>3

(* The same for a step of the running thread t that changes its own stage   *)
LEMMA RunnerWaits ==
  ASSUME IInv, Waiting, FamilyTypes, NEW t \in Thread, Running(t),
         \A u \in Thread : ktq'.wchan[u] = ktq.wchan[u] \/ ktq'.wchan[u] \notin Thread,
         NEW st \in Stage \ {"wait"}, stage' = [stage EXCEPT ![t] = st],
         \A u \in Thread \ {t} : child'[u] = child[u],
         \A u \in Thread \ {t} : stage[u] = "wait" /\ p_pproc[child[u]] = u => p_pproc'[child[u]] = u,
         \A u \in Thread : p_state'[u] = "PROC_DEAD" => p_state[u] = "PROC_DEAD",
         bcast' = bcast
  PROVE  Waiting'
<1>1. ktq.wchan[t] \notin Thread
  BY Queues DEF Running, IInv, StateFitsQueue
<1>2. stage'[t] # "wait" /\ \A u \in Thread \ {t} : stage'[u] = stage[u]
  BY DEF FamilyTypes
<1>3. \A u \in Thread : ktq.wchan[u] \in Thread => stage'[u] = stage[u]
  BY <1>1, <1>2
<1>4. \A u \in Thread : stage'[u] = "wait" =>
           stage[u] = "wait" /\ child'[u] = child[u]
           /\ (p_pproc[child[u]] = u => p_pproc'[child[u]] = u)
  BY <1>2
<1>. QED BY <1>3, <1>4, KeepsWaiting

LEMMA WaitingStep ==
  ASSUME ProcIInv, [ProcNext]_allProcVars
  PROVE  Waiting'
<1>0. IInv /\ FamilyTypes /\ StageFitsThread /\ Kinship /\ Waiting
  BY DEF ProcIInv
<1>1. ASSUME OnlyWakes
      PROVE  \A u \in Thread : ktq'.wchan[u] = ktq.wchan[u] \/ ktq'.wchan[u] \notin Thread
  BY <1>1, Queues DEF OnlyWakes
<1>2. CASE Machine
  <2>1. /\ OnlyWakes /\ UNCHANGED <<p_state, p_pproc, stage, child>>
        /\ bcast' = bcast \/ \A u \in Thread : ktq'.wchan[u] # bcast
    BY <1>0, <1>2, MachineSteps DEF procVars
  <2>. QED BY <1>0, <1>1, <2>1, KeepsWaiting
<1>3. CASE UNCHANGED allProcVars
  BY <1>0, <1>3 DEF allProcVars, schedVars, procVars, Waiting
<1>4. ASSUME NEW t \in Thread, proc_create(t) PROVE Waiting'
  <2> DEFINE c == FreeProc(t)
  <2>1. /\ c \in Thread /\ p_state[c] = "none" /\ Running(t) /\ kthread_create(c)
        /\ p_state' = [p_state EXCEPT ![c] = "PROC_RUNNING"]
        /\ p_pproc' = [p_pproc EXCEPT ![c] = t]
        /\ stage' = [stage EXCEPT ![t] = "create", ![c] = "user"]
        /\ child' = [child EXCEPT ![t] = c]
    BY <1>4, FreeProcIsFree DEF proc_create, MayCall
  <2> HIDE DEF c
  <2>2. ktq' = ktq /\ bcast' = bcast
    BY <2>1 DEF kthread_create
  <2>3. ktq.wchan[t] \notin Thread
    BY <1>0, <2>1, Queues DEF Running, IInv, StateFitsQueue
  <2>4. ktq.wchan[c] \notin Thread
    <3>1. kt_state[c] \in {"KT_NO_STATE", "KT_EXITED"}
      BY <1>0, <2>1 DEF StageFitsThread
    <3>. QED BY <1>0, <2>1, <3>1, Queues DEF IInv, StateFitsQueue, Sleeping
  <2>5. p_pproc[c] = NoProc
    BY <1>0, <2>1 DEF Kinship
  <2>6. \A u \in Thread : ktq.wchan[u] \in Thread => stage'[u] = stage[u]
    BY <1>0, <2>1, <2>3, <2>4 DEF FamilyTypes
  <2>7. \A u \in Thread : p_state'[u] = "PROC_DEAD" => p_state[u] = "PROC_DEAD"
    BY <1>0, <2>1 DEF FamilyTypes
  <2>8. ASSUME NEW u \in Thread, stage'[u] = "wait"
        PROVE  stage[u] = "wait" /\ child'[u] = child[u]
               /\ (p_pproc[child[u]] = u => p_pproc'[child[u]] = u)
    <3>1. u # t /\ stage[u] = "wait" /\ child'[u] = child[u]
      BY <1>0, <2>1, <2>8 DEF FamilyTypes
    <3>2. child[u] \in Thread /\ p_pproc[child[u]] = u
      BY <1>0, <3>1 DEF Waiting
    <3>3. child[u] # c
      BY <2>5, <3>2, Queues DEF NoProc
    <3>. QED BY <1>0, <2>1, <3>1, <3>2, <3>3 DEF FamilyTypes
  <2>. QED BY <1>0, <2>2, <2>6, <2>7, <2>8, KeepsWaiting
<1>5. ASSUME NEW t \in Thread, StartChild(t) PROVE Waiting'
  <2>1. /\ Running(t) /\ stage[t] = "create" /\ stage' = [stage EXCEPT ![t] = "user"]
        /\ child' = [child EXCEPT ![t] = NoProc] /\ UNCHANGED <<p_state, p_pproc, bcast>>
        /\ MakeRunnable(ktq, child[t])
    BY <1>5 DEF StartChild, sched_make_runnable
  <2>2. child[t] \in Thread /\ kt_state[child[t]] = "KT_NO_STATE"
    BY <1>0, <2>1 DEF StageFitsThread
  <2>3. ktq'.wchan = [ktq.wchan EXCEPT ![child[t]] = RunQ]
    BY <2>1 DEF MakeRunnable, ktqueue_enqueue
  <2>4. \A u \in Thread : ktq'.wchan[u] = ktq.wchan[u] \/ ktq'.wchan[u] \notin Thread
    BY <1>0, <2>2, <2>3, Queues DEF IInv, TypeOK, KtQueues
  <2>5. \A u \in Thread \ {t} : child'[u] = child[u]
    BY <1>0, <2>1 DEF FamilyTypes
  <2>. QED BY <1>0, <2>1, <2>4, <2>5, RunnerWaits DEF Stage
<1>6. ASSUME NEW t \in Thread, proc_kill_all(t) \/ KillAllEnds(t) \/ do_exit(t) \/ CleanupEnds(t)
      PROVE  Waiting'
  <2>1. \E st \in Stage \ {"wait"} : stage' = [stage EXCEPT ![t] = st]
    BY <1>6 DEF proc_kill_all, KillAllEnds, do_exit, CleanupEnds, Stage
  <2>2. Running(t) /\ UNCHANGED <<ktq, bcast, p_state, p_pproc, child>>
    BY <1>6 DEF proc_kill_all, KillAllEnds, do_exit, CleanupEnds, kthread_exit, schedVars,
       ActsFreely, MayCall
  <2>. QED BY <1>0, <2>1, <2>2, RunnerWaits
<1>7. ASSUME NEW t \in Thread, NEW p \in Thread, proc_kill(t, p) PROVE Waiting'
  <2>1. OnlyWakes /\ UNCHANGED <<stage, child, p_state, p_pproc, bcast>>
    BY <1>0, <1>7, CancelWakes DEF proc_kill
  <2>. QED BY <1>0, <1>1, <2>1, KeepsWaiting
<1>8. ASSUME NEW t \in Thread, CleanupBlocks(t) PROVE Waiting'
  <2>1. PICK q \in DevQueue : sched_sleep_on(t, q)
    BY <1>8 DEF CleanupBlocks
  <2>2. /\ Running(t) /\ ktq'.wchan = [ktq.wchan EXCEPT ![t] = q]
        /\ ktq.wchan \in [Thread -> Queue \cup {NoQueue}] /\ bcast' = bcast
    BY <1>0, <2>1, Sleeps, Queues
  <2>3. \A u \in Thread : ktq'.wchan[u] = ktq.wchan[u] \/ ktq'.wchan[u] \notin Thread
    BY <2>2, Queues
  <2>4. /\ stage' = [stage EXCEPT ![t] = "flushed"] /\ "flushed" \in Stage \ {"wait"}
        /\ UNCHANGED <<child, p_pproc, p_state>>
    BY <1>8 DEF CleanupBlocks, Stage
  <2>. QED BY <1>0, <2>2, <2>3, <2>4, RunnerWaits
<1>9. ASSUME NEW t \in Thread, WakeParentAndReparent(t) PROVE Waiting'
  <2>1. /\ Running(t) /\ stage[t] = "exit" /\ stage' = [stage EXCEPT ![t] = "cleanup"]
        /\ UNCHANGED <<child, p_state>> /\ Reparent(t)
        /\ sched_wakeup_on(Parent(t)) \/ UNCHANGED schedVars
    BY <1>9 DEF WakeParentAndReparent
  <2>2. bcast' = bcast /\ OnlyWakes
    <3>1. CASE UNCHANGED schedVars
      BY <3>1 DEF schedVars, OnlyWakes
    <3>2. CASE sched_wakeup_on(Parent(t))
      <4>1. Parent(t) \in WaitQueue
        BY <2>1, LeavingHasParent DEF Leaving, Parent
      <4>. QED BY <1>0, <3>2, <4>1, WakesOnly DEF sched_wakeup_on
    <3>. QED BY <2>1, <3>1, <3>2
  <2>3. ASSUME NEW u \in Thread \ {t}, stage[u] = "wait", p_pproc[child[u]] = u
        PROVE  p_pproc'[child[u]] = u
    <3>1. child[u] \in Thread
      BY <1>0, <2>3 DEF Waiting
    <3>2. child[u] \notin Range(p_children[t])
      BY <1>0, <2>3 DEF Kinship, FamilyTree, Parent
    <3>. QED BY <2>1, <2>3, <3>1, <3>2 DEF Reparent
  <2>. QED BY <1>0, <1>1, <2>1, <2>2, <2>3, RunnerWaits DEF Stage
(* A dying process broadcasts on the queue its parent may be asleep on.     *)
<1>10. ASSUME NEW t \in Thread, BecomeDead(t) PROVE Waiting'
  <2>1. /\ Running(t) /\ stage[t] \in {"cleanup", "flushed"}
        /\ stage' = [stage EXCEPT ![t] = "dead"]
        /\ p_state' = [p_state EXCEPT ![t] = "PROC_DEAD"]
        /\ UNCHANGED <<ktq, child, p_pproc>>
    BY <1>10 DEF BecomeDead, sched_broadcast_on, schedVars
  <2>2. /\ Parent(t) \in Thread /\ Parent(t) = p_pproc[t]
        /\ ktq.size[Parent(t)] > 0 => bcast' = Parent(t)
    BY <1>10, <2>1, LeavingHasParent DEF BecomeDead, sched_broadcast_on, Leaving, Parent
  <2>3. /\ stage'[t] = "dead" /\ \A u \in Thread \ {t} : stage'[u] = stage[u]
        /\ \A u \in Thread \ {t} : p_state'[u] = p_state[u]
    BY <1>0, <2>1 DEF FamilyTypes
  <2>4. ktq.wchan[t] \notin Thread
    BY <1>0, <2>1, Queues DEF Running, IInv, StateFitsQueue
  <2>5. ASSUME NEW u \in Thread
        PROVE  /\ stage'[u] = "wait" => child'[u] \in Thread /\ p_pproc'[child'[u]] = u
               /\ \A v \in Thread : ktq'.wchan[v] = u => v = u /\ stage'[u] = "wait"
    <3>1. stage'[u] = "wait" => stage[u] = "wait"
      BY <2>3
    <3>2. \A v \in Thread : ktq.wchan[v] = u => v = u /\ u # t /\ stage[u] = "wait"
      BY <1>0, <2>4 DEF Waiting
    <3>. QED BY <1>0, <2>1, <2>3, <3>1, <3>2 DEF Waiting
  <2>6. ASSUME NEW u \in Thread, ktq'.wchan[u] = u, p_state'[child'[u]] = "PROC_DEAD"
        PROVE  bcast' = u
    <3>1. /\ ktq.wchan[u] = u /\ child'[u] = child[u] /\ child[u] \in Thread
          /\ p_pproc[child[u]] = u
      BY <1>0, <2>1, <2>6 DEF Waiting
    <3>2. CASE child[u] = t
      <4>1. Parent(t) = u
        BY <2>2, <3>1, <3>2
      <4>2. ktq.size[u] > 0
        BY <1>0, <3>1, NobodyOn, Queues
      <4>. QED BY <2>2, <4>1, <4>2
    <3>3. CASE child[u] # t
      <4>1. p_state[child[u]] = "PROC_DEAD"
        BY <2>3, <2>6, <3>1, <3>3
      <4>2. bcast = u
        BY <1>0, <3>1, <4>1 DEF Waiting
      <4>. QED BY <2>1, <4>2, Queues DEF Running
    <3>. QED BY <3>2, <3>3
  <2>. QED BY <2>5, <2>6 DEF Waiting
<1>11. ASSUME NEW t \in Thread, ThreadExited(t) \/ Blocks(t) \/ Yields(t) PROVE Waiting'
  <2>1. UNCHANGED <<stage, child, p_state, p_pproc>>
    BY <1>11 DEF ThreadExited, Blocks, Yields, procVars
  <2>2. bcast' = bcast
    BY <1>11 DEF ThreadExited, proc_thread_exited, Blocks, Yields, Yield, sched_sleep_on,
       sched_cancellable_sleep_on, CancellableSleep
  <2>3. \A u \in Thread : ktq'.wchan[u] = ktq.wchan[u] \/ ktq'.wchan[u] \notin Thread
    <3>0. ktq.wchan \in [Thread -> Queue \cup {NoQueue}]
      BY <1>0 DEF IInv, TypeOK, KtQueues
    <3>1. CASE ThreadExited(t)
      BY <3>1 DEF ThreadExited, proc_thread_exited
    <3>2. CASE Yields(t)
      <4>1. ktq'.wchan = [ktq.wchan EXCEPT ![t] = RunQ]
        BY <3>2 DEF Yields, Yield, MakeRunnable, ktqueue_enqueue
      <4>. QED BY <3>0, <4>1, Queues
    <3>3. CASE Blocks(t)
      <4>1. PICK q \in DevQueue : sched_sleep_on(t, q) \/ sched_cancellable_sleep_on(t, q)
        BY <3>3 DEF Blocks
      <4>2. ktq' = ktq \/ ktq'.wchan = [ktq.wchan EXCEPT ![t] = q]
        BY <4>1 DEF sched_sleep_on, sched_cancellable_sleep_on, CancellableSleep, ktqueue_enqueue
      <4>. QED BY <3>0, <4>2, Queues
    <3>. QED BY <1>11, <3>1, <3>2, <3>3
  <2>. QED BY <1>0, <2>1, <2>2, <2>3, KeepsWaiting
<1>12. ASSUME NEW t \in Thread,
              (\E c \in Thread, any \in BOOLEAN : do_waitpid(t, c, any)) \/ WaitAgain(t)
       PROVE  Waiting'
  <2>1. PICK c \in Thread :
           /\ Running(t) /\ stage[t] \in {"user", "wait"}
           /\ c \in Range(p_children[t]) /\ p_pproc[c] = t
           /\ \/ p_state[c] # "PROC_DEAD" /\ SleepsForChild(t, c)
              \/ p_state[c] = "PROC_DEAD" /\ Reap(t, c)
    BY <1>12, WaitBranches
  <2>2. CASE p_state[c] # "PROC_DEAD" /\ SleepsForChild(t, c)
    <3>1. /\ ktq'.wchan = [ktq.wchan EXCEPT ![t] = t] /\ bcast' = bcast
          /\ ktq.wchan \in [Thread -> Queue \cup {NoQueue}]
      BY <1>0, <2>2, Sleeps, Queues DEF SleepsForChild
    <3>2. /\ stage' = [stage EXCEPT ![t] = "wait"] /\ child' = [child EXCEPT ![t] = c]
          /\ UNCHANGED <<p_state, p_pproc>>
      BY <2>2 DEF SleepsForChild
    <3>3. stage'[t] = "wait" /\ child'[t] = c /\ ktq'.wchan[t] = t
      BY <1>0, <3>1, <3>2 DEF FamilyTypes
    <3>4. ASSUME NEW u \in Thread \ {t}
          PROVE  stage'[u] = stage[u] /\ child'[u] = child[u] /\ ktq'.wchan[u] = ktq.wchan[u]
      BY <1>0, <3>1, <3>2 DEF FamilyTypes
    <3>5. ASSUME NEW u \in Thread, ktq'.wchan[u] = t PROVE u = t
      BY <1>0, <3>4, <3>5 DEF Waiting
    <3>6. ASSUME NEW u \in Thread \ {t}
          PROVE  /\ stage'[u] = "wait" => child'[u] \in Thread /\ p_pproc'[child'[u]] = u
                 /\ \A v \in Thread : ktq'.wchan[v] = u => v = u /\ stage'[u] = "wait"
                 /\ ktq'.wchan[u] = u /\ p_state'[child'[u]] = "PROC_DEAD" => bcast' = u
      <4>1. \A v \in Thread : ktq'.wchan[v] = u => ktq.wchan[v] = u
        BY <3>3, <3>4
      <4>. QED BY <1>0, <3>1, <3>2, <3>4, <4>1 DEF Waiting
    <3>. QED BY <2>1, <2>2, <3>2, <3>3, <3>5, <3>6 DEF Waiting
  <2>3. CASE p_state[c] = "PROC_DEAD" /\ Reap(t, c)
    <3>1. /\ stage' = [stage EXCEPT ![t] = "user"] /\ child' = [child EXCEPT ![t] = NoProc]
          /\ p_state' = [p_state EXCEPT ![c] = "none"]
          /\ p_pproc' = [p_pproc EXCEPT ![c] = NoProc] /\ UNCHANGED <<ktq, bcast>>
      BY <2>3 DEF Reap, schedVars
    <3>2. /\ \A u \in Thread \ {t} : child'[u] = child[u]
          /\ \A u \in Thread : p_state'[u] = "PROC_DEAD" => p_state[u] = "PROC_DEAD"
      BY <1>0, <3>1 DEF FamilyTypes
    <3>3. ASSUME NEW u \in Thread \ {t}, stage[u] = "wait", p_pproc[child[u]] = u
          PROVE  p_pproc'[child[u]] = u
      <4>1. child[u] \in Thread /\ child[u] # c
        BY <1>0, <2>1, <3>3 DEF Waiting
      <4>. QED BY <1>0, <3>1, <3>3, <4>1 DEF FamilyTypes
    <3>4. Running(t) /\ "user" \in Stage \ {"wait"}
      BY <2>1 DEF Stage
    <3>5. \A u \in Thread : ktq'.wchan[u] = ktq.wchan[u]
      BY <3>1
    <3>6. IInv /\ Waiting /\ FamilyTypes /\ stage' = [stage EXCEPT ![t] = "user"] /\ bcast' = bcast
      BY <1>0, <3>1
    <3>. QED BY <3>2, <3>3, <3>4, <3>5, <3>6, RunnerWaits
  <2>. QED BY <2>1, <2>2, <2>3
<1>13. ASSUME NEW t \in Thread, ThreadStep(t) PROVE Waiting'
  BY <1>4, <1>5, <1>6, <1>7, <1>8, <1>9, <1>10, <1>11, <1>12, <1>13
  DEF ThreadStep, Exits
<1>. QED BY <1>2, <1>3, <1>13 DEF ProcNext
-----------------------------------------------------------------------------
LEMMA ProcInitIInv == ProcInit => ProcIInv
<1> SUFFICES ASSUME ProcInit PROVE ProcIInv
  OBVIOUS
<1>1. IInv
  BY InitIInv DEF ProcInit
<1>2. FamilyTypes
  BY DEF ProcInit, proc_init, FamilyTypes, Stage
<1>3. StageFitsThread
  BY DEF ProcInit, Init, proc_init, StageFitsThread, Leaving
<1>4. proc_list = {IdleThread}
  BY DEF ProcInit, proc_init, proc_list
<1>5. Kinship
  <2>1. Range(<<>>) = {} /\ IsInjective(<<>>)
    BY DEF Range, IsInjective
  <2>2. FamilyTree
    BY <1>4, <2>1 DEF ProcInit, proc_init, FamilyTree
  <2>3. Rooted
    BY <1>4 DEF Rooted
  <2>. QED BY <1>4, <2>2, <2>3, Queues DEF ProcInit, proc_init, Kinship, NoProc
<1>6. Waiting
  BY Queues DEF ProcInit, Init, proc_init, sched_queue_init, Waiting
<1>. QED BY <1>1, <1>2, <1>3, <1>5, <1>6 DEF ProcIInv

LEMMA ProcNextIInv == ProcIInv /\ [ProcNext]_allProcVars => ProcIInv'
<1> SUFFICES ASSUME ProcIInv, [ProcNext]_allProcVars PROVE ProcIInv'
  OBVIOUS
<1>1. IInv'
  BY ProcStep, NextIInv DEF ProcIInv
<1>. QED BY <1>1, TypesStep, StageStep, KinStep, WaitingStep DEF ProcIInv

(* The inductive invariant holds of every behaviour of the processes.       *)
THEOREM ProcInvariant == ProcSpec => []ProcIInv
BY ProcInitIInv, ProcNextIInv, PTL DEF ProcSpec

(* Whatever the processes do with their threads is something the scheduler  *)
(* allows: they create, wake, cancel and end them only as its own callers   *)
(* may, so that its theorems hold of them (proc.c, kthread.c and sched.c).  *)
THEOREM ProcUsesScheduler == ProcSpec => UsesScheduler
<1>1. ProcInit => Init
  BY DEF ProcInit
<1>. QED BY <1>1, ProcInvariant, ProcStep, PTL DEF ProcSpec, UsesScheduler, Spec

(* Nobody runs, or will run, on a stack do_waitpid may free, and no parent  *)
(* sleeps on for a child that is dead (do_waitpid and proc_cleanup).        *)
THEOREM ProcWaitSound == ProcSpec => []WaitSound
<1>1. ASSUME ProcIInv PROVE WaitSound
  <2>1. ASSUME NEW t \in Thread, kt_state[t] \in {"KT_NO_STATE", "KT_EXITED"} PROVE ktq.wchan[t] = NoQueue
    BY <1>1, <2>1 DEF ProcIInv, IInv, TypeOK, KtQueues, StateFitsQueue, Queue, Sleeping
  <2>2. StackFreedUnused
    BY <1>1, <2>1 DEF ProcIInv, StageFitsThread, StackFreedUnused
  <2>3. AsleepForALiveChild
    BY <1>1 DEF ProcIInv, Waiting, AsleepForALiveChild, Parent
  <2>. QED BY <2>2, <2>3 DEF WaitSound
<1>. QED BY <1>1, ProcInvariant, PTL
-----------------------------------------------------------------------------
(* Pids                                                                     *)
LEMMA LeastElement ==
  ASSUME NEW T \in SUBSET Nat, T # {}
  PROVE  \E n \in T : \A m \in T : ~(m < n)
<1>1. IsWellFoundedOn(OpToRel(<, Nat), Nat)
  BY NatLessThanWellFounded
<1>2. PICK n \in T : \A m \in T : ~(<<m, n>> \in OpToRel(<, Nat))
  BY <1>1, WFMin
<1>3. \A m \in T : <<m, n>> \in OpToRel(<, Nat) <=> m < n
  BY DEF OpToRel
<1>. QED BY <1>2, <1>3

LEMMA ModFacts ==
  ASSUME NEW n \in Nat \ {0}, NEW x \in Nat
  PROVE  x % n \in 0..(n - 1) /\ (x < n => x % n = x /\ (x + n) % n = x)
OBVIOUS

(* The search comes round to every pid: it finds one if one is free.        *)
LEMMA GetidFinds ==
  ASSUME next_pid \in Pid, UsedPids \subseteq Pid, UsedPids # Pid
  PROVE  /\ proc_getid \in Pid /\ proc_getid \notin UsedPids
         /\ next_pid \notin UsedPids => proc_getid = next_pid
<1> DEFINE N == PROC_MAX_COUNT
           Free == {k \in Pid : PidsFrom(k) \notin UsedPids}
           Least(k) == /\ PidsFrom(k) \notin UsedPids
                       /\ \A j \in Pid : j < k => PidsFrom(j) \in UsedPids
<1>0. /\ N \in Nat \ {0} /\ Pid = 0..(N - 1) /\ next_pid \in 0..(N - 1)
      /\ \A k : PidsFrom(k) = (next_pid + k) % N
  BY DEF Pid, PidsFrom
<1> HIDE DEF N
<1>mod. ASSUME NEW y \in Pid PROVE y % N = y /\ (y + N) % N = y
  <2>1. y \in Nat /\ y < N
    BY <1>0
  <2>. QED BY <1>0, <2>1, ModFacts
<1>1. PICK x \in Pid : x \notin UsedPids
  OBVIOUS
<1>2. PidsFrom(0) = next_pid
  <2>1. next_pid + 0 = next_pid
    BY <1>0
  <2>. QED BY <1>0, <1>mod, <2>1
<1>3. Free # {}
  <2> DEFINE k == IF next_pid <= x THEN x - next_pid ELSE x + N - next_pid
  <2>1. k \in Pid /\ (next_pid + k = x \/ next_pid + k = x + N)
    <3>1. N \in Nat /\ x \in 0..(N - 1) /\ next_pid \in 0..(N - 1) /\ Pid = 0..(N - 1)
      BY <1>0, <1>1
    <3>2. CASE next_pid <= x
      BY <3>1, <3>2
    <3>3. CASE ~(next_pid <= x)
      BY <3>1, <3>3
    <3>. QED BY <3>2, <3>3
  <2>2. PidsFrom(k) = x
    BY <1>0, <1>1, <1>mod, <2>1
  <2>. QED BY <1>1, <2>1, <2>2
<1>4. \E k \in Pid : Least(k)
  <2>1. Free \in SUBSET Nat
    BY <1>0
  <2>2. PICK k \in Free : \A j \in Free : ~(j < k)
    BY <1>3, <2>1, LeastElement
  <2>. QED BY <2>2
<1>5. PICK k \in Pid : proc_getid = PidsFrom(k) /\ Least(k)
  <2> DEFINE k == CHOOSE i \in Pid : Least(i)
  <2>1. k \in Pid /\ Least(k)
    BY <1>4
  <2>2. proc_getid = PidsFrom(k)
    BY DEF proc_getid
  <2>. QED BY <2>1, <2>2
<1>6. PidsFrom(k) \in Pid
  <2>1. next_pid + k \in Nat
    BY <1>0
  <2>. QED BY <1>0, <2>1, ModFacts
<1>7. ASSUME next_pid \notin UsedPids PROVE proc_getid = next_pid
  <2>1. 0 \in Pid /\ ~(0 < k)
    BY <1>0, <1>2, <1>5, <1>7
  <2>2. k = 0
    BY <1>0, <2>1
  <2>. QED BY <1>2, <1>5, <2>2
<1>. QED BY <1>5, <1>6, <1>7

(* 1 is given out once, to init: there is nobody but idle before it, and    *)
(* nobody creates a process after it.                                       *)
PidsSound ==
  /\ p_pid \in [Thread -> Pid \cup {NoPid}]
  /\ \A p \in proc_list : p_pid[p] \in Pid
  /\ next_pid \in Pid
  /\ anyChild \in [Thread -> BOOLEAN]
  /\ victims \subseteq Thread
  /\ phase \in {"boot", "spawn", "collect", "halt"}
  /\ \A p, q \in proc_list : p_pid[p] = p_pid[q] => p = q
  /\ p_pid[IdleThread] = 0
  /\ phase = "boot" => proc_list = {IdleThread} /\ next_pid = 1 % PROC_MAX_COUNT
  /\ phase # "boot" /\ InitProc \in proc_list => p_pid[InitProc] = 1

LEMMA PidsInit == ProcInit => PidsSound
<1>1. 0 \in Pid /\ 1 % PROC_MAX_COUNT \in Pid
  BY ModFacts DEF Pid
<1>2. ASSUME ProcInit PROVE proc_list = {IdleThread}
  BY <1>2 DEF ProcInit, proc_init, proc_list
<1>. QED BY <1>1, <1>2 DEF ProcInit, proc_init, PidsSound

(* The steps that create and free nothing                                   *)
LEMMA PidsStay ==
  ASSUME PidsSound, proc_list' = proc_list, UNCHANGED <<p_pid, next_pid>>,
         anyChild' \in [Thread -> BOOLEAN], victims' \subseteq Thread,
         phase' \in {"boot", "spawn", "collect", "halt"}, phase = "boot" <=> phase' = "boot"
  PROVE  PidsSound'
BY DEF PidsSound

LEMMA PidsCreate ==
  ASSUME ProcIInv, PidsSound, NEW t \in Thread, proc_create(t)
  PROVE  PidsSound'
<1> DEFINE c == FreeProc(t)
           N == PROC_MAX_COUNT
<1>1. /\ c \in Thread /\ p_state[c] = "none" /\ (c = InitProc <=> t = IdleThread)
      /\ Running(t) /\ Creates(t) /\ UsedPids # Pid
      /\ p_state' = [p_state EXCEPT ![c] = "PROC_RUNNING"]
      /\ p_pid' = [p_pid EXCEPT ![c] = proc_getid]
      /\ next_pid' = (proc_getid + 1) % N
      /\ phase' = IF t = IdleThread THEN "spawn" ELSE phase
      /\ UNCHANGED <<anyChild, victims>>
  BY FreeProcIsFree DEF proc_create, MayCall
<1> HIDE DEF c
<1>2. /\ FamilyTypes /\ Kinship /\ IdleThread \in proc_list /\ t \in proc_list
      /\ p_pid \in [Thread -> Pid \cup {NoPid}]
  BY <1>1, RunningProcess DEF ProcIInv, Kinship, PidsSound
<1>3. proc_list' = proc_list \cup {c} /\ c \notin proc_list /\ proc_list \subseteq Thread
  BY <1>1, <1>2 DEF proc_list, FamilyTypes
<1>4. /\ proc_getid \in Pid /\ proc_getid \notin UsedPids
      /\ next_pid \notin UsedPids => proc_getid = next_pid
  <2>1. next_pid \in Pid /\ UsedPids \subseteq Pid
    BY DEF PidsSound, UsedPids
  <2>. QED BY <1>1, <2>1, GetidFinds
<1>5. p_pid'[c] = proc_getid /\ \A p \in Thread \ {c} : p_pid'[p] = p_pid[p]
  BY <1>1, <1>2
<1>6. next_pid' \in Pid
  <2>1. proc_getid + 1 \in Nat
    BY <1>4 DEF Pid
  <2>. QED BY <1>1, <2>1, ModFacts DEF Pid
<1>7. p_pid' \in [Thread -> Pid \cup {NoPid}]
  BY <1>1, <1>2, <1>4
<1>8. \A p \in proc_list : p_pid[p] \in UsedPids
  BY DEF UsedPids
<1>9. /\ \A p \in proc_list' : p_pid'[p] \in Pid
      /\ \A p, q \in proc_list' : p_pid'[p] = p_pid'[q] => p = q
  BY <1>3, <1>4, <1>5, <1>8 DEF PidsSound
<1>10. p_pid'[IdleThread] = 0
  BY <1>2, <1>3, <1>5 DEF PidsSound
<1>11. phase' # "boot" /\ phase' \in {"boot", "spawn", "collect", "halt"}
  <2>1. t # IdleThread => phase # "boot"
    BY <1>2 DEF PidsSound
  <2>. QED BY <1>1, <2>1 DEF PidsSound
<1>12. InitProc \in proc_list' => p_pid'[InitProc] = 1
  <2>1. CASE t = IdleThread
    <3>1. phase = "boot" /\ c = InitProc
      BY <1>1, <2>1 DEF Creates
    <3>2. UsedPids = {0} /\ next_pid = 1 % N
      BY <3>1 DEF PidsSound, UsedPids
    <3>3. N # 1
      BY <1>1, <3>2 DEF Pid
    <3>4. 1 % N = 1
      BY <3>3, ModFacts
    <3>. QED BY <1>4, <1>5, <3>1, <3>2, <3>4
  <2>2. CASE t # IdleThread
    <3>1. c # InitProc /\ phase # "boot"
      BY <1>1, <1>2, <2>2 DEF PidsSound
    <3>. QED BY <1>3, <1>5, <3>1 DEF PidsSound
  <2>. QED BY <2>1, <2>2
<1>13. anyChild' \in [Thread -> BOOLEAN] /\ victims' \subseteq Thread
  BY <1>1 DEF PidsSound
<1>. QED BY <1>6, <1>7, <1>9, <1>10, <1>11, <1>12, <1>13 DEF PidsSound

LEMMA PidsReap ==
  ASSUME ProcIInv, PidsSound, NEW t \in Thread, NEW c \in Thread, p_pproc[c] = t, Reap(t, c),
         phase' \in {"boot", "spawn", "collect", "halt"}, phase # "boot", phase' # "boot"
  PROVE  PidsSound'
<1>1. /\ p_state' = [p_state EXCEPT ![c] = "none"]
      /\ p_pid' = [p_pid EXCEPT ![c] = NoPid]
      /\ anyChild' = [anyChild EXCEPT ![t] = FALSE]
      /\ UNCHANGED <<next_pid, victims>>
  BY DEF Reap
<1>2. proc_list' = proc_list \ {c}
  BY <1>1 DEF proc_list, ProcIInv, FamilyTypes
<1>3. c # IdleThread
  BY Queues DEF ProcIInv, Kinship, NoProc
<1>4. p_pid' \in [Thread -> Pid \cup {NoPid}] /\ \A p \in Thread \ {c} : p_pid'[p] = p_pid[p]
  BY <1>1 DEF PidsSound
<1>5. \A p \in proc_list' : p \in proc_list /\ p \in Thread /\ p_pid'[p] = p_pid[p]
  BY <1>2, <1>4 DEF proc_list
<1>6. anyChild' \in [Thread -> BOOLEAN]
  BY <1>1 DEF PidsSound
<1>. QED BY <1>1, <1>3, <1>4, <1>5, <1>6 DEF PidsSound

LEMMA PidsStep ==
  ASSUME ProcIInv, PidsSound, [ProcNext]_allProcVars
  PROVE  PidsSound'
<1>0. FamilyTypes /\ IInv
  BY DEF ProcIInv
<1>1. ASSUME UNCHANGED procVars PROVE PidsSound'
  BY <1>1 DEF procVars, PidsSound, proc_list, UsedPids
<1>2. CASE Machine \/ UNCHANGED allProcVars
  BY <1>1, <1>2 DEF Machine, allProcVars
<1>3. ASSUME UNCHANGED <<p_state, p_pid, next_pid, anyChild, phase>>, victims' \subseteq Thread
      PROVE  PidsSound'
  <2>1. proc_list' = proc_list
    BY <1>3 DEF proc_list
  <2>. QED BY <1>3, <2>1, PidsStay DEF PidsSound
<1>4. ASSUME NEW t \in Thread, proc_create(t) PROVE PidsSound'
  BY <1>4, PidsCreate
<1>5. ASSUME NEW t \in Thread, StartChild(t) \/ KillAllEnds(t) \/ do_exit(t) \/ CleanupEnds(t)
                               \/ CleanupBlocks(t) \/ WakeParentAndReparent(t)
      PROVE  PidsSound'
  BY <1>3, <1>5 DEF StartChild, KillAllEnds, do_exit, CleanupEnds, CleanupBlocks,
                    WakeParentAndReparent, PidsSound
<1>6. ASSUME NEW t \in Thread, proc_kill_all(t) \/ \E p \in Thread : proc_kill(t, p)
      PROVE  PidsSound'
  BY <1>3, <1>6 DEF proc_kill_all, proc_kill, proc_list, PidsSound
<1>7. ASSUME NEW t \in Thread, BecomeDead(t) PROVE PidsSound'
  <2>1. /\ Running(t) /\ p_state' = [p_state EXCEPT ![t] = "PROC_DEAD"]
        /\ UNCHANGED <<p_pid, next_pid, anyChild, victims, phase>>
    BY <1>7 DEF BecomeDead
  <2>2. t \in proc_list
    BY <2>1, RunningProcess DEF ProcIInv
  <2>3. proc_list' = proc_list
    BY <1>0, <2>1, <2>2 DEF proc_list, FamilyTypes
  <2>. QED BY <2>1, <2>3, PidsStay DEF PidsSound
<1>8. ASSUME NEW t \in Thread, ThreadExited(t) \/ Blocks(t) \/ Yields(t) PROVE PidsSound'
  BY <1>1, <1>8 DEF ThreadExited, Blocks, Yields
<1>9. ASSUME NEW t \in Thread,
             (\E c \in Thread, any \in BOOLEAN : do_waitpid(t, c, any)) \/ WaitAgain(t)
      PROVE  PidsSound'
  <2>1. PICK c \in Thread :
           /\ Running(t) /\ stage[t] \in {"user", "wait"}
           /\ c \in Range(p_children[t]) /\ p_pproc[c] = t
           /\ \/ p_state[c] # "PROC_DEAD" /\ SleepsForChild(t, c)
              \/ p_state[c] = "PROC_DEAD" /\ Reap(t, c)
    BY <1>9, WaitBranches
  <2>2. c \in proc_list /\ c # IdleThread
    BY <2>1, Queues DEF ProcIInv, Kinship, FamilyTree, NoProc
  <2>3. phase # "boot"
    BY <2>2 DEF PidsSound
  <2>4. phase' \in {"spawn", "collect", "halt"}
    BY <1>9, <2>3 DEF do_waitpid, WaitAgain, PidsSound
  <2>5. CASE Reap(t, c)
    BY <2>1, <2>3, <2>4, <2>5, PidsReap
  <2>6. CASE SleepsForChild(t, c)
    <3>1. anyChild' \in [Thread -> BOOLEAN]
      <4>1. \E any \in BOOLEAN : WaitForChild(t, c, any) \/ WaitForChild(t, child[t], any)
                                 \/ \E d \in Thread : WaitForChild(t, d, any)
        BY <1>9 DEF do_waitpid, WaitAgain, PidsSound
      <4>2. \E any \in BOOLEAN : anyChild' = [anyChild EXCEPT ![t] = any]
        BY <4>1 DEF WaitForChild, SleepForChild, Reap
      <4>. QED BY <4>2 DEF PidsSound
    <3>2. proc_list' = proc_list /\ UNCHANGED <<p_pid, next_pid, victims>>
      BY <2>6 DEF SleepsForChild, proc_list
    <3>. QED BY <2>3, <2>4, <3>1, <3>2, PidsStay DEF PidsSound
  <2>. QED BY <2>1, <2>5, <2>6
<1>10. ASSUME NEW t \in Thread, ThreadStep(t) PROVE PidsSound'
  BY <1>4, <1>5, <1>6, <1>7, <1>8, <1>9, <1>10
  DEF ThreadStep, Exits
<1>. QED BY <1>2, <1>10 DEF ProcNext

(* Every process is listed once by a parent that can reap it, and no two    *)
(* have one pid, zombies included, however often the pids wrap round; 1     *)
(* stays init's (proc_create, _proc_getid, proc_cleanup and do_waitpid).    *)
THEOREM ProcAreSound == ProcSpec => []ProcessesSound
<1>1. ProcIInv /\ PidsSound /\ [ProcNext]_allProcVars => PidsSound'
  BY PidsStep
<1>2. ProcIInv /\ PidsSound => ProcessesSound
  <2> SUFFICES ASSUME ProcIInv, PidsSound PROVE ProcessesSound
    OBVIOUS
  <2>1. FamilyTree /\ Kinship /\ FamilyTypes
    BY DEF ProcIInv, Kinship
  <2>2. ProcTypeOK
    BY DEF ProcIInv, IInv, FamilyTypes, PidsSound, ProcTypeOK
  <2>3. ASSUME NEW p \in proc_list, p_pid[p] = 1 PROVE p = InitProc
    <3>1. p # IdleThread
      BY <2>3 DEF PidsSound
    <3>2. phase # "boot"
      BY <3>1 DEF PidsSound
    <3>3. CASE p # InitProc
      <4>1. p_state[InitProc] = "PROC_RUNNING"
        BY <2>1, <3>1, <3>3, InitLives
      <4>2. InitProc \in proc_list
        BY <4>1 DEF proc_list
      <4>. QED BY <2>3, <3>2, <4>2 DEF PidsSound
    <3>. QED BY <3>3
  <2>4. PidsUnique
    BY <2>3 DEF PidsSound, PidsUnique
  <2>. QED BY <2>1, <2>2, <2>4 DEF ProcessesSound
<1>. QED BY <1>1, <1>2, ProcInvariant, PidsInit, PTL DEF ProcSpec
=============================================================================
