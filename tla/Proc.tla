-------------------------------- MODULE Proc --------------------------------
(***************************************************************************)
(* The life of a process: proc_create, exit and clean-up, do_waitpid,      *)
(* reparenting and proc_kill_all (kernel/proc/proc.c), driven as the       *)
(* kernel and its clients drive them: idleproc_run starts init and waits   *)
(* for it, init starts processes and then collects until it has no child   *)
(* (user/sbin/init.c), the others fork, wait, block, kill and exit.        *)
(*                                                                         *)
(* A process has one thread, so that one name stands for the proc_t, its   *)
(* kthread_t and its p_wait queue.  Each step is one step of Sched or      *)
(* leaves it alone: interrupts come between any two.                       *)
(***************************************************************************)
EXTENDS Sched

CONSTANTS
  InitProc,        (* the proc_t idleproc_run creates                      *)
  PROC_MAX_COUNT   (* bound on pids; there are never so many processes     *)

ASSUME ProcAssumption ==
  /\ InitProc \in Thread \ {IdleThread}
  /\ WaitQueue = Thread \cup DevQueue
  /\ Thread \cap DevQueue = {}
  /\ PROC_MAX_COUNT \in Nat \ {0}

VARIABLES
  p_state,     (* process -> "none" when there is no such proc_t           *)
  p_pid,
  p_pproc,     (* process -> its parent, NoQueue for NULL                  *)
  p_children,  (* process -> its children, oldest first                    *)
  next_pid,
  stage,       (* process -> what its thread is executing                  *)
  child,       (* process -> the child that call is about                  *)
  anyChild,    (* process -> its do_waitpid was called with pid -1         *)
  victims,     (* the processes proc_kill_all has still to visit           *)
  phase        (* how far idleproc_run and init have come                  *)

procVars == <<p_state, p_pid, p_pproc, p_children, next_pid, stage, child,
              anyChild, victims, phase>>
allProcVars == <<schedVars, procVars>>

NoProc == NoQueue
NoPid == PROC_MAX_COUNT

Stage == {"user",      (* outside the kernel, or in code not modelled      *)
          "create",    (* between proc_create and sched_make_runnable      *)
          "wait",      (* in do_waitpid                                    *)
          "kill",      (* in proc_kill_all                                 *)
          "exit",      (* in kthread_exit, up to the reparenting           *)
          "cleanup",   (* in proc_cleanup, giving back files and memory    *)
          "flushed",   (* the same, after it has waited for the disk       *)
          "dead",      (* in proc_cleanup, PROC_DEAD set                   *)
          "switch"}    (* in the last sched_switch                         *)

proc_list == {p \in Thread : p_state[p] # "none"}

Parent(p) == p_pproc[p]

(* t is in user mode or at a system call's entry, where syscall_handler     *)
(* makes a cancelled thread exit: it begins no other call.                  *)
MayCall(t) == Running(t) /\ stage[t] = "user" /\ ~kt_cancelled[t]

(* Once init collects its children it does nothing else; idle never does.   *)
ActsFreely(t) ==
  MayCall(t) /\ t # IdleThread /\ (t = InitProc => phase = "spawn")
-----------------------------------------------------------------------------
proc_init ==
  /\ p_state = [p \in Thread |-> IF p = IdleThread THEN "PROC_RUNNING" ELSE "none"]
  /\ p_pid = [p \in Thread |-> IF p = IdleThread THEN 0 ELSE NoPid]
  /\ p_pproc = [p \in Thread |-> NoProc]
  /\ p_children = [p \in Thread |-> <<>>]
  /\ next_pid = 1 % PROC_MAX_COUNT
  /\ stage = [p \in Thread |-> "user"]
  /\ child = [p \in Thread |-> NoProc]
  /\ anyChild = [p \in Thread |-> FALSE]
  /\ victims = {}
  /\ phase = "boot"

Pid == 0..(PROC_MAX_COUNT - 1)

UsedPids == {p_pid[p] : p \in proc_list}

(* The first pid from next_pid on, wrapping round, that no process has      *)
PidsFrom(k) == (next_pid + k) % PROC_MAX_COUNT

proc_getid ==
  LET k == CHOOSE k \in Pid :
             /\ PidsFrom(k) \notin UsedPids
             /\ \A j \in Pid : j < k => PidsFrom(j) \in UsedPids
  IN  PidsFrom(k)

(* Who creates processes: idle creates init only, init stops once it waits. *)
Creates(t) ==
  CASE t = IdleThread -> phase = "boot"
    [] t = InitProc   -> phase = "spawn"
    [] OTHER          -> TRUE

(* Any free proc_t will do: the slab allocator's choice shows nowhere.      *)
FreeProc(t) ==
  IF t = IdleThread THEN InitProc
  ELSE CHOOSE p \in Thread \ {InitProc} : p_state[p] = "none"

proc_create(t) ==
  /\ MayCall(t) /\ Creates(t)
  /\ \E p \in Thread : p_state[p] = "none" /\ (p = InitProc <=> t = IdleThread)
  /\ UsedPids # Pid
  /\ LET c == FreeProc(t) IN
       /\ kthread_create(c)
       /\ p_state' = [p_state EXCEPT ![c] = "PROC_RUNNING"]
       /\ p_pid' = [p_pid EXCEPT ![c] = proc_getid]
       /\ next_pid' = (proc_getid + 1) % PROC_MAX_COUNT
       /\ p_pproc' = [p_pproc EXCEPT ![c] = t]
       /\ p_children' = [p_children EXCEPT ![t] = Append(@, c), ![c] = <<>>]
       /\ stage' = [stage EXCEPT ![t] = "create", ![c] = "user"]
       /\ child' = [child EXCEPT ![t] = c]
  /\ phase' = IF t = IdleThread THEN "spawn" ELSE phase
  /\ UNCHANGED <<anyChild, victims>>

(* The end of do_fork, or start_proc's call after kthread_create            *)
StartChild(t) ==
  /\ Running(t) /\ stage[t] = "create"
  /\ sched_make_runnable(child[t])
  /\ stage' = [stage EXCEPT ![t] = "user"]
  /\ child' = [child EXCEPT ![t] = NoProc]
  /\ UNCHANGED <<p_state, p_pid, p_pproc, p_children, next_pid, anyChild, victims, phase>>
-----------------------------------------------------------------------------
list_remove(list, link) == RemoveAt(list, CHOOSE i \in DOMAIN list : list[i] = link)

(* do_waitpid finds the child to wait for once, before its first sleep: the *)
(* first one of the list if any will do.                                    *)
Reap(t, c) ==
  /\ p_children' = [p_children EXCEPT ![t] = list_remove(@, c)]
  /\ p_state' = [p_state EXCEPT ![c] = "none"]
  /\ p_pid' = [p_pid EXCEPT ![c] = NoPid]
  /\ p_pproc' = [p_pproc EXCEPT ![c] = NoProc]
  /\ stage' = [stage EXCEPT ![t] = "user"]
  /\ child' = [child EXCEPT ![t] = NoProc]
  /\ anyChild' = [anyChild EXCEPT ![t] = FALSE]
  /\ UNCHANGED <<schedVars, next_pid, victims>>

SleepForChild(t, c, any) ==
  /\ sched_sleep_on(t, t)
  /\ stage' = [stage EXCEPT ![t] = "wait"]
  /\ child' = [child EXCEPT ![t] = c]
  /\ anyChild' = [anyChild EXCEPT ![t] = any]
  /\ UNCHANGED <<p_state, p_pid, p_pproc, p_children, next_pid, victims>>

WaitForChild_if(t, c, any) ==
  \/ p_state[c] # "PROC_DEAD" /\ stage[t] = "user" /\ SleepForChild(t, c, any)
  \/ (p_state[c] = "PROC_DEAD" \/ stage[t] = "wait") /\ Reap(t, c)

(* The while loop of do_waitpid                                             *)
WaitForChild(t, c, any) ==
  \/ p_state[c] # "PROC_DEAD" /\ SleepForChild(t, c, any)
  \/ p_state[c] = "PROC_DEAD" /\ Reap(t, c)

do_waitpid(t, c, any) ==
  /\ MayCall(t)
  /\ t = IdleThread => phase # "boot" /\ any
  /\ c \in Range(p_children[t])
  /\ any => c = Head(p_children[t])
  /\ WaitForChild(t, c, any)
  /\ phase' = IF t = InitProc THEN "collect"
              ELSE IF t = IdleThread /\ p_state[c] = "PROC_DEAD" THEN "halt"
              ELSE phase

(* The sleep in do_waitpid has ended, with or without a reason.             *)
WaitAgain(t) ==
  /\ Running(t) /\ stage[t] = "wait"
  /\ WaitForChild(t, child[t], anyChild[t])
  /\ phase' = IF t = IdleThread /\ p_state[child[t]] = "PROC_DEAD" THEN "halt" ELSE phase
-----------------------------------------------------------------------------
(* sys_halt: one step of proc_kill_all for each process it cancels, then    *)
(* the caller's own exit.  No child of idle's calls it.                     *)
NotSpared(p) == p_pproc[p] \notin {NoProc, IdleThread}

proc_kill_all_children(t) ==
  /\ ActsFreely(t) /\ t # InitProc
  /\ stage' = [stage EXCEPT ![t] = "kill"]
  /\ victims' = {p \in proc_list : p_pproc[p] = t}
  /\ UNCHANGED <<schedVars, p_state, p_pid, p_pproc, p_children, next_pid, child,
                 anyChild, phase>>

proc_kill_all(t) ==
  /\ ActsFreely(t) /\ t # InitProc
  /\ stage' = [stage EXCEPT ![t] = "kill"]
  /\ victims' = {p \in proc_list \ {t} : NotSpared(p)}
  /\ UNCHANGED <<schedVars, p_state, p_pid, p_pproc, p_children, next_pid, child,
                 anyChild, phase>>

proc_kill_wakes_all(t, p) ==
  /\ Running(t) /\ stage[t] = "kill"
  /\ p \in victims
  /\ kt_cancelled' = [kt_cancelled EXCEPT ![p] = TRUE]
  /\ IF kt_state[p] \in Sleeping
     THEN MakeRunnable(ktqueue_remove(ktq, ktq.wchan[p], p), p)
     ELSE UNCHANGED <<kt_state, ktq>>
  /\ victims' = victims \ {p}
  /\ UNCHANGED <<kt_ret, curthr, cpu, bcast, p_state, p_pid, p_pproc, p_children,
                 next_pid, stage, child, anyChild, phase>>

proc_kill(t, p) ==
  /\ Running(t) /\ stage[t] = "kill"
  /\ p \in victims
  /\ kthread_cancel(p)
  /\ victims' = victims \ {p}
  /\ UNCHANGED <<p_state, p_pid, p_pproc, p_children, next_pid, stage, child,
                 anyChild, phase>>

KillAllEnds(t) ==
  /\ Running(t) /\ stage[t] = "kill" /\ victims = {}
  /\ kthread_exit(t)
  /\ stage' = [stage EXCEPT ![t] = "exit"]
  /\ UNCHANGED <<p_state, p_pid, p_pproc, p_children, next_pid, child, anyChild,
                 victims, phase>>
-----------------------------------------------------------------------------
(* kthread_exit, called by do_exit or for a cancelled thread; init returns  *)
(* from main only after ECHILD, or before it has started anything.          *)
do_exit(t) ==
  /\ Running(t) /\ stage[t] = "user" /\ t # IdleThread
  /\ t = InitProc => p_children[t] = <<>>
  /\ kthread_exit(t)
  /\ stage' = [stage EXCEPT ![t] = "exit"]
  /\ UNCHANGED <<p_state, p_pid, p_pproc, p_children, next_pid, child, anyChild,
                 victims, phase>>

Reparent_keeps_parent(t) ==
  /\ p_children' = [p_children EXCEPT ![InitProc] = @ \o p_children[t], ![t] = <<>>]
  /\ UNCHANGED p_pproc

(* t's own list, which nobody reads again, is left in disorder by the code. *)
Reparent(t) ==
  /\ p_children' = IF p_children[t] = <<>> THEN p_children
                   ELSE [p_children EXCEPT ![InitProc] = @ \o p_children[t], ![t] = <<>>]
  /\ p_pproc' = [p \in Thread |->
                   IF p \in Range(p_children[t]) THEN InitProc ELSE p_pproc[p]]

(* proc_cleanup up to the loop over the children                            *)
WakeParentAndReparent(t) ==
  /\ Running(t) /\ stage[t] = "exit"
  /\ IF ktq.size[Parent(t)] > 0 THEN sched_wakeup_on(Parent(t)) ELSE UNCHANGED schedVars
  /\ Reparent(t)
  /\ stage' = [stage EXCEPT ![t] = "cleanup"]
  /\ UNCHANGED <<p_state, p_pid, next_pid, child, anyChild, victims, phase>>

(* vput, fput and vmmap_destroy may wait for a page or the disk: once here. *)
CleanupBlocks(t) ==
  /\ Running(t) /\ stage[t] = "cleanup"
  /\ \E q \in DevQueue : sched_sleep_on(t, q)
  /\ stage' = [stage EXCEPT ![t] = "flushed"]
  /\ UNCHANGED <<p_state, p_pid, p_pproc, p_children, next_pid, child, anyChild,
                 victims, phase>>

BecomeDead_silently(t) ==
  /\ Running(t) /\ stage[t] \in {"cleanup", "flushed"}
  /\ p_state' = [p_state EXCEPT ![t] = "PROC_DEAD"]
  /\ stage' = [stage EXCEPT ![t] = "dead"]
  /\ UNCHANGED <<schedVars, p_pid, p_pproc, p_children, next_pid, child, anyChild,
                 victims, phase>>

(* The parent looked up here may be another one than the one woken before.  *)
BecomeDead(t) ==
  /\ Running(t) /\ stage[t] \in {"cleanup", "flushed"}
  /\ p_state' = [p_state EXCEPT ![t] = "PROC_DEAD"]
  /\ IF ktq.size[Parent(t)] > 0 THEN sched_broadcast_on(Parent(t)) ELSE UNCHANGED schedVars
  /\ stage' = [stage EXCEPT ![t] = "dead"]
  /\ UNCHANGED <<p_pid, p_pproc, p_children, next_pid, child, anyChild, victims, phase>>

CleanupEnds(t) ==
  /\ Running(t) /\ stage[t] = "dead"
  /\ kthread_exit(t)
  /\ stage' = [stage EXCEPT ![t] = "switch"]
  /\ UNCHANGED <<p_state, p_pid, p_pproc, p_children, next_pid, child, anyChild,
                 victims, phase>>

ThreadExited(t) ==
  /\ stage[t] = "switch"
  /\ proc_thread_exited(t)
  /\ UNCHANGED procVars
-----------------------------------------------------------------------------
(* Reading a terminal can be cancelled, waiting for a disk can't.           *)
Blocks(t) ==
  /\ ActsFreely(t)
  /\ \E q \in DevQueue : sched_sleep_on(t, q) \/ sched_cancellable_sleep_on(t, q)
  /\ UNCHANGED procVars

Yields(t) ==
  /\ ActsFreely(t)
  /\ Yield(t)
  /\ UNCHANGED procVars

Machine ==
  /\ \/ sched_switch \/ NoneRunnable \/ intr_wait \/ BroadcastStep
     \/ \E q \in DevQueue : Interrupt(q)
  /\ UNCHANGED procVars

Exits(t) ==
  do_exit(t) \/ WakeParentAndReparent(t) \/ BecomeDead(t) \/ CleanupEnds(t)
  \/ ThreadExited(t)

ThreadStep(t) ==
  \/ proc_create(t) \/ StartChild(t)
  \/ \E c \in Thread, any \in BOOLEAN : do_waitpid(t, c, any)
  \/ WaitAgain(t)
  \/ proc_kill_all(t) \/ (\E p \in Thread : proc_kill(t, p)) \/ KillAllEnds(t)
  \/ Exits(t) \/ CleanupBlocks(t)
  \/ Blocks(t) \/ Yields(t)

ProcInit == Init /\ proc_init

ProcNext == Machine \/ (\E t \in Thread : ThreadStep(t))

ProcSpec == ProcInit /\ [][ProcNext]_allProcVars

(* The CPU goes on: the thread that has it takes its next step, or the next *)
(* one is dispatched.  Devices answer.                                      *)
CpuStep ==
  \/ (sched_switch \/ NoneRunnable \/ intr_wait \/ BroadcastStep) /\ UNCHANGED procVars
  \/ \E t \in Thread : ThreadStep(t)

ProcFairness ==
  /\ WF_allProcVars(CpuStep)
  /\ \A q \in DevQueue : WF_allProcVars(Interrupt(q) /\ UNCHANGED procVars)

ProcFairSpec == ProcSpec /\ ProcFairness
-----------------------------------------------------------------------------
ProcTypeOK ==
  /\ TypeOK
  /\ p_state \in [Thread -> {"none", "PROC_RUNNING", "PROC_DEAD"}]
  /\ p_pid \in [Thread -> Pid \cup {NoPid}]
  /\ \A p \in proc_list : p_pid[p] \in Pid
  /\ p_pproc \in [Thread -> Thread \cup {NoProc}]
  /\ p_children \in [Thread -> Seq(Thread)]
  /\ next_pid \in Pid
  /\ stage \in [Thread -> Stage]
  /\ child \in [Thread -> Thread \cup {NoProc}]
  /\ anyChild \in [Thread -> BOOLEAN]
  /\ victims \subseteq Thread
  /\ phase \in {"boot", "spawn", "collect", "halt"}

(* Every process but idle has a parent that can still reap it: one that is  *)
(* not past its own reparenting, and has it on p_children exactly once.     *)
FamilyTree ==
  /\ \A p \in proc_list \ {IdleThread} :
       /\ Parent(p) \in Thread
       /\ p_state[Parent(p)] = "PROC_RUNNING"
       /\ stage[Parent(p)] \notin {"cleanup", "flushed", "dead", "switch"}
       /\ p \in Range(p_children[Parent(p)])
  /\ \A p \in Thread :
       /\ IsInjective(p_children[p])
       /\ \A c \in Range(p_children[p]) : c \in proc_list /\ Parent(c) = p

(* No two processes have one pid, zombies included, however often the pids  *)
(* have wrapped round; 1 stays init's.                                      *)
PidsUnique ==
  \A p, q \in proc_list :
    /\ p_pid[p] = p_pid[q] => p = q
    /\ p_pid[p] = 1 => p = InitProc

(* do_waitpid frees the child's kthread_t and kernel stack: nobody may be   *)
(* running on that stack, nor be going to.  A zombie is off the CPU for     *)
(* good once another thread runs, and nothing of a freed process is queued. *)
StackFreedUnused ==
  \A p \in Thread :
    /\ p_state[p] = "PROC_DEAD" /\ curthr # p =>
         kt_state[p] = "KT_EXITED" /\ ktq.wchan[p] = NoQueue
    /\ p_state[p] = "none" =>
         /\ curthr # p
         /\ kt_state[p] \in {"KT_NO_STATE", "KT_EXITED"}
         /\ ktq.wchan[p] = NoQueue

(* A parent is asleep in do_waitpid only while the child it waits for lives *)
(* and is still its own, or the broadcast that ends the sleep is going on:  *)
(* the death of a child, and reparenting, lose no wake-up.                  *)
AsleepForALiveChild ==
  \A t \in Thread :
    ktq.wchan[t] = t =>
      /\ stage[t] = "wait" /\ Parent(child[t]) = t
      /\ p_state[child[t]] = "PROC_DEAD" => bcast = t

(* The processes hang together: every one of them can be reaped once, by    *)
(* the parent that lists it, and is told apart from the others by its pid.  *)
ProcessesSound == ProcTypeOK /\ FamilyTree /\ PidsUnique

(* do_waitpid and the death of a child meet in every order: no stack is     *)
(* freed that somebody runs on, and no wake-up of the parent is lost.       *)
WaitSound == StackFreedUnused /\ AsleepForALiveChild

(* Whoever waits for a child that is dead gets it.                          *)
DeadChildIsReaped ==
  \A t \in Thread :
    stage[t] = "wait" /\ p_state[child[t]] = "PROC_DEAD" ~> stage[t] = "user"

(* sys_halt brings the system down: once init collects, proc_kill_all makes *)
(* every process exit, wherever it was blocked, init find no child left and *)
(* idle's wait return init.                                                 *)
HaltCompletes ==
  (\E t \in Thread : stage[t] = "kill") /\ phase = "collect" ~> phase = "halt"

(* Each process step is a step of the scheduler or leaves it alone.         *)
UsesScheduler == Spec
=============================================================================
