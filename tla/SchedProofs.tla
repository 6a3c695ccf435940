---------------------------- MODULE SchedProofs ----------------------------
(***************************************************************************)
(* Proofs about Sched, for any threads, wait queues and device queues, and *)
(* then about Kmutex, for any mutexes.                                     *)
(***************************************************************************)
EXTENDS Kmutex, SequenceTheorems, TLAPS

USE SchedAssumption

(* Enqueueing a thread that is on no queue keeps the queues well formed.    *)
LEMMA EnqueueOK ==
  ASSUME NEW s \in KtQueues, QueuesOK(s), NEW q \in Queue, NEW t \in Thread,
         s.wchan[t] = NoQueue
  PROVE  /\ ktqueue_enqueue(s, q, t) \in KtQueues
         /\ QueuesOK(ktqueue_enqueue(s, q, t))
         /\ ktqueue_enqueue(s, q, t).wchan = [s.wchan EXCEPT ![t] = q]
<1> DEFINE r == ktqueue_enqueue(s, q, t)
<1>1. /\ r.list = [s.list EXCEPT ![q] = Append(s.list[q], t)]
      /\ r.size = [s.size EXCEPT ![q] = s.size[q] + 1]
      /\ r.wchan = [s.wchan EXCEPT ![t] = q]
  BY DEF ktqueue_enqueue, KtQueues
<1>2. r \in KtQueues
  BY DEF ktqueue_enqueue, KtQueues
<1>3. \A p \in Queue : /\ r.size[p] = Len(r.list[p])
                       /\ \A i \in DOMAIN r.list[p] : r.wchan[r.list[p][i]] = p
                       /\ \A i, j \in DOMAIN r.list[p] :
                            r.list[p][i] = r.list[p][j] => i = j
  BY <1>1 DEF KtQueues, QueuesOK, Queue
<1>4. ASSUME NEW u \in Thread, r.wchan[u] # NoQueue
      PROVE  \E i \in DOMAIN r.list[r.wchan[u]] : r.list[r.wchan[u]][i] = u
  <2>1. CASE u = t
    <3>1. r.wchan[u] = q /\ r.list[q] = Append(s.list[q], t)
      BY <1>1, <2>1 DEF KtQueues
    <3>2. Len(s.list[q]) + 1 \in DOMAIN Append(s.list[q], t)
      BY DEF KtQueues
    <3>3. Append(s.list[q], t)[Len(s.list[q]) + 1] = t
      BY DEF KtQueues
    <3>. QED BY <3>1, <3>2, <3>3, <2>1
  <2>2. CASE u # t
    <3>1. r.wchan[u] = s.wchan[u] /\ s.wchan[u] \in Queue
      BY <1>1, <1>4, <2>2 DEF KtQueues
    <3>2. PICK i \in DOMAIN s.list[s.wchan[u]] : s.list[s.wchan[u]][i] = u
      BY <3>1, <1>4 DEF QueuesOK
    <3>3. i \in DOMAIN r.list[s.wchan[u]] /\ r.list[s.wchan[u]][i] = u
      BY <1>1, <3>1, <3>2 DEF KtQueues
    <3>. QED BY <3>1, <3>3
  <2>. QED BY <2>1, <2>2
<1>. QED BY <1>1, <1>2, <1>3, <1>4 DEF QueuesOK

(* Dequeueing takes the head off a queue that is not empty.                 *)
LEMMA DequeueOK ==
  ASSUME NEW s \in KtQueues, QueuesOK(s), NEW q \in Queue, s.list[q] # <<>>
  PROVE  /\ Head(s.list[q]) \in Thread
         /\ s.wchan[Head(s.list[q])] = q
         /\ ktqueue_dequeue(s, q) \in KtQueues
         /\ QueuesOK(ktqueue_dequeue(s, q))
         /\ ktqueue_dequeue(s, q).wchan = [s.wchan EXCEPT ![Head(s.list[q])] = NoQueue]
<1> DEFINE r == ktqueue_dequeue(s, q)
           h == Head(s.list[q])
<1>0. s.list[q] \in Seq(Thread) /\ Len(s.list[q]) >= 1 /\ 1 \in DOMAIN s.list[q]
  BY DEF KtQueues
<1>1. /\ r.list = [s.list EXCEPT ![q] = Tail(s.list[q])]
      /\ r.size = [s.size EXCEPT ![q] = s.size[q] - 1]
      /\ r.wchan = [s.wchan EXCEPT ![h] = NoQueue]
  BY DEF ktqueue_dequeue, KtQueues
<1>2. h = s.list[q][1] /\ h \in Thread /\ s.wchan[h] = q
  BY <1>0 DEF QueuesOK
<1>3. s.size[q] - 1 \in Nat
  BY <1>0 DEF QueuesOK
<1>4. r \in KtQueues
  BY <1>0, <1>2, <1>3 DEF ktqueue_dequeue, KtQueues
<1>5. \A p \in Queue : /\ r.size[p] = Len(r.list[p])
                       /\ \A i \in DOMAIN r.list[p] : r.wchan[r.list[p][i]] = p
                       /\ \A i, j \in DOMAIN r.list[p] :
                            r.list[p][i] = r.list[p][j] => i = j
  <2> SUFFICES ASSUME NEW p \in Queue
               PROVE  /\ r.size[p] = Len(r.list[p])
                      /\ \A i \in DOMAIN r.list[p] : r.wchan[r.list[p][i]] = p
                      /\ \A i, j \in DOMAIN r.list[p] :
                           r.list[p][i] = r.list[p][j] => i = j
    OBVIOUS
  <2>1. CASE p = q
    <3>1. r.list[p] = Tail(s.list[q]) /\ r.size[p] = s.size[q] - 1
      BY <1>1, <2>1 DEF KtQueues
    <3>2. /\ Len(r.list[p]) = Len(s.list[q]) - 1
          /\ \A i \in DOMAIN r.list[p] :
               i + 1 \in DOMAIN s.list[q] /\ r.list[p][i] = s.list[q][i + 1]
      BY <1>0, <3>1
    <3>3. ASSUME NEW i \in DOMAIN r.list[p]
          PROVE  r.list[p][i] # h /\ r.list[p][i] \in Thread
      <4>1. i + 1 # 1 /\ i + 1 \in DOMAIN s.list[q]
        BY <1>0, <3>1, <3>2
      <4>2. s.list[q][i + 1] # s.list[q][1]
        BY <1>0, <4>1 DEF QueuesOK
      <4>. QED BY <1>0, <1>2, <3>2, <4>1, <4>2
    <3>4. \A i \in DOMAIN r.list[p] : r.wchan[r.list[p][i]] = p
      BY <1>1, <3>2, <3>3, <2>1 DEF QueuesOK, KtQueues
    <3>5. \A i, j \in DOMAIN r.list[p] : r.list[p][i] = r.list[p][j] => i = j
      BY <1>0, <3>2, <3>1 DEF QueuesOK
    <3>. QED BY <3>1, <3>2, <3>4, <3>5 DEF QueuesOK
  <2>2. CASE p # q
    BY <1>1, <1>2, <2>2 DEF QueuesOK, KtQueues
  <2>. QED BY <2>1, <2>2
<1>6. ASSUME NEW u \in Thread, r.wchan[u] # NoQueue
      PROVE  \E i \in DOMAIN r.list[r.wchan[u]] : r.list[r.wchan[u]][i] = u
  <2>1. u # h /\ r.wchan[u] = s.wchan[u] /\ s.wchan[u] \in Queue
    BY <1>1, <1>2, <1>6 DEF KtQueues
  <2>2. PICK i \in DOMAIN s.list[s.wchan[u]] : s.list[s.wchan[u]][i] = u
    BY <2>1, <1>6 DEF QueuesOK
  <2>3. CASE s.wchan[u] = q
    <3>1. i # 1 /\ i \in 1..Len(s.list[q])
      BY <1>0, <1>2, <2>1, <2>2, <2>3
    <3>2. r.list[q] = Tail(s.list[q])
      BY <1>1 DEF KtQueues
    <3>3. i - 1 \in DOMAIN r.list[q] /\ r.list[q][i - 1] = s.list[q][i]
      BY <1>0, <3>1, <3>2
    <3>. QED BY <2>1, <2>2, <2>3, <3>3
  <2>4. CASE s.wchan[u] # q
    BY <1>1, <2>1, <2>2, <2>4 DEF KtQueues
  <2>. QED BY <2>3, <2>4
<1>. QED BY <1>1, <1>2, <1>4, <1>5, <1>6 DEF QueuesOK

(* RemoveAt, element by element                                             *)
LEMMA RemoveAtProperties ==
  ASSUME NEW S, NEW f \in Seq(S), NEW k \in 1..Len(f)
  PROVE  /\ RemoveAt(f, k) \in Seq(S)
         /\ Len(RemoveAt(f, k)) = Len(f) - 1
         /\ \A i \in 1..(Len(f) - 1) :
              RemoveAt(f, k)[i] = IF i < k THEN f[i] ELSE f[i + 1]
<1> DEFINE a == SubSeq(f, 1, k - 1)
           b == SubSeq(f, k + 1, Len(f))
<1>1. a \in Seq(S) /\ Len(a) = k - 1 /\ \A i \in 1..(k - 1) : a[i] = f[i]
  OBVIOUS
<1>2. /\ b \in Seq(S) /\ Len(b) = Len(f) - k
      /\ \A i \in 1..(Len(f) - k) : b[i] = f[k + i]
  OBVIOUS
<1>3. RemoveAt(f, k) = a \o b
  BY DEF RemoveAt
<1> HIDE DEF a, b
<1>4. a \o b \in Seq(S) /\ Len(a \o b) = Len(f) - 1
  <2>1. a \o b \in Seq(S) /\ Len(a \o b) = Len(a) + Len(b)
    BY <1>1, <1>2, ConcatProperties, Zenon
  <2>2. Len(f) \in Nat
    OBVIOUS
  <2>. QED BY <1>1, <1>2, <2>1, <2>2
<1>5. ASSUME NEW i \in 1..(Len(f) - 1)
      PROVE  (a \o b)[i] = IF i < k THEN f[i] ELSE f[i + 1]
  <2>1. CASE i < k
    BY <1>1, <1>2, <2>1
  <2>2. CASE ~(i < k)
    <3>1. i - Len(a) \in 1..(Len(f) - k) /\ k + (i - Len(a)) = i + 1
      BY <1>1, <2>2
    <3>2. (a \o b)[i] = b[i - Len(a)]
      BY <1>1, <1>2, <2>2
    <3>. QED BY <1>2, <2>2, <3>1, <3>2
  <2>. QED BY <2>1, <2>2
<1>. QED BY <1>3, <1>4, <1>5

(* ktqueue_remove takes one thread out of the middle of the queue it is on. *)
LEMMA RemoveOK ==
  ASSUME NEW s \in KtQueues, QueuesOK(s), NEW q \in Queue, NEW t \in Thread,
         s.wchan[t] = q
  PROVE  /\ ktqueue_remove(s, q, t) \in KtQueues
         /\ QueuesOK(ktqueue_remove(s, q, t))
         /\ ktqueue_remove(s, q, t).wchan = [s.wchan EXCEPT ![t] = NoQueue]
<1> DEFINE r == ktqueue_remove(s, q, t)
           k == IndexIn(s, q, t)
           f == s.list[q]
           g == RemoveAt(f, k)
<1>0. f \in Seq(Thread) /\ q # NoQueue
  BY DEF KtQueues, Queue
<1>1. k \in 1..Len(f) /\ f[k] = t
  <2>1. \E i \in DOMAIN f : f[i] = t
    BY <1>0 DEF QueuesOK
  <2>2. k \in DOMAIN f /\ f[k] = t
    BY <2>1 DEF IndexIn
  <2>. QED BY <1>0, <2>2
<1>2. /\ r.list = [s.list EXCEPT ![q] = g]
      /\ r.size = [s.size EXCEPT ![q] = s.size[q] - 1]
      /\ r.wchan = [s.wchan EXCEPT ![t] = NoQueue]
  BY DEF ktqueue_remove
<1> HIDE DEF k
<1>3. /\ g \in Seq(Thread) /\ Len(g) = Len(f) - 1
      /\ \A i \in 1..(Len(f) - 1) : g[i] = IF i < k THEN f[i] ELSE f[i + 1]
  <2> HIDE DEF f
  <2>1. f \in Seq(Thread)
    BY <1>0
  <2>2. k \in 1..Len(f)
    BY <1>1
  <2>. QED BY <2>1, <2>2, RemoveAtProperties
<1> HIDE DEF g
<1>4. s.size[q] - 1 \in Nat
  BY <1>0, <1>1 DEF QueuesOK
<1>5. r \in KtQueues
  BY <1>0, <1>3, <1>4 DEF ktqueue_remove, KtQueues, g, k
<1>6. ASSUME NEW p \in Queue
      PROVE  /\ r.size[p] = Len(r.list[p])
             /\ \A i \in DOMAIN r.list[p] : r.wchan[r.list[p][i]] = p
             /\ \A i, j \in DOMAIN r.list[p] : r.list[p][i] = r.list[p][j] => i = j
  <2>1. CASE p # q
    BY <1>2, <2>1 DEF QueuesOK, KtQueues
  <2>2. CASE p = q
    <3>1. r.list[p] = g /\ DOMAIN g = 1..(Len(f) - 1)
      BY <1>0, <1>2, <1>3, <2>2 DEF KtQueues
    <3>2. ASSUME NEW i \in DOMAIN g
          PROVE  \E m \in DOMAIN f : /\ m = IF i < k THEN i ELSE i + 1
                                     /\ m # k /\ g[i] = f[m]
      BY <1>0, <1>1, <1>3, <3>1
    <3>3. \A i \in DOMAIN g : g[i] # t /\ g[i] \in Thread /\ s.wchan[g[i]] = q
      BY <1>0, <1>1, <3>2 DEF QueuesOK
    <3>4. \A i, j \in DOMAIN g : g[i] = g[j] => i = j
      <4> SUFFICES ASSUME NEW i \in DOMAIN g, NEW j \in DOMAIN g, g[i] = g[j]
                   PROVE  i = j
        OBVIOUS
      <4>1. PICK m \in DOMAIN f : /\ m = IF i < k THEN i ELSE i + 1
                                  /\ m # k /\ g[i] = f[m]
        BY <3>2
      <4>2. PICK n \in DOMAIN f : /\ n = IF j < k THEN j ELSE j + 1
                                  /\ n # k /\ g[j] = f[n]
        BY <3>2
      <4>3. f[m] = f[n]
        BY <4>1, <4>2
      <4>4. m = n
        BY <4>3 DEF QueuesOK
      <4>. QED BY <1>0, <1>1, <3>1, <4>1, <4>2, <4>4
    <3>5. r.size[p] = Len(g)
      BY <1>0, <1>2, <1>3, <2>2 DEF QueuesOK, KtQueues
    <3>. QED BY <1>2, <2>2, <3>1, <3>3, <3>4, <3>5 DEF KtQueues
  <2>. QED BY <2>1, <2>2
<1>7. ASSUME NEW u \in Thread, r.wchan[u] # NoQueue
      PROVE  \E i \in DOMAIN r.list[r.wchan[u]] : r.list[r.wchan[u]][i] = u
  <2>1. u # t /\ r.wchan[u] = s.wchan[u] /\ s.wchan[u] \in Queue
    BY <1>2, <1>7 DEF KtQueues
  <2>2. PICK m \in DOMAIN s.list[s.wchan[u]] : s.list[s.wchan[u]][m] = u
    BY <2>1, <1>7 DEF QueuesOK
  <2>3. CASE s.wchan[u] # q
    BY <1>2, <2>1, <2>2, <2>3 DEF KtQueues
  <2>4. CASE s.wchan[u] = q
    <3>1. r.list[q] = g /\ DOMAIN g = 1..(Len(f) - 1)
      BY <1>0, <1>2, <1>3 DEF KtQueues
    <3>2. m \in 1..Len(f) /\ m # k
      BY <1>0, <1>1, <2>1, <2>2, <2>4
    <3>3. \E i \in DOMAIN g : g[i] = u
      <4>1. CASE m < k
        BY <1>1, <1>3, <2>2, <2>4, <3>1, <3>2, <4>1
      <4>2. CASE m > k
        <5>1. m - 1 \in DOMAIN g /\ g[m - 1] = f[m]
          BY <1>0, <1>1, <1>3, <3>1, <3>2, <4>2
        <5>. QED BY <2>2, <2>4, <5>1
      <4>. QED BY <1>1, <3>2, <4>1, <4>2
    <3>. QED BY <2>1, <2>4, <3>1, <3>3
  <2>. QED BY <2>3, <2>4
<1>. QED BY <1>2, <1>5, <1>6, <1>7 DEF QueuesOK
-----------------------------------------------------------------------------
(* What a thread's move to the run queue does to every kt_wchan             *)
LEMMA MakeRunnableOK ==
  ASSUME TypeOK, NEW s \in KtQueues, QueuesOK(s), NEW t \in Thread,
         s.wchan[t] = NoQueue, MakeRunnable(s, t)
  PROVE  /\ ktq' \in KtQueues
         /\ QueuesOK(ktq')
         /\ ktq'.wchan = [s.wchan EXCEPT ![t] = RunQ]
         /\ kt_state' = [kt_state EXCEPT ![t] = "KT_RUN"]
<1>1. RunQ \in Queue
  BY DEF Queue
<1>. QED BY <1>1, EnqueueOK DEF MakeRunnable

(* Waking one thread: the queues stay well formed, the thread was asleep.   *)
LEMMA WakeOneOK ==
  ASSUME TypeOK, OnItsQueueOnly, NEW q \in WaitQueue, WakeOne(q)
  PROVE  /\ ktq' \in KtQueues
         /\ QueuesOK(ktq')
         /\ \E h \in Thread :
              /\ h = Head(ktq.list[q]) /\ ktq.wchan[h] = q
              /\ ktq'.wchan = [ktq.wchan EXCEPT ![h] = RunQ]
              /\ kt_state' = [kt_state EXCEPT ![h] = "KT_RUN"]
<1> DEFINE h == Head(ktq.list[q])
           s == ktqueue_dequeue(ktq, q)
<1>1. ktq \in KtQueues /\ QueuesOK(ktq) /\ q \in Queue
  BY DEF TypeOK, OnItsQueueOnly, Queue
<1>2. ktq.list[q] # <<>>
  BY <1>1 DEF WakeOne, QueuesOK, KtQueues
<1>3. /\ h \in Thread /\ ktq.wchan[h] = q
      /\ s \in KtQueues /\ QueuesOK(s)
      /\ s.wchan = [ktq.wchan EXCEPT ![h] = NoQueue]
  BY <1>1, <1>2, DequeueOK
<1>4. MakeRunnable(s, h)
  BY DEF WakeOne
<1> HIDE DEF h, s
<1>5. s.wchan[h] = NoQueue
  BY <1>1, <1>3 DEF KtQueues
<1>6. /\ ktq' \in KtQueues /\ QueuesOK(ktq')
      /\ ktq'.wchan = [s.wchan EXCEPT ![h] = RunQ]
      /\ kt_state' = [kt_state EXCEPT ![h] = "KT_RUN"]
  BY <1>3, <1>4, <1>5, MakeRunnableOK
<1>7. ktq'.wchan = [ktq.wchan EXCEPT ![h] = RunQ]
  BY <1>1, <1>3, <1>6 DEF KtQueues
<1>. QED BY <1>3, <1>6, <1>7 DEF h

(* A sleep takes the running thread, which is on no queue, to q.            *)
LEMMA SleepOK ==
  ASSUME TypeOK, OnItsQueueOnly, StateFitsQueue, NEW t \in Thread, Running(t),
         NEW q \in WaitQueue, ktq' = ktqueue_enqueue(ktq, q, t)
  PROVE  /\ ktq.wchan[t] = NoQueue
         /\ ktq' \in KtQueues
         /\ QueuesOK(ktq')
         /\ ktq'.wchan = [ktq.wchan EXCEPT ![t] = q]
<1>1. ktq \in KtQueues /\ QueuesOK(ktq) /\ q \in Queue /\ ktq.wchan[t] = NoQueue
  BY DEF TypeOK, OnItsQueueOnly, Queue, StateFitsQueue, Running
<1>. QED BY <1>1, EnqueueOK

(* The inductive invariant: the conjuncts need one another.  The queues stay *)
(* well formed because what is enqueued is on no queue, which StateFitsQueue *)
(* knows of the running thread and of a new one; StateFitsQueue in turn      *)
(* needs the wait queues' members to be where their kt_wchan says.           *)
IInv ==
  /\ TypeOK
  /\ OnItsQueueOnly
  /\ NeverLost
  /\ StateFitsQueue
  /\ CancelledNeverSleepsCancellably

(* The invariant holds when bootstrap() starts.                             *)
LEMMA InitIInv == Init => IInv
<1> SUFFICES ASSUME Init PROVE IInv
  OBVIOUS
<1>1. TypeOK
  BY DEF Init, TypeOK, KtQueues, sched_queue_init, ThreadState
<1>2. OnItsQueueOnly
  BY DEF Init, OnItsQueueOnly, QueuesOK, sched_queue_init
<1>3. NeverLost
  BY DEF Init, NeverLost
<1>4. StateFitsQueue
  BY DEF Init, StateFitsQueue, sched_queue_init, Sleeping, Queue
<1>5. CancelledNeverSleepsCancellably
  BY DEF Init, CancelledNeverSleepsCancellably
<1>. QED BY <1>1, <1>2, <1>3, <1>4, <1>5 DEF IInv

(* Waking one thread of a wait queue, the only change of the step           *)
LEMMA WakeStep ==
  ASSUME IInv, NEW q \in WaitQueue, WakeOne(q),
         UNCHANGED <<kt_cancelled, kt_ret, curthr>>, bcast' = bcast,
         \/ cpu' = cpu
         \/ cpu = "halt" /\ cpu' = "switch"
  PROVE  IInv'
<1>1. PICK h \in Thread : /\ ktq.wchan[h] = q
                          /\ ktq'.wchan = [ktq.wchan EXCEPT ![h] = RunQ]
                          /\ kt_state' = [kt_state EXCEPT ![h] = "KT_RUN"]
  BY WakeOneOK DEF IInv
<1>2. ktq' \in KtQueues /\ QueuesOK(ktq')
  BY WakeOneOK DEF IInv
<1>3. TypeOK'
  BY <1>1, <1>2 DEF IInv, TypeOK, ThreadState
<1>4. NeverLost'
  BY <1>1 DEF IInv, NeverLost, TypeOK, KtQueues
<1>5. StateFitsQueue'
  BY <1>1 DEF IInv, StateFitsQueue, TypeOK, KtQueues, Sleeping
<1>6. CancelledNeverSleepsCancellably'
  BY <1>1 DEF IInv, CancelledNeverSleepsCancellably, TypeOK
<1>. QED BY <1>2, <1>3, <1>4, <1>5, <1>6 DEF IInv, OnItsQueueOnly

(* The running thread goes to sleep on q in one of the two sleeping states. *)
LEMMA SleepStep ==
  ASSUME IInv, NEW t \in Thread, Running(t), NEW q \in WaitQueue,
         NEW st \in Sleeping,
         st = "KT_SLEEP_CANCELLABLE" => ~kt_cancelled[t],
         kt_state' = [kt_state EXCEPT ![t] = st],
         ktq' = ktqueue_enqueue(ktq, q, t),
         kt_ret' = kt_ret \/ kt_ret' = [kt_ret EXCEPT ![t] = "blocked"],
         cpu' = "switch",
         UNCHANGED <<kt_cancelled, curthr, bcast>>
  PROVE  IInv'
<1>1. /\ ktq.wchan[t] = NoQueue
      /\ ktq' \in KtQueues /\ QueuesOK(ktq')
      /\ ktq'.wchan = [ktq.wchan EXCEPT ![t] = q]
  BY SleepOK DEF IInv
<1>2. TypeOK'
  BY <1>1 DEF IInv, TypeOK, ThreadState, Sleeping
<1>3. NeverLost'
  BY <1>1 DEF IInv, NeverLost, TypeOK, KtQueues, Running
<1>4. StateFitsQueue'
  BY <1>1 DEF IInv, StateFitsQueue, TypeOK, KtQueues, Sleeping
<1>5. CancelledNeverSleepsCancellably'
  BY DEF IInv, CancelledNeverSleepsCancellably, TypeOK
<1>. QED BY <1>1, <1>2, <1>3, <1>4, <1>5 DEF IInv, OnItsQueueOnly

(* A thread on no queue, new or running, is made runnable.                  *)
LEMMA RunnableStep ==
  ASSUME IInv, NEW t \in Thread, ktq.wchan[t] = NoQueue, MakeRunnable(ktq, t),
         \/ t # curthr /\ cpu' = cpu
         \/ t = curthr /\ cpu' = "switch",
         UNCHANGED <<kt_cancelled, kt_ret, curthr, bcast>>
  PROVE  IInv'
<1>1. /\ ktq' \in KtQueues /\ QueuesOK(ktq')
      /\ ktq'.wchan = [ktq.wchan EXCEPT ![t] = RunQ]
      /\ kt_state' = [kt_state EXCEPT ![t] = "KT_RUN"]
  BY MakeRunnableOK DEF IInv, TypeOK, OnItsQueueOnly
<1>2. TypeOK'
  BY <1>1 DEF IInv, TypeOK, ThreadState
<1>3. NeverLost'
  BY <1>1 DEF IInv, NeverLost, TypeOK, KtQueues
<1>4. StateFitsQueue'
  BY <1>1 DEF IInv, StateFitsQueue, TypeOK, KtQueues, Sleeping
<1>5. CancelledNeverSleepsCancellably'
  BY <1>1 DEF IInv, CancelledNeverSleepsCancellably, TypeOK
<1>. QED BY <1>1, <1>2, <1>3, <1>4, <1>5 DEF IInv, OnItsQueueOnly

(* sched_cancel moves a cancellable sleeper and only marks anything else.    *)
LEMMA CancelMoves ==
  ASSUME IInv, NEW t \in Thread, kthread_cancel(t)
  PROVE  /\ ktq' \in KtQueues /\ QueuesOK(ktq')
         /\ \/ UNCHANGED <<ktq, kt_state>>
            \/ /\ kt_state[t] = "KT_SLEEP_CANCELLABLE"
               /\ kt_state' = [kt_state EXCEPT ![t] = "KT_RUN"]
               /\ ktq'.wchan = [ktq.wchan EXCEPT ![t] = RunQ]
         /\ kt_state[t] = "KT_SLEEP_CANCELLABLE" => kt_state' = [kt_state EXCEPT ![t] = "KT_RUN"]
<1> USE DEF kthread_cancel, sched_cancel
<1>0. ktq \in KtQueues /\ QueuesOK(ktq)
  BY DEF IInv, TypeOK, OnItsQueueOnly
<1>1. CASE kt_state[t] = "KT_SLEEP_CANCELLABLE"
  <2> DEFINE s == ktqueue_remove(ktq, ktq.wchan[t], t)
  <2>1. ktq.wchan[t] \in Queue
    BY <1>1 DEF IInv, StateFitsQueue, Sleeping, Queue
  <2>2. /\ s \in KtQueues /\ QueuesOK(s)
        /\ s.wchan = [ktq.wchan EXCEPT ![t] = NoQueue]
    BY <1>0, <2>1, RemoveOK
  <2>3. MakeRunnable(s, t)
    BY <1>1
  <2> HIDE DEF s
  <2>4. s.wchan[t] = NoQueue
    BY <1>0, <2>2 DEF KtQueues
  <2>5. /\ ktq' \in KtQueues /\ QueuesOK(ktq')
        /\ ktq'.wchan = [s.wchan EXCEPT ![t] = RunQ]
        /\ kt_state' = [kt_state EXCEPT ![t] = "KT_RUN"]
    BY <2>2, <2>3, <2>4, MakeRunnableOK DEF IInv
  <2>6. ktq'.wchan = [ktq.wchan EXCEPT ![t] = RunQ]
    BY <1>0, <2>2, <2>5 DEF KtQueues
  <2>. QED BY <1>1, <2>5, <2>6
<1>2. CASE kt_state[t] # "KT_SLEEP_CANCELLABLE"
  BY <1>0, <1>2
<1>. QED BY <1>1, <1>2

(* A cancel leaves no cancelled thread in a cancellable sleep.               *)
LEMMA CancelStep ==
  ASSUME IInv, NEW t \in Thread, kthread_cancel(t)
  PROVE  IInv'
<1>0. /\ curthr \in Thread /\ t # curthr /\ ktq \in KtQueues
      /\ kt_cancelled' = [kt_cancelled EXCEPT ![t] = TRUE]
      /\ UNCHANGED <<kt_ret, curthr, cpu, bcast>>
  BY DEF IInv, TypeOK, kthread_cancel, sched_cancel
<1>1. ktq' \in KtQueues /\ QueuesOK(ktq')
  BY CancelMoves
<1>2. CASE /\ kt_state[t] = "KT_SLEEP_CANCELLABLE"
           /\ kt_state' = [kt_state EXCEPT ![t] = "KT_RUN"]
           /\ ktq'.wchan = [ktq.wchan EXCEPT ![t] = RunQ]
  <2>1. TypeOK'
    BY <1>0, <1>1, <1>2 DEF IInv, TypeOK, ThreadState
  <2>2. NeverLost'
    BY <1>0, <1>2 DEF IInv, NeverLost, TypeOK, KtQueues
  <2>3. StateFitsQueue'
    BY <1>0, <1>2 DEF IInv, StateFitsQueue, TypeOK, KtQueues, Sleeping
  <2>4. CancelledNeverSleepsCancellably'
    BY <1>0, <1>2 DEF IInv, CancelledNeverSleepsCancellably, TypeOK
  <2>. QED BY <1>1, <2>1, <2>2, <2>3, <2>4 DEF IInv, OnItsQueueOnly
<1>3. CASE UNCHANGED <<ktq, kt_state>> /\ kt_state[t] # "KT_SLEEP_CANCELLABLE"
  <2>1. TypeOK'
    BY <1>0, <1>3 DEF IInv, TypeOK
  <2>2. OnItsQueueOnly' /\ NeverLost' /\ StateFitsQueue'
    BY <1>0, <1>3 DEF IInv, OnItsQueueOnly, QueuesOK, NeverLost, StateFitsQueue
  <2>3. CancelledNeverSleepsCancellably'
    BY <1>0, <1>3 DEF IInv, CancelledNeverSleepsCancellably, TypeOK
  <2>. QED BY <2>1, <2>2, <2>3 DEF IInv
<1>. QED
  <2>1. kt_state[t] = "KT_SLEEP_CANCELLABLE" => kt_state'[t] = "KT_RUN"
    BY CancelMoves DEF IInv, TypeOK
  <2>. QED BY <1>2, <1>3, <2>1, CancelMoves

(* The running thread becomes KT_EXITED, on no queue.                       *)
LEMMA ExitStep ==
  ASSUME IInv, NEW t \in Thread, kthread_exit(t)
  PROVE  IInv'
<1>1. TypeOK'
  BY DEF IInv, TypeOK, kthread_exit, ThreadState
<1>2. OnItsQueueOnly'
  BY DEF IInv, OnItsQueueOnly, QueuesOK, kthread_exit
<1>3. NeverLost'
  BY DEF IInv, NeverLost, TypeOK, kthread_exit
<1>4. StateFitsQueue'
  BY DEF IInv, StateFitsQueue, TypeOK, KtQueues, kthread_exit, Running, Sleeping, Queue
<1>5. CancelledNeverSleepsCancellably'
  BY DEF IInv, CancelledNeverSleepsCancellably, TypeOK, kthread_exit
<1>. QED BY <1>1, <1>2, <1>3, <1>4, <1>5 DEF IInv

(* A thread that is not current becomes new again, on no queue as before.   *)
LEMMA CreateStep ==
  ASSUME IInv, NEW t \in Thread, kthread_create(t)
  PROVE  IInv'
<1>1. TypeOK'
  BY DEF IInv, TypeOK, kthread_create, ThreadState
<1>2. OnItsQueueOnly'
  BY DEF IInv, OnItsQueueOnly, QueuesOK, kthread_create
<1>3. NeverLost'
  BY DEF IInv, NeverLost, TypeOK, kthread_create
<1>4. ktq.wchan[t] = NoQueue
  BY DEF IInv, TypeOK, KtQueues, StateFitsQueue, kthread_create, Sleeping, Queue
<1>5. StateFitsQueue'
  BY <1>4 DEF IInv, StateFitsQueue, TypeOK, kthread_create, Sleeping
<1>6. CancelledNeverSleepsCancellably'
  BY DEF IInv, CancelledNeverSleepsCancellably, TypeOK, kthread_create
<1>. QED BY <1>1, <1>2, <1>3, <1>5, <1>6 DEF IInv

(* The head of the run queue becomes the current thread.                    *)
LEMMA SwitchStep ==
  ASSUME IInv, sched_switch
  PROVE  IInv'
<1> DEFINE h == Head(ktq.list[RunQ])
<1>0. ktq \in KtQueues /\ QueuesOK(ktq) /\ RunQ \in Queue /\ ktq.list[RunQ] # <<>>
  BY DEF IInv, TypeOK, OnItsQueueOnly, Queue, sched_switch
<1>1. /\ h \in Thread /\ ktq.wchan[h] = RunQ
      /\ ktq' \in KtQueues /\ QueuesOK(ktq')
      /\ ktq'.wchan = [ktq.wchan EXCEPT ![h] = NoQueue]
  BY <1>0, DequeueOK DEF sched_switch
<1>2. /\ curthr' = h /\ cpu = "switch" /\ cpu' = "run"
      /\ kt_ret' = [kt_ret EXCEPT ![h] = Returned(h)]
      /\ UNCHANGED <<kt_state, kt_cancelled, bcast>>
  BY DEF sched_switch
<1> HIDE DEF h
<1>3. TypeOK'
  BY <1>1, <1>2 DEF IInv, TypeOK, Returned
<1>4. NeverLost'
  BY <1>1, <1>2 DEF IInv, NeverLost, TypeOK, KtQueues
<1>5. StateFitsQueue'
  BY <1>1, <1>2 DEF IInv, StateFitsQueue, TypeOK, KtQueues, Sleeping, Queue
<1>6. CancelledNeverSleepsCancellably'
  BY <1>2 DEF IInv, CancelledNeverSleepsCancellably
<1>. QED BY <1>1, <1>3, <1>4, <1>5, <1>6 DEF IInv, OnItsQueueOnly

(* A step that leaves the threads' states and the queues alone              *)
LEMMA OtherStep ==
  ASSUME IInv, UNCHANGED <<kt_state, kt_cancelled, ktq, curthr>>,
         kt_ret' \in [Thread -> {"none", "blocked", "ok", "EINTR"}],
         bcast' \in WaitQueue \cup {NoQueue},
         \/ cpu' = cpu
         \/ cpu # "run" /\ cpu' \in {"idle", "halt"}
         \/ cpu = "run" /\ cpu' = "switch" /\ kt_state[curthr] = "KT_EXITED"
  PROVE  IInv'
<1>1. TypeOK'
  BY DEF IInv, TypeOK
<1>2. OnItsQueueOnly'
  BY DEF IInv, OnItsQueueOnly, QueuesOK
<1>3. NeverLost'
  BY DEF IInv, NeverLost
<1>4. StateFitsQueue' /\ CancelledNeverSleepsCancellably'
  BY DEF IInv, StateFitsQueue, CancelledNeverSleepsCancellably
<1>. QED BY <1>1, <1>2, <1>3, <1>4 DEF IInv

(* The invariant is inductive: one case for every action of Next.           *)
LEMMA NextIInv == IInv /\ [Next]_schedVars => IInv'
<1> SUFFICES ASSUME IInv, [Next]_schedVars PROVE IInv'
  OBVIOUS
<1>0. curthr \in Thread /\ (cpu = "run" => ktq.wchan[curthr] = NoQueue)
  BY DEF IInv, TypeOK, StateFitsQueue
<1>1. ASSUME NEW t \in Thread, sched_make_runnable(t) PROVE IInv'
  <2>1. ktq.wchan[t] = NoQueue
    BY <1>1 DEF sched_make_runnable, IInv, TypeOK, KtQueues, StateFitsQueue, Sleeping, Queue
  <2>2. t # curthr
    BY <1>1 DEF sched_make_runnable, Running, IInv, StateFitsQueue
  <2>3. /\ MakeRunnable(ktq, t) /\ cpu' = cpu
        /\ UNCHANGED <<kt_cancelled, kt_ret, curthr, bcast>>
    BY <1>1 DEF sched_make_runnable
  <2>. QED BY <2>1, <2>2, <2>3, RunnableStep
<1>2. ASSUME NEW t \in Thread, Yield(t) PROVE IInv'
  BY <1>0, <1>2, RunnableStep DEF Yield, Running
<1>3. ASSUME NEW t \in Thread, kthread_cancel(t) PROVE IInv'
  BY <1>3, CancelStep
<1>4. ASSUME NEW t \in Thread, kthread_exit(t) PROVE IInv'
  BY <1>4, ExitStep
<1>5. ASSUME NEW t \in Thread, proc_thread_exited(t) PROVE IInv'
  BY <1>5, OtherStep DEF proc_thread_exited, Running, IInv, TypeOK
<1>6. ASSUME NEW t \in Thread, NEW q \in WaitQueue, sched_sleep_on(t, q) PROVE IInv'
  <2>1. "KT_SLEEP" \in Sleeping
    BY DEF Sleeping
  <2>. QED BY <1>6, <2>1, SleepStep DEF sched_sleep_on
<1>7. ASSUME NEW t \in Thread, NEW q \in WaitQueue, sched_cancellable_sleep_on(t, q)
      PROVE  IInv'
  <2>1. CASE ~kt_cancelled[t] /\ CancellableSleep(t, q)
    <3>1. "KT_SLEEP_CANCELLABLE" \in Sleeping
      BY DEF Sleeping
    <3>. QED BY <2>1, <3>1, SleepStep DEF CancellableSleep
  <2>2. CASE ~(~kt_cancelled[t] /\ CancellableSleep(t, q))
    BY <1>7, <2>2, OtherStep DEF sched_cancellable_sleep_on, IInv, TypeOK
  <2>. QED BY <2>1, <2>2
<1>8. ASSUME NEW q \in WaitQueue, sched_wakeup_on(q) PROVE IInv'
  <2>1. /\ WakeOne(q) /\ cpu' = cpu /\ bcast' = bcast
        /\ UNCHANGED <<kt_cancelled, kt_ret, curthr>>
    BY <1>8 DEF sched_wakeup_on
  <2>. QED BY <2>1, WakeStep
<1>9. ASSUME NEW q \in WaitQueue, sched_broadcast_on(q) PROVE IInv'
  BY <1>9, OtherStep DEF sched_broadcast_on, IInv, TypeOK
<1>10. ASSUME BroadcastStep PROVE IInv'
  <2>1. CASE ktq.size[bcast] > 0
    <3>1. /\ bcast \in WaitQueue /\ WakeOne(bcast) /\ cpu' = cpu /\ bcast' = bcast
          /\ UNCHANGED <<kt_cancelled, kt_ret, curthr>>
      BY <1>10, <2>1 DEF BroadcastStep
    <3>. QED BY <3>1, WakeStep
  <2>2. CASE ~(ktq.size[bcast] > 0)
    BY <1>10, <2>2, OtherStep DEF BroadcastStep, IInv, TypeOK
  <2>. QED BY <2>1, <2>2
<1>11. ASSUME sched_switch PROVE IInv'
  BY <1>11, SwitchStep
<1>12. ASSUME NEW q \in DevQueue, Interrupt(q) PROVE IInv'
  <2>1. /\ WakeOne(q) /\ bcast' = bcast /\ UNCHANGED <<kt_cancelled, kt_ret, curthr>>
        /\ \/ cpu' = cpu
           \/ cpu = "halt" /\ cpu' = "switch"
    BY <1>12 DEF Interrupt
  <2>. QED BY <2>1, WakeStep
<1>13. ASSUME NEW t \in Thread, kthread_create(t) PROVE IInv'
  BY <1>13, CreateStep
<1>14. ASSUME UNCHANGED schedVars PROVE IInv'
  BY <1>14, OtherStep DEF schedVars, IInv, TypeOK
<1>15. ASSUME NoneRunnable \/ intr_wait PROVE IInv'
  BY <1>15, OtherStep DEF NoneRunnable, intr_wait, IInv, TypeOK
<1>. QED
  BY <1>1, <1>2, <1>3, <1>4, <1>5, <1>6, <1>7, <1>8, <1>9, <1>10, <1>11, <1>12,
     <1>13, <1>14, <1>15 DEF Next

(* Every reachable state of the scheduler satisfies the inductive invariant. *)
THEOREM SchedIInv == Spec => []IInv
BY InitIInv, NextIInv, PTL DEF Spec

(* The scheduler's variables have their types.                              *)
THEOREM SchedTypeOK == Spec => []TypeOK
<1>1. IInv => TypeOK
  BY DEF IInv
<1>. QED BY SchedIInv, <1>1, PTL

(* The queues are well formed: a thread is linked at most once, where its   *)
(* kt_wchan says, and tq_size is the number of links (sched.c).             *)
THEOREM SchedOnItsQueueOnly == Spec => []OnItsQueueOnly
<1>1. IInv => OnItsQueueOnly
  BY DEF IInv
<1>. QED BY SchedIInv, <1>1, PTL

(* No thread is lost: one that is neither new nor exited runs or is on some *)
(* queue (the comments of sched.c 142 and kthread.h 56).                    *)
THEOREM SchedNeverLost == Spec => []NeverLost
<1>1. IInv => NeverLost
  BY DEF IInv
<1>. QED BY SchedIInv, <1>1, PTL

(* What a wake-up takes off a wait queue is asleep (sched_helper.c 56).     *)
THEOREM SchedStateFitsQueue == Spec => []StateFitsQueue
<1>1. IInv => StateFitsQueue
  BY DEF IInv
<1>. QED BY SchedIInv, <1>1, PTL

(* From the moment the run queue was found empty until the halt has ended   *)
(* nothing is put on it: the current thread does nothing, interrupts are    *)
(* masked, and the one that ends the halt sends the CPU back to look.       *)
LEMMA EmptyUntilHaltEnds ==
  LET Inv == cpu \in {"idle", "halt"} => ktq.list[RunQ] = <<>>
  IN  Inv /\ [Next]_schedVars => Inv'
<1> SUFFICES ASSUME cpu \in {"idle", "halt"} => ktq.list[RunQ] = <<>>,
                    [Next]_schedVars, cpu' \in {"idle", "halt"}
             PROVE  ktq'.list[RunQ] = <<>>
  OBVIOUS
<1>1. ASSUME \E t \in Thread :
               \/ kthread_create(t) \/ sched_make_runnable(t) \/ Yield(t)
               \/ kthread_cancel(t) \/ kthread_exit(t) \/ proc_thread_exited(t)
      PROVE  FALSE
  BY <1>1 DEF kthread_create, sched_make_runnable, Yield, kthread_cancel,
              kthread_exit, proc_thread_exited, Running
<1>2. ASSUME \E t \in Thread, q \in WaitQueue :
               sched_sleep_on(t, q) \/ sched_cancellable_sleep_on(t, q)
      PROVE  FALSE
  BY <1>2 DEF sched_sleep_on, sched_cancellable_sleep_on, CancellableSleep, Running
<1>3. ASSUME \E q \in WaitQueue : sched_wakeup_on(q) \/ sched_broadcast_on(q)
      PROVE  FALSE
  BY <1>3 DEF sched_wakeup_on, sched_broadcast_on, Running
<1>4. ASSUME BroadcastStep \/ sched_switch \/ (\E q \in DevQueue : Interrupt(q))
      PROVE  FALSE
  BY <1>4 DEF BroadcastStep, sched_switch, Interrupt, Masked
<1>5. ASSUME NoneRunnable \/ intr_wait \/ UNCHANGED schedVars
      PROVE  ktq'.list[RunQ] = <<>>
  BY <1>5 DEF NoneRunnable, intr_wait, schedVars
<1>. QED BY <1>1, <1>2, <1>3, <1>4, <1>5 DEF Next

(* The CPU is never halted while a thread is on the run queue (sched.c 208).*)
THEOREM SchedHaltsOnlyIdle == Spec => []HaltsOnlyIdle
<1> DEFINE Inv == cpu \in {"idle", "halt"} => ktq.list[RunQ] = <<>>
<1>1. Init => Inv
  BY DEF Init
<1>2. Inv /\ [Next]_schedVars => Inv'
  BY EmptyUntilHaltEnds
<1>3. Inv => HaltsOnlyIdle
  BY DEF HaltsOnlyIdle
<1>. QED BY <1>1, <1>2, <1>3, PTL DEF Spec

(* A cancelled thread is never in a cancellable sleep (sched.c 113 to 162). *)
THEOREM SchedCancelledAwake == Spec => []CancelledNeverSleepsCancellably
<1>1. IInv => CancelledNeverSleepsCancellably
  BY DEF IInv
<1>. QED BY SchedIInv, <1>1, PTL
-----------------------------------------------------------------------------
(* The queues, states, cancel flags and types hang together, for any threads *)
(* and queues (sched.c 46 to 99, sched_helper.c 40 to 76).                  *)
THEOREM SchedQueuesSound == Spec => []QueuesSound
<1>1. IInv /\ CancelledNeverSleepsCancellably => QueuesSound
  BY DEF IInv, QueuesSound
<1>. QED BY SchedIInv, SchedCancelledAwake, <1>1, PTL

(* Every step leaves the run queue alone, appends one thread to it, or takes *)
(* its head, which is on no queue then.                                      *)
LEMMA RunQueueChange ==
  ASSUME IInv, [Next]_schedVars
  PROVE  \/ ktq'.list[RunQ] = ktq.list[RunQ]
         \/ \E t \in Thread : ktq'.list[RunQ] = Append(ktq.list[RunQ], t)
         \/ /\ ktq.list[RunQ] # <<>>
            /\ ktq'.list[RunQ] = Tail(ktq.list[RunQ])
            /\ ktq'.wchan[Head(ktq.list[RunQ])] # RunQ
<1> DEFINE Unchanged == ktq'.list[RunQ] = ktq.list[RunQ]
           Appended == \E t \in Thread : ktq'.list[RunQ] = Append(ktq.list[RunQ], t)
<1>0. /\ ktq \in KtQueues /\ QueuesOK(ktq) /\ RunQ \in Queue /\ curthr \in Thread
      /\ RunQ # NoQueue /\ RunQ \notin WaitQueue /\ WaitQueue \subseteq Queue
  BY DEF IInv, TypeOK, OnItsQueueOnly, Queue
<1>1. ASSUME NEW t \in Thread, MakeRunnable(ktq, t) PROVE Appended
  BY <1>0, <1>1 DEF MakeRunnable, ktqueue_enqueue, KtQueues
<1>2. ASSUME NEW q \in WaitQueue, WakeOne(q) PROVE Appended
  <2>1. ktq.list[q] # <<>> /\ q \in Queue
    BY <1>0, <1>2 DEF WakeOne, QueuesOK, KtQueues
  <2>2. Head(ktq.list[q]) \in Thread
    BY <1>0, <2>1, DequeueOK
  <2>3. ktqueue_dequeue(ktq, q).list[RunQ] = ktq.list[RunQ]
    BY <1>0, <1>2 DEF ktqueue_dequeue, KtQueues
  <2>4. ktqueue_dequeue(ktq, q) \in KtQueues
    BY <1>0, <2>1, DequeueOK
  <2>5. ktq' = ktqueue_enqueue(ktqueue_dequeue(ktq, q), RunQ, Head(ktq.list[q]))
    BY <1>2 DEF WakeOne, MakeRunnable
  <2> DEFINE s == ktqueue_dequeue(ktq, q)
             h == Head(ktq.list[q])
  <2> HIDE DEF s, h
  <2>6. ktq'.list[RunQ] = Append(s.list[RunQ], h)
    BY <1>0, <2>4, <2>5 DEF ktqueue_enqueue, KtQueues, s, h
  <2>. QED BY <2>2, <2>3, <2>6 DEF s, h
<1>3. ASSUME NEW t \in Thread, NEW q \in WaitQueue, ktq' = ktqueue_enqueue(ktq, q, t)
      PROVE  Unchanged
  BY <1>0, <1>3 DEF ktqueue_enqueue, KtQueues
<1>4. ASSUME NEW t \in Thread, kthread_cancel(t) PROVE Unchanged \/ Appended
  <2>1. CASE kt_state[t] = "KT_SLEEP_CANCELLABLE"
    <3> DEFINE s == ktqueue_remove(ktq, ktq.wchan[t], t)
    <3>1. ktq.wchan[t] \in WaitQueue
      BY <2>1 DEF IInv, StateFitsQueue, Sleeping
    <3>2. s.list[RunQ] = ktq.list[RunQ]
      BY <1>0, <3>1 DEF ktqueue_remove, KtQueues
    <3>3. s \in KtQueues
      BY <1>0, <3>1, RemoveOK
    <3>4. ktq' = ktqueue_enqueue(s, RunQ, t)
      BY <1>4, <2>1 DEF kthread_cancel, sched_cancel, MakeRunnable
    <3> HIDE DEF s
    <3>5. ktq'.list[RunQ] = Append(s.list[RunQ], t)
      BY <1>0, <3>3, <3>4 DEF ktqueue_enqueue, KtQueues
    <3>. QED BY <3>2, <3>5
  <2>2. CASE kt_state[t] # "KT_SLEEP_CANCELLABLE"
    BY <1>4, <2>2 DEF kthread_cancel, sched_cancel
  <2>. QED BY <2>1, <2>2
<1>5. ASSUME sched_switch
      PROVE  /\ ktq.list[RunQ] # <<>>
             /\ ktq'.list[RunQ] = Tail(ktq.list[RunQ])
             /\ ktq'.wchan[Head(ktq.list[RunQ])] # RunQ
  <2>1. ktq.list[RunQ] # <<>> /\ ktq' = ktqueue_dequeue(ktq, RunQ)
    BY <1>5 DEF sched_switch
  <2>2. Head(ktq.list[RunQ]) \in Thread
    BY <1>0, <2>1, DequeueOK
  <2>. QED BY <1>0, <2>1, <2>2 DEF ktqueue_dequeue, KtQueues
<1>6. CASE UNCHANGED ktq
  BY <1>6
<1>7. CASE \E t \in Thread : sched_make_runnable(t) \/ Yield(t)
  BY <1>1, <1>7 DEF sched_make_runnable, Yield
<1>8. CASE \E t \in Thread, q \in WaitQueue :
             sched_sleep_on(t, q) \/ sched_cancellable_sleep_on(t, q)
  BY <1>3, <1>6, <1>8
  DEF sched_sleep_on, sched_cancellable_sleep_on, CancellableSleep
<1>9. CASE \E q \in WaitQueue : sched_wakeup_on(q) \/ sched_broadcast_on(q)
  BY <1>2, <1>6, <1>9 DEF sched_wakeup_on, sched_broadcast_on
<1>10. CASE BroadcastStep
  BY <1>2, <1>6, <1>10 DEF BroadcastStep
<1>11. CASE \E q \in DevQueue : Interrupt(q)
  BY <1>2, <1>11 DEF Interrupt
<1>12. CASE \E t \in Thread :
              kthread_create(t) \/ kthread_exit(t) \/ proc_thread_exited(t)
  BY <1>6, <1>12 DEF kthread_create, kthread_exit, proc_thread_exited
<1>13. CASE NoneRunnable \/ intr_wait
  BY <1>6, <1>13 DEF NoneRunnable, intr_wait
<1>. QED
  BY <1>4, <1>5, <1>6, <1>7, <1>8, <1>9, <1>10, <1>11, <1>12, <1>13 DEF Next, schedVars

(* The run queue is first in, first out (ktqueue_enqueue, ktqueue_dequeue). *)
THEOREM SchedFifo == Spec => RunQueueFifo
<1>1. ASSUME IInv, [Next]_schedVars, NEW a \in Thread, NEW b \in Thread,
             Before(RunQ, a, b)
      PROVE  Before(RunQ, a, b)' \/ ktq'.wchan[a] # RunQ
  <2> DEFINE f == ktq.list[RunQ]
             g == ktq'.list[RunQ]
  <2>0. f \in Seq(Thread)
    BY <1>1 DEF IInv, TypeOK, KtQueues, Queue
  <2>1. PICK i, j \in DOMAIN f : i < j /\ f[i] = a /\ f[j] = b
    BY <1>1 DEF Before
  <2>2. Before(RunQ, a, b)' <=> \E m, n \in DOMAIN g : m < n /\ g[m] = a /\ g[n] = b
    BY DEF Before
  <2>3. CASE g = f
    BY <2>1, <2>2, <2>3
  <2>4. ASSUME NEW t \in Thread, g = Append(f, t)
        PROVE  Before(RunQ, a, b)'
    <3> HIDE DEF f, g
    <3>1. /\ DOMAIN f = 1..Len(f) /\ Len(f) \in Nat /\ DOMAIN g = 1..(Len(f) + 1)
          /\ \A m \in 1..Len(f) : g[m] = f[m]
      BY <2>0, <2>4
    <3>2. i \in DOMAIN g /\ j \in DOMAIN g
      BY <2>1, <3>1
    <3>3. g[i] = a /\ g[j] = b
      BY <2>1, <3>1
    <3>. QED BY <2>1, <2>2, <3>2, <3>3
  <2>5. ASSUME f # <<>>, g = Tail(f), ktq'.wchan[Head(f)] # RunQ
        PROVE  Before(RunQ, a, b)' \/ ktq'.wchan[a] # RunQ
    <3>1. CASE i = 1
      BY <2>0, <2>1, <2>5, <3>1
    <3>2. CASE i # 1
      <4>1. /\ i - 1 \in DOMAIN g /\ g[i - 1] = a
            /\ j - 1 \in DOMAIN g /\ g[j - 1] = b /\ i - 1 < j - 1
        <5>1. /\ i \in 1..Len(f) /\ j \in 1..Len(f) /\ i > 1 /\ j > 1
              /\ Len(f) \in Nat
          BY <2>0, <2>1, <3>2
        <5>2. DOMAIN g = 1..(Len(f) - 1) /\ \A m \in 1..(Len(f) - 1) : g[m] = f[m + 1]
          BY <2>0, <2>5
        <5> HIDE DEF f, g
        <5>3. i - 1 \in 1..(Len(f) - 1) /\ j - 1 \in 1..(Len(f) - 1) /\ i - 1 < j - 1
          BY <2>1, <5>1
        <5>4. g[i - 1] = f[(i - 1) + 1] /\ g[j - 1] = f[(j - 1) + 1]
          BY <5>2, <5>3
        <5>5. (i - 1) + 1 = i /\ (j - 1) + 1 = j
          BY <5>1
        <5>. QED BY <2>1, <5>2, <5>3, <5>4, <5>5
      <4>. QED BY <2>2, <4>1
    <3>. QED BY <3>1, <3>2
  <2>. QED BY <1>1, <2>3, <2>4, <2>5, RunQueueChange
<1>2. ASSUME IInv, IInv', [Next]_schedVars, NEW a \in Thread, NEW b \in Thread,
             ktq.wchan[a] = RunQ, ktq.wchan[b] # RunQ, ktq'.wchan[b] = RunQ
      PROVE  Before(RunQ, a, b)'
  <2> DEFINE f == ktq.list[RunQ]
             g == ktq'.list[RunQ]
  <2>0. f \in Seq(Thread) /\ g \in Seq(Thread) /\ RunQ \in Queue /\ RunQ # NoQueue
    BY <1>2 DEF IInv, TypeOK, KtQueues, Queue
  <2>1. PICK i \in DOMAIN f : f[i] = a
    BY <1>2, <2>0 DEF IInv, OnItsQueueOnly, QueuesOK
  <2>2. PICK j \in DOMAIN g : g[j] = b
    BY <1>2, <2>0 DEF IInv, OnItsQueueOnly, QueuesOK
  <2>3. \A k \in DOMAIN f : f[k] # b
    BY <1>2, <2>0 DEF IInv, OnItsQueueOnly, QueuesOK
  <2>4. CASE g = f
    BY <2>2, <2>3, <2>4
  <2>5. ASSUME NEW t \in Thread, g = Append(f, t)
        PROVE  Before(RunQ, a, b)'
    <3> HIDE DEF f, g
    <3>1. /\ DOMAIN f = 1..Len(f) /\ DOMAIN g = 1..(Len(f) + 1) /\ Len(f) \in Nat
          /\ \A k \in 1..Len(f) : g[k] = f[k]
      BY <2>0, <2>5
    <3>2. j = Len(f) + 1 /\ i < j /\ i \in DOMAIN g /\ g[i] = a
      BY <2>1, <2>2, <2>3, <3>1
    <3>. QED BY <2>2, <3>2 DEF Before, g
  <2>6. ASSUME f # <<>>, g = Tail(f)
        PROVE  FALSE
    <3> HIDE DEF f, g
    <3>1. j + 1 \in DOMAIN f /\ f[j + 1] = b
      BY <2>0, <2>2, <2>6
    <3>. QED BY <2>3, <3>1
  <2>. QED BY <1>2, <2>4, <2>5, <2>6, RunQueueChange
<1>3. IInv /\ IInv' /\ [Next]_schedVars =>
        [\A a, b \in Thread :
           ktq.wchan[a] = RunQ /\ ktq'.wchan[a] = RunQ =>
             /\ Before(RunQ, a, b) => Before(RunQ, a, b)'
             /\ ktq.wchan[b] # RunQ /\ ktq'.wchan[b] = RunQ
                => Before(RunQ, a, b)']_schedVars
  BY <1>1, <1>2
<1>. QED BY <1>3, SchedIInv, PTL DEF Spec, RunQueueFifo
-----------------------------------------------------------------------------
(* The mutexes, for any mutexes too.                                        *)
USE KmutexAssumption

(* Every step of the mutexes and their users is a step of the scheduler or  *)
(* leaves it alone: kmutex.c changes no queue and no thread state itself.   *)
LEMMA MutexStep == [MutexNext]_kmutexVars => [Next]_schedVars
<1> SUFFICES ASSUME [MutexNext]_kmutexVars PROVE [Next]_schedVars
  OBVIOUS
<1>1. ASSUME NEW t \in Thread, NEW m \in Mutex, kmutex_lock(t, m) PROVE [Next]_schedVars
  BY <1>1 DEF kmutex_lock, Take, Next
<1>2. ASSUME NEW t \in Thread, NEW m \in Mutex, kmutex_lock_cancellable(t, m)
      PROVE  [Next]_schedVars
  BY <1>2 DEF kmutex_lock_cancellable, Take, Next
<1>3. ASSUME NEW t \in Thread, NEW m \in Mutex, kmutex_unlock(t, m) PROVE [Next]_schedVars
  BY <1>3 DEF kmutex_unlock, Next
<1>4. ASSUME NEW t \in Thread, LockReturns(t) \/ Create(t) PROVE [Next]_schedVars
  BY <1>4 DEF LockReturns, Create, Next
<1>5. ASSUME NEW t \in Thread, GiveUpCpu(t) PROVE [Next]_schedVars
  BY <1>5 DEF GiveUpCpu, Next
<1>6. ASSUME NEW t \in Thread, Exit(t) PROVE [Next]_schedVars
  BY <1>6 DEF Exit, Next
<1>7. ASSUME NEW t \in Thread, NEW v \in Thread, Cancel(t, v) PROVE [Next]_schedVars
  BY <1>7 DEF Cancel, Next
<1>8. ASSUME Kernel PROVE [Next]_schedVars
  BY <1>8 DEF Kernel, Next
<1>9. ASSUME UNCHANGED kmutexVars PROVE [Next]_schedVars
  BY <1>9 DEF kmutexVars
<1>. QED BY <1>1, <1>2, <1>3, <1>4, <1>5, <1>6, <1>7, <1>8, <1>9 DEF MutexNext

(* So the mutexes implement the scheduler's specification.                  *)
THEOREM MutexUsesScheduler == MutexSpec => ImplementsScheduler
<1>1. MutexInit => Init
  BY DEF MutexInit
<1>. QED BY <1>1, MutexStep, PTL DEF MutexSpec, Spec, ImplementsScheduler
-----------------------------------------------------------------------------
(* A thread inside a lock call: it sleeps the way the call says, and once   *)
(* it runs again it knows that it was cancelled or is the holder.           *)
InsideCall ==
  \A t \in Thread : call[t] # NoCall =>
    /\ kt_state[t] # "KT_EXITED"
    /\ call[t].op = "kmutex_lock" /\ ktq.wchan[t] = call[t].mtx => kt_state[t] = "KT_SLEEP"
    /\ call[t].op = "kmutex_lock_cancellable" =>
         IF curthr = t /\ cpu = "run"
         THEN kt_ret[t] = "EINTR" \/ km_holder[call[t].mtx] = t
         ELSE kt_ret[t] = "blocked"

(* The inductive invariant.  A call returns 0 to the holder because a       *)
(* thread leaves its sleep as the holder or as cancelled (WokenAsHolder),   *)
(* and a cancelled one is told so (InsideCall); who holds the mutex changes *)
(* only when the head of its queue, inside a call of it (NoStrandedWaiter), *)
(* is made the holder by the one that has it (MutualExclusion).             *)
MutexIInv ==
  /\ IInv
  /\ MutexTypeOK
  /\ MutualExclusion
  /\ NoStrandedWaiter
  /\ WokenAsHolder
  /\ InsideCall

(* A queue is empty when no kt_wchan names it.                              *)
LEMMA EmptyQueue ==
  ASSUME NEW s \in KtQueues, QueuesOK(s), NEW q \in Queue
  PROVE  s.list[q] = <<>> <=> \A t \in Thread : s.wchan[t] # q
<1>1. s.list[q] \in Seq(Thread)
  BY DEF KtQueues
<1>2. ASSUME s.list[q] = <<>>, NEW t \in Thread PROVE s.wchan[t] # q
  <2>1. DOMAIN s.list[q] = {}
    BY <1>2
  <2>. QED BY <2>1 DEF QueuesOK, Queue
<1>3. ASSUME s.list[q] # <<>> PROVE \E t \in Thread : s.wchan[t] = q
  <2>1. 1 \in DOMAIN s.list[q] /\ s.list[q][1] \in Thread
    BY <1>1, <1>3
  <2>. QED BY <2>1 DEF QueuesOK
<1>. QED BY <1>2, <1>3

(* The queues of the mutexes are none of the others.                        *)
LEMMA MutexQueues ==
  /\ Mutex \subseteq WaitQueue /\ WaitQueue \subseteq Queue
  /\ RunQ \notin Mutex /\ NoQueue \notin Mutex /\ Mutex \cap DevQueue = {}
BY DEF Queue

(* What NoStrandedWaiter says in terms of kt_wchan                          *)
LEMMA Stranded ==
  ASSUME NEW s \in KtQueues, QueuesOK(s),
         \A m \in Mutex : mutexFree(m)' => \A t \in Thread : s.wchan[t] # m,
         \A m \in Mutex, t \in Thread :
           s.wchan[t] = m => call'[t].mtx = m /\ km_holder'[m] # t,
         s = ktq'
  PROVE  NoStrandedWaiter'
BY EmptyQueue, MutexQueues DEF NoStrandedWaiter, mutexFree

(* A thread inside a call                                                   *)
LEMMA CallType ==
  ASSUME MutexTypeOK, NEW t \in Thread, call[t] # NoCall
  PROVE  call[t].op \in LockOp /\ call[t].mtx \in Mutex
BY DEF MutexTypeOK, LockOp

(* A step that concerns no mutex: one thread, not asleep on a mutex before  *)
(* or after it, may move between queues.                                    *)
LEMMA QuietStep ==
  ASSUME MutexIInv, IInv', UNCHANGED mutexVars,
         NEW h \in Thread, NEW q, q \notin Mutex, ktq.wchan[h] \notin Mutex,
         ktq'.wchan = [ktq.wchan EXCEPT ![h] = q],
         \A t \in Thread \ {h} : kt_state'[t] = kt_state[t],
         call[h] = NoCall \/ kt_state'[h] = "KT_RUN",
         UNCHANGED kt_cancelled,
         \A t \in Thread : call[t] # NoCall =>
           /\ kt_ret'[t] = kt_ret[t]
           /\ (curthr' = t /\ cpu' = "run") <=> (curthr = t /\ cpu = "run")
  PROVE  MutexIInv'
<1>1. /\ ktq \in KtQueues /\ QueuesOK(ktq) /\ ktq' \in KtQueues /\ QueuesOK(ktq')
      /\ \A t \in Thread : ktq'.wchan[t] = IF t = h THEN q ELSE ktq.wchan[t]
  BY DEF MutexIInv, IInv, TypeOK, OnItsQueueOnly, KtQueues
<1>2. MutexTypeOK'
  BY DEF MutexIInv, MutexTypeOK, IInv, mutexVars
<1>3. MutualExclusion'
  BY DEF MutexIInv, MutualExclusion, mutexVars
<1>4. NoStrandedWaiter'
  <2>1. \A m \in Mutex : mutexFree(m)' => \A t \in Thread : ktq'.wchan[t] # m
    BY <1>1, EmptyQueue, MutexQueues DEF MutexIInv, NoStrandedWaiter, mutexFree, mutexVars
  <2>2. \A m \in Mutex, t \in Thread :
          ktq'.wchan[t] = m => call'[t].mtx = m /\ km_holder'[m] # t
    BY <1>1 DEF MutexIInv, NoStrandedWaiter, mutexVars
  <2>. QED BY <1>1, <2>1, <2>2, Stranded
<1>5. WokenAsHolder'
  BY <1>1, CallType DEF MutexIInv, WokenAsHolder, mutexVars
<1>6. InsideCall'
  BY <1>1, CallType DEF MutexIInv, InsideCall, mutexVars
<1>. QED BY <1>2, <1>3, <1>4, <1>5, <1>6 DEF MutexIInv

(* A free mutex is taken.                                                   *)
LEMMA TakeStep ==
  ASSUME MutexIInv, IInv', NEW t \in Thread, NEW m \in Mutex, InThread(t), Take(t, m)
  PROVE  MutexIInv'
<1>1. /\ ktq \in KtQueues /\ QueuesOK(ktq) /\ ktq' = ktq /\ ktq.wchan[t] = NoQueue
      /\ UNCHANGED <<kt_state, kt_cancelled, kt_ret, curthr, cpu>> /\ call' = call
  BY DEF MutexIInv, IInv, TypeOK, OnItsQueueOnly, StateFitsQueue, InThread, Running,
         Take, schedVars
<1>2. /\ km_holder[m] = NoQueue /\ t # NoQueue
      /\ \A n \in Mutex : km_holder'[n] = IF n = m THEN t ELSE km_holder[n]
      /\ \A u \in Thread : has'[u] = IF u = t THEN has[u] \cup {m} ELSE has[u]
  BY DEF Take, mutexFree, MutexIInv, MutexTypeOK
<1>3. MutexTypeOK'
  BY <1>1 DEF MutexIInv, MutexTypeOK, IInv, Take
<1>4. MutualExclusion'
  <2> SUFFICES ASSUME NEW u \in Thread, NEW n \in has'[u] PROVE km_holder'[n] = u
    BY DEF MutualExclusion
  <2>1. n \in Mutex
    BY <1>3 DEF MutexTypeOK
  <2>2. CASE n \in has[u]
    BY <1>2, <2>1, <2>2 DEF MutexIInv, MutualExclusion
  <2>3. CASE n \notin has[u]
    BY <1>2, <2>1, <2>3
  <2>. QED BY <2>2, <2>3
<1>5. NoStrandedWaiter'
  <2>1. \A n \in Mutex : mutexFree(n)' => \A u \in Thread : ktq'.wchan[u] # n
    <3> SUFFICES ASSUME NEW n \in Mutex, mutexFree(n)' PROVE \A u \in Thread : ktq'.wchan[u] # n
      OBVIOUS
    <3>1. ktq.list[n] = <<>> /\ n \in Queue
      BY <1>2, MutexQueues DEF MutexIInv, NoStrandedWaiter, mutexFree
    <3>. QED BY <1>1, <3>1, EmptyQueue
  <2>2. \A n \in Mutex, u \in Thread :
          ktq'.wchan[u] = n => call'[u].mtx = n /\ km_holder'[n] # u
    BY <1>1, <1>2, MutexQueues DEF MutexIInv, NoStrandedWaiter
  <2>. QED BY <1>1, <2>1, <2>2, Stranded
<1>6. WokenAsHolder'
  BY <1>1, <1>2, CallType DEF MutexIInv, WokenAsHolder
<1>7. InsideCall'
  BY <1>1, <1>2, CallType DEF MutexIInv, InsideCall
<1>. QED BY <1>3, <1>4, <1>5, <1>6, <1>7 DEF MutexIInv

(* The running thread goes to sleep on a mutex that another one holds.      *)
LEMMA BlockStep ==
  ASSUME MutexIInv, IInv', NEW t \in Thread, NEW m \in Mutex, NEW op \in LockOp,
         ~mutexFree(m), km_holder[m] # t, Block(t, m, op),
         ktq'.wchan = [ktq.wchan EXCEPT ![t] = m],
         op = "kmutex_lock" => kt_state'[t] = "KT_SLEEP",
         kt_state'[t] # "KT_EXITED",
         \A u \in Thread \ {t} : kt_state'[u] = kt_state[u] /\ kt_ret'[u] = kt_ret[u],
         op = "kmutex_lock_cancellable" => kt_ret'[t] = "blocked",
         curthr = t, cpu = "run", cpu' = "switch", UNCHANGED <<kt_cancelled, curthr>>
  PROVE  MutexIInv'
<1>1. /\ ktq \in KtQueues /\ QueuesOK(ktq) /\ ktq' \in KtQueues /\ QueuesOK(ktq')
      /\ \A u \in Thread : ktq'.wchan[u] = IF u = t THEN m ELSE ktq.wchan[u]
      /\ km_holder' = km_holder /\ has' = has
  BY DEF MutexIInv, IInv, TypeOK, OnItsQueueOnly, KtQueues, Block
<1>2. call'[t] = [op |-> op, mtx |-> m] /\ \A u \in Thread \ {t} : call'[u] = call[u]
  BY DEF Block, MutexIInv, MutexTypeOK
<1>3. MutexTypeOK'
  BY DEF MutexIInv, MutexTypeOK, IInv, Block
<1>4. MutualExclusion'
  BY <1>1 DEF MutexIInv, MutualExclusion
<1>5. NoStrandedWaiter'
  <2>1. \A n \in Mutex : mutexFree(n)' => \A u \in Thread : ktq'.wchan[u] # n
    BY <1>1, EmptyQueue, MutexQueues DEF MutexIInv, NoStrandedWaiter, mutexFree
  <2>2. \A n \in Mutex, u \in Thread :
          ktq'.wchan[u] = n => call'[u].mtx = n /\ km_holder'[n] # u
    BY <1>1, <1>2 DEF MutexIInv, NoStrandedWaiter
  <2>. QED BY <1>1, <2>1, <2>2, Stranded
<1>6. WokenAsHolder'
  BY <1>1, <1>2, CallType DEF MutexIInv, WokenAsHolder
<1>7. InsideCall'
  BY <1>1, <1>2, CallType DEF MutexIInv, InsideCall
<1>. QED BY <1>3, <1>4, <1>5, <1>6, <1>7 DEF MutexIInv

(* A lock call returns, as its caller is told.                              *)
LEMMA ReturnStep ==
  ASSUME MutexIInv, IInv', NEW t \in Thread, LockReturns(t)
  PROVE  MutexIInv'
<1>1. /\ ktq \in KtQueues /\ QueuesOK(ktq) /\ ktq' = ktq /\ ktq.wchan[t] = NoQueue
      /\ UNCHANGED <<kt_state, kt_cancelled, kt_ret, curthr, cpu>>
      /\ km_holder' = km_holder /\ curthr = t /\ cpu = "run"
      /\ call[t] # NoCall /\ call[t].mtx \in Mutex /\ call[t].op \in LockOp
  BY CallType DEF MutexIInv, IInv, TypeOK, OnItsQueueOnly, StateFitsQueue, Running,
         LockReturns, schedVars
<1>2. call'[t] = NoCall /\ \A u \in Thread \ {t} : call'[u] = call[u]
  BY DEF LockReturns, MutexIInv, MutexTypeOK
<1>3. MutexTypeOK'
  BY <1>1 DEF MutexIInv, MutexTypeOK, IInv, LockReturns
<1>4. MutualExclusion'
  <2>1. CASE has' = has
    BY <1>1, <2>1 DEF MutexIInv, MutualExclusion
  <2>2. CASE /\ has' = [has EXCEPT ![t] = @ \cup {call[t].mtx}]
             /\ ~(call[t].op = "kmutex_lock_cancellable" /\ kt_ret[t] = "EINTR")
    <3>1. km_holder[call[t].mtx] = t
      BY <1>1, <2>2, MutexQueues DEF MutexIInv, WokenAsHolder, InsideCall, LockOp
    <3> SUFFICES ASSUME NEW u \in Thread, NEW n \in has'[u] PROVE km_holder'[n] = u
      BY DEF MutualExclusion
    <3>2. n \in has[u] \/ (u = t /\ n = call[t].mtx)
      BY <2>2 DEF MutexIInv, MutexTypeOK
    <3>. QED BY <1>1, <3>1, <3>2 DEF MutexIInv, MutualExclusion
  <2>. QED BY <2>1, <2>2 DEF LockReturns
<1>5. NoStrandedWaiter'
  <2>1. \A n \in Mutex : mutexFree(n)' => \A u \in Thread : ktq'.wchan[u] # n
    BY <1>1, EmptyQueue, MutexQueues DEF MutexIInv, NoStrandedWaiter, mutexFree
  <2>2. \A n \in Mutex, u \in Thread :
          ktq'.wchan[u] = n => call'[u].mtx = n /\ km_holder'[n] # u
    BY <1>1, <1>2, MutexQueues DEF MutexIInv, NoStrandedWaiter
  <2>. QED BY <1>1, <2>1, <2>2, Stranded
<1>6. WokenAsHolder'
  BY <1>1, <1>2 DEF MutexIInv, WokenAsHolder
<1>7. InsideCall'
  BY <1>1, <1>2 DEF MutexIInv, InsideCall
<1>. QED BY <1>3, <1>4, <1>5, <1>6, <1>7 DEF MutexIInv

(* The mutex goes to the head of its queue, or to nobody.                   *)
LEMMA UnlockStep ==
  ASSUME MutexIInv, IInv', NEW t \in Thread, NEW m \in Mutex, kmutex_unlock(t, m)
  PROVE  MutexIInv'
<1>1. /\ ktq \in KtQueues /\ QueuesOK(ktq) /\ ktq' \in KtQueues /\ QueuesOK(ktq')
      /\ ktq.wchan[t] = NoQueue /\ curthr = t /\ cpu = "run" /\ call[t] = NoCall
      /\ call' = call /\ km_holder[m] = t /\ t # NoQueue
      /\ \A u \in Thread : has'[u] = IF u = t THEN has[u] \ {m} ELSE has[u]
  BY DEF MutexIInv, IInv, TypeOK, OnItsQueueOnly, StateFitsQueue, MutualExclusion,
         kmutex_unlock, InThread, Running, MutexTypeOK
<1>2. UNCHANGED <<kt_cancelled, kt_ret, curthr, cpu>>
  BY DEF kmutex_unlock, sched_wakeup_on, schedVars
<1>3. CASE ktq.list[m] # <<>>
  <2>1. PICK h \in Thread : /\ h = Head(ktq.list[m]) /\ ktq.wchan[h] = m
                            /\ ktq'.wchan = [ktq.wchan EXCEPT ![h] = RunQ]
                            /\ kt_state' = [kt_state EXCEPT ![h] = "KT_RUN"]
    BY <1>3, WakeOneOK, MutexQueues DEF kmutex_unlock, sched_wakeup_on, MutexIInv, IInv
  <2>2. /\ \A n \in Mutex : km_holder'[n] = IF n = m THEN h ELSE km_holder[n]
        /\ km_holder' = [km_holder EXCEPT ![m] = h]
    BY <1>3, <2>1 DEF kmutex_unlock, MutexIInv, MutexTypeOK
  <2>3. /\ \A u \in Thread : ktq'.wchan[u] = IF u = h THEN RunQ ELSE ktq.wchan[u]
        /\ \A u \in Thread : kt_state'[u] = IF u = h THEN "KT_RUN" ELSE kt_state[u]
        /\ call[h].mtx = m /\ h # t /\ h # NoQueue
    <3>1. h \in Thread /\ m \in Queue /\ m # NoQueue /\ h # NoQueue
      BY MutexQueues DEF Queue
    <3>2. \A u \in Thread : ktq'.wchan[u] = IF u = h THEN RunQ ELSE ktq.wchan[u]
      BY <1>1, <2>1 DEF KtQueues
    <3>3. \A u \in Thread : kt_state'[u] = IF u = h THEN "KT_RUN" ELSE kt_state[u]
      BY <2>1 DEF MutexIInv, IInv, TypeOK
    <3>4. h # t
      BY <1>1, <2>1, <3>1
    <3>5. call[h].mtx = m
      BY <2>1 DEF MutexIInv, NoStrandedWaiter
    <3>. QED BY <3>1, <3>2, <3>3, <3>4, <3>5
  <2>4. MutexTypeOK'
    BY <1>1, <2>2 DEF MutexIInv, MutexTypeOK, IInv, kmutex_unlock
  <2>5. MutualExclusion'
    <3> SUFFICES ASSUME NEW u \in Thread, NEW n \in has'[u] PROVE km_holder'[n] = u
      BY DEF MutualExclusion
    <3>1. n \in Mutex /\ n \in has[u] /\ (u = t => n # m)
      BY <1>1, <2>4 DEF MutexTypeOK
    <3>2. km_holder[n] = u
      BY <3>1 DEF MutexIInv, MutualExclusion
    <3>. QED BY <1>1, <2>2, <3>1, <3>2
  <2>6. NoStrandedWaiter'
    <3>1. ASSUME NEW n \in Mutex, mutexFree(n)' PROVE \A u \in Thread : ktq'.wchan[u] # n
      <4>1. n # m /\ km_holder[n] = NoQueue
        BY <2>2, <2>3, <3>1 DEF mutexFree
      <4>2. ktq.list[n] = <<>> /\ n \in Queue
        BY <4>1, MutexQueues DEF MutexIInv, NoStrandedWaiter, mutexFree
      <4>3. \A u \in Thread : ktq.wchan[u] # n
        BY <1>1, <4>2, EmptyQueue
      <4>. QED BY <2>3, <4>3, MutexQueues
    <3>2. \A n \in Mutex, u \in Thread :
            ktq'.wchan[u] = n => call'[u].mtx = n /\ km_holder'[n] # u
      BY <1>1, <2>2, <2>3, MutexQueues DEF MutexIInv, NoStrandedWaiter
    <3>. QED BY <1>1, <3>1, <3>2, Stranded
  <2>7. WokenAsHolder'
    BY <1>1, <1>2, <2>2, <2>3, CallType DEF MutexIInv, WokenAsHolder
  <2>8. InsideCall'
    BY <1>1, <1>2, <2>2, <2>3, CallType, MutexQueues DEF MutexIInv, InsideCall
  <2>. QED BY <2>4, <2>5, <2>6, <2>7, <2>8 DEF MutexIInv
<1>4. CASE ktq.list[m] = <<>>
  <2>1. /\ UNCHANGED <<ktq, kt_state>>
        /\ km_holder' = [km_holder EXCEPT ![m] = NoQueue]
        /\ \A n \in Mutex : km_holder'[n] = IF n = m THEN NoQueue ELSE km_holder[n]
    BY <1>4 DEF kmutex_unlock, schedVars, MutexIInv, MutexTypeOK
  <2>2. MutexTypeOK'
    BY <1>1, <2>1 DEF MutexIInv, MutexTypeOK, IInv, kmutex_unlock
  <2>3. MutualExclusion'
    <3> SUFFICES ASSUME NEW u \in Thread, NEW n \in has'[u] PROVE km_holder'[n] = u
      BY DEF MutualExclusion
    <3>1. n \in Mutex /\ n \in has[u] /\ (u = t => n # m)
      BY <1>1, <2>2 DEF MutexTypeOK
    <3>2. km_holder[n] = u
      BY <3>1 DEF MutexIInv, MutualExclusion
    <3>. QED BY <1>1, <2>1, <3>1, <3>2
  <2>4. NoStrandedWaiter'
    BY <1>1, <1>4, <2>1 DEF MutexIInv, NoStrandedWaiter, mutexFree
  <2>5. WokenAsHolder'
    BY <1>1, <1>2, <2>1, CallType DEF MutexIInv, WokenAsHolder
  <2>6. InsideCall'
    BY <1>1, <1>2, <2>1, CallType DEF MutexIInv, InsideCall
  <2>. QED BY <2>2, <2>3, <2>4, <2>5, <2>6 DEF MutexIInv
<1>. QED BY <1>3, <1>4

(* A cancel takes a waiter off its mutex only if its call can be cancelled. *)
LEMMA CancelWaiterStep ==
  ASSUME MutexIInv, IInv', NEW v \in Thread, kthread_cancel(v), UNCHANGED mutexVars
  PROVE  MutexIInv'
<1>1. /\ ktq \in KtQueues /\ QueuesOK(ktq) /\ ktq' \in KtQueues /\ QueuesOK(ktq')
      /\ curthr # v /\ UNCHANGED <<kt_ret, curthr, cpu>>
      /\ \A u \in Thread : kt_cancelled'[u] = IF u = v THEN TRUE ELSE kt_cancelled[u]
      /\ km_holder' = km_holder /\ has' = has /\ call' = call
  BY DEF MutexIInv, IInv, TypeOK, OnItsQueueOnly, kthread_cancel, sched_cancel, mutexVars
<1>2. \/ ktq' = ktq /\ kt_state' = kt_state
      \/ /\ kt_state[v] = "KT_SLEEP_CANCELLABLE"
         /\ kt_state' = [kt_state EXCEPT ![v] = "KT_RUN"]
         /\ ktq'.wchan = [ktq.wchan EXCEPT ![v] = RunQ]
  BY CancelMoves DEF MutexIInv
<1>3. /\ \A u \in Thread :
           /\ ktq'.wchan[u] \in {ktq.wchan[u], RunQ}
           /\ kt_state'[u] \in {kt_state[u], "KT_RUN"}
           /\ u # v \/ kt_state[u] # "KT_SLEEP_CANCELLABLE" =>
                ktq'.wchan[u] = ktq.wchan[u] /\ kt_state'[u] = kt_state[u]
  BY <1>1, <1>2 DEF KtQueues, MutexIInv, IInv, TypeOK
<1>4. MutexTypeOK'
  BY <1>1 DEF MutexIInv, MutexTypeOK, IInv
<1>5. MutualExclusion'
  BY <1>1 DEF MutexIInv, MutualExclusion
<1>6. NoStrandedWaiter'
  <2>1. ASSUME NEW n \in Mutex, mutexFree(n)' PROVE \A u \in Thread : ktq'.wchan[u] # n
    <3>1. ktq.list[n] = <<>> /\ n \in Queue
      BY <1>1, <2>1, MutexQueues DEF MutexIInv, NoStrandedWaiter, mutexFree
    <3>2. \A u \in Thread : ktq.wchan[u] # n
      BY <1>1, <3>1, EmptyQueue
    <3>. QED BY <1>3, <3>2, MutexQueues
  <2>2. \A n \in Mutex, u \in Thread :
          ktq'.wchan[u] = n => call'[u].mtx = n /\ km_holder'[n] # u
    BY <1>1, <1>3, MutexQueues DEF MutexIInv, NoStrandedWaiter
  <2>. QED BY <1>1, <2>1, <2>2, Stranded
<1>7. WokenAsHolder'
  <2> SUFFICES ASSUME NEW u \in Thread, call[u] # NoCall
               PROVE  \/ ktq'.wchan[u] = call[u].mtx
                      \/ km_holder[call[u].mtx] = u
                      \/ call[u].op = "kmutex_lock_cancellable" /\ kt_cancelled'[u]
    BY <1>1 DEF WokenAsHolder
  <2>1. CASE u = v /\ kt_state[u] = "KT_SLEEP_CANCELLABLE" /\ ktq.wchan[u] = call[u].mtx
    <3>1. call[u].op # "kmutex_lock"
      BY <2>1 DEF MutexIInv, InsideCall
    <3>. QED BY <1>1, <2>1, <3>1, CallType DEF MutexIInv, LockOp
  <2>2. CASE ktq.wchan[u] # call[u].mtx
    BY <1>1, <2>2 DEF MutexIInv, WokenAsHolder
  <2>3. CASE ktq'.wchan[u] = ktq.wchan[u]
    BY <1>1, <2>3 DEF MutexIInv, WokenAsHolder
  <2>. QED BY <1>3, <2>1, <2>2, <2>3
<1>8. InsideCall'
  BY <1>1, <1>3, CallType, MutexQueues DEF MutexIInv, InsideCall
<1>. QED BY <1>4, <1>5, <1>6, <1>7, <1>8 DEF MutexIInv

(* The dispatched thread learns now whether its sleep was cancelled.        *)
LEMMA DispatchStep ==
  ASSUME MutexIInv, IInv', sched_switch, UNCHANGED mutexVars
  PROVE  MutexIInv'
<1> DEFINE h == Head(ktq.list[RunQ])
<1>1. /\ ktq \in KtQueues /\ QueuesOK(ktq) /\ ktq' \in KtQueues /\ QueuesOK(ktq')
      /\ RunQ \in Queue /\ ktq.list[RunQ] # <<>> /\ cpu = "switch"
  BY DEF MutexIInv, IInv, TypeOK, OnItsQueueOnly, Queue, sched_switch
<1>2. /\ h \in Thread /\ ktq.wchan[h] = RunQ
      /\ ktqueue_dequeue(ktq, RunQ).wchan = [ktq.wchan EXCEPT ![h] = NoQueue]
  BY <1>1, DequeueOK
<1>3. /\ \A u \in Thread : ktq'.wchan[u] = IF u = h THEN NoQueue ELSE ktq.wchan[u]
      /\ curthr' = h /\ cpu' = "run" /\ UNCHANGED <<kt_state, kt_cancelled>>
      /\ \A u \in Thread : kt_ret'[u] = IF u = h THEN Returned(h) ELSE kt_ret[u]
      /\ km_holder' = km_holder /\ has' = has /\ call' = call
  BY <1>1, <1>2 DEF sched_switch, KtQueues, MutexIInv, IInv, TypeOK, mutexVars
<1> HIDE DEF h
<1>4. MutexTypeOK'
  BY <1>3 DEF MutexIInv, MutexTypeOK, IInv
<1>5. MutualExclusion'
  BY <1>3 DEF MutexIInv, MutualExclusion
<1>6. NoStrandedWaiter'
  <2>1. ASSUME NEW n \in Mutex, mutexFree(n)' PROVE \A u \in Thread : ktq'.wchan[u] # n
    <3>1. ktq.list[n] = <<>> /\ n \in Queue
      BY <1>3, <2>1, MutexQueues DEF MutexIInv, NoStrandedWaiter, mutexFree
    <3>2. \A u \in Thread : ktq.wchan[u] # n
      BY <1>1, <3>1, EmptyQueue
    <3>. QED BY <1>3, <3>2, MutexQueues
  <2>2. \A n \in Mutex, u \in Thread :
          ktq'.wchan[u] = n => call'[u].mtx = n /\ km_holder'[n] # u
    BY <1>3, MutexQueues DEF MutexIInv, NoStrandedWaiter
  <2>. QED BY <1>1, <2>1, <2>2, Stranded
<1>7. WokenAsHolder'
  BY <1>2, <1>3, CallType, MutexQueues DEF MutexIInv, WokenAsHolder
<1>8. InsideCall'
  <2>1. \A u \in Thread : call[u] # NoCall => kt_state'[u] # "KT_EXITED"
    BY <1>3 DEF MutexIInv, InsideCall
  <2>2. \A u \in Thread :
          /\ call[u] # NoCall /\ call[u].op = "kmutex_lock" /\ ktq'.wchan[u] = call[u].mtx
          => kt_state'[u] = "KT_SLEEP"
    BY <1>3, CallType, MutexQueues DEF MutexIInv, InsideCall
  <2>3. ASSUME NEW u \in Thread, call[u] # NoCall, call[u].op = "kmutex_lock_cancellable"
        PROVE  IF curthr' = u /\ cpu' = "run"
               THEN kt_ret'[u] = "EINTR" \/ km_holder[call[u].mtx] = u
               ELSE kt_ret'[u] = "blocked"
    <3>1. kt_ret[u] = "blocked" /\ call[u].mtx \in Mutex
      BY <1>1, <2>3, CallType DEF MutexIInv, InsideCall
    <3>2. CASE u = h
      <4>1. kt_cancelled[u] \/ km_holder[call[u].mtx] = u
        BY <1>2, <2>3, <3>1, <3>2, MutexQueues DEF MutexIInv, WokenAsHolder
      <4>2. kt_cancelled[u] => kt_ret'[u] = "EINTR"
        BY <1>3, <3>1, <3>2 DEF Returned
      <4>. QED BY <1>3, <3>2, <4>1, <4>2
    <3>3. CASE u # h
      BY <1>3, <3>1, <3>3
    <3>. QED BY <3>2, <3>3
  <2>. QED BY <1>3, <2>1, <2>2, <2>3 DEF InsideCall
<1>. QED BY <1>4, <1>5, <1>6, <1>7, <1>8 DEF MutexIInv
-----------------------------------------------------------------------------
(* kmutex_init leaves every mutex free and every thread outside its calls.  *)
LEMMA InitMutexIInv == MutexInit => MutexIInv
<1> SUFFICES ASSUME MutexInit PROVE MutexIInv
  OBVIOUS
<1>1. IInv
  BY InitIInv DEF MutexInit
<1>2. MutexTypeOK
  BY <1>1 DEF MutexInit, kmutex_init, MutexTypeOK, IInv
<1>3. MutualExclusion /\ WokenAsHolder /\ InsideCall
  BY DEF MutexInit, kmutex_init, MutualExclusion, WokenAsHolder, InsideCall
<1>4. NoStrandedWaiter
  BY MutexQueues DEF MutexInit, Init, sched_queue_init, kmutex_init, NoStrandedWaiter
<1>. QED BY <1>1, <1>2, <1>3, <1>4 DEF MutexIInv

(* The invariant is inductive.                                              *)
LEMMA NextMutexIInv == MutexIInv /\ [MutexNext]_kmutexVars => MutexIInv'
<1> SUFFICES ASSUME MutexIInv, [MutexNext]_kmutexVars PROVE MutexIInv'
  OBVIOUS
<1>0. IInv' /\ IInv /\ TypeOK /\ OnItsQueueOnly
  BY MutexStep, NextIInv DEF MutexIInv, IInv
<1>1. /\ ktq \in KtQueues /\ QueuesOK(ktq) /\ NoQueue \notin Mutex
      /\ \A t \in Thread : ktq.wchan = [ktq.wchan EXCEPT ![t] = ktq.wchan[t]]
      /\ cpu = "run" => ktq.wchan[curthr] = NoQueue
  BY <1>0, MutexQueues DEF IInv, TypeOK, OnItsQueueOnly, KtQueues, StateFitsQueue
<1>2. ASSUME NEW t \in Thread, NEW m \in Mutex, kmutex_lock(t, m) PROVE MutexIInv'
  <2>1. CASE Take(t, m)
    BY <1>0, <1>2, <2>1, TakeStep DEF kmutex_lock
  <2>2. CASE ~mutexFree(m) /\ sched_sleep_on(t, m) /\ Block(t, m, "kmutex_lock")
    <3>1. ktq'.wchan = [ktq.wchan EXCEPT ![t] = m]
      BY <1>0, <2>2, SleepOK, MutexQueues DEF sched_sleep_on, IInv
    <3>2. kt_state'[t] = "KT_SLEEP" /\ \A u \in Thread \ {t} : kt_state'[u] = kt_state[u]
      BY <1>0, <2>2 DEF sched_sleep_on, TypeOK
    <3>. QED
      BY <1>0, <1>2, <2>2, <3>1, <3>2, BlockStep
         DEF sched_sleep_on, Running, kmutex_lock, LockOp
  <2>. QED BY <1>2, <2>1, <2>2 DEF kmutex_lock
<1>3. ASSUME NEW t \in Thread, NEW m \in Mutex, kmutex_lock_cancellable(t, m)
      PROVE  MutexIInv'
  <2>1. CASE Take(t, m)
    BY <1>0, <1>3, <2>1, TakeStep DEF kmutex_lock_cancellable
  <2>2. CASE /\ ~mutexFree(m) /\ ~kt_cancelled[t] /\ CancellableSleep(t, m)
             /\ Block(t, m, "kmutex_lock_cancellable")
    <3>1. ktq'.wchan = [ktq.wchan EXCEPT ![t] = m]
      BY <1>0, <2>2, SleepOK, MutexQueues DEF CancellableSleep, IInv
    <3>2. /\ kt_state'[t] = "KT_SLEEP_CANCELLABLE" /\ kt_ret'[t] = "blocked"
          /\ \A u \in Thread \ {t} : kt_state'[u] = kt_state[u] /\ kt_ret'[u] = kt_ret[u]
      BY <1>0, <2>2 DEF CancellableSleep, TypeOK
    <3>. QED
      BY <1>0, <1>3, <2>2, <3>1, <3>2, BlockStep
         DEF CancellableSleep, Running, kmutex_lock_cancellable, LockOp
  <2>3. CASE /\ UNCHANGED mutexVars /\ kt_cancelled[t] /\ Running(t) /\ InThread(t)
             /\ kt_ret' = [kt_ret EXCEPT ![t] = "EINTR"]
             /\ UNCHANGED <<kt_state, kt_cancelled, ktq, curthr, cpu, bcast>>
    <3>1. \A u \in Thread : call[u] # NoCall => kt_ret'[u] = kt_ret[u]
      BY <1>0, <2>3 DEF InThread, TypeOK
    <3>2. ktq.wchan[t] = NoQueue /\ ktq'.wchan = [ktq.wchan EXCEPT ![t] = NoQueue]
      BY <1>1, <2>3 DEF Running
    <3>. QED BY <1>0, <1>1, <2>3, <3>1, <3>2, QuietStep DEF InThread
  <2>. QED
    BY <1>3, <2>1, <2>2, <2>3 DEF kmutex_lock_cancellable, sched_cancellable_sleep_on, InThread
<1>4. ASSUME NEW t \in Thread, NEW m \in Mutex, kmutex_unlock(t, m) PROVE MutexIInv'
  BY <1>0, <1>4, UnlockStep
<1>5. ASSUME NEW t \in Thread, LockReturns(t) PROVE MutexIInv'
  BY <1>0, <1>5, ReturnStep
<1>6. ASSUME NEW t \in Thread, Create(t) PROVE MutexIInv'
  <2>1. ktq.wchan[t] = NoQueue
    <3>1. kt_state[t] = "KT_NO_STATE"
      BY <1>6 DEF Create, sched_make_runnable
    <3>2. ktq.wchan[t] \in WaitQueue \cup {RunQ, NoQueue}
      BY <1>0 DEF IInv, TypeOK, KtQueues, Queue
    <3>. QED BY <1>0, <3>1, <3>2 DEF IInv, StateFitsQueue, Sleeping
  <2>2. /\ ktq'.wchan = [ktq.wchan EXCEPT ![t] = RunQ]
        /\ kt_state' = [kt_state EXCEPT ![t] = "KT_RUN"]
    BY <1>0, <1>1, <1>6, <2>1, MakeRunnableOK DEF Create, sched_make_runnable
  <2>3. kt_state'[t] = "KT_RUN" /\ \A u \in Thread \ {t} : kt_state'[u] = kt_state[u]
    BY <1>0, <2>2 DEF TypeOK
  <2>. QED
    BY <1>0, <1>1, <1>6, <2>1, <2>2, <2>3, MutexQueues, QuietStep DEF Create, sched_make_runnable
<1>7. ASSUME NEW t \in Thread, InThread(t), UNCHANGED mutexVars, Yield(t) PROVE MutexIInv'
  <2>1. ktq.wchan[t] = NoQueue /\ call[t] = NoCall /\ curthr = t
    BY <1>1, <1>7 DEF InThread, Running
  <2>2. /\ ktq'.wchan = [ktq.wchan EXCEPT ![t] = RunQ]
        /\ kt_state' = [kt_state EXCEPT ![t] = "KT_RUN"]
    BY <1>0, <1>1, <1>7, <2>1, MakeRunnableOK DEF Yield
  <2>3. \A u \in Thread \ {t} : kt_state'[u] = kt_state[u]
    BY <1>0, <2>2 DEF TypeOK
  <2>. QED BY <1>0, <1>1, <1>7, <2>1, <2>2, <2>3, MutexQueues, QuietStep DEF Yield
<1>8. ASSUME NEW t \in Thread, InThread(t), UNCHANGED mutexVars,
             NEW q \in DevQueue, sched_sleep_on(t, q)
      PROVE  MutexIInv'
  <2>1. ktq.wchan[t] = NoQueue /\ call[t] = NoCall /\ curthr = t /\ q \notin Mutex
    BY <1>1, <1>8, MutexQueues DEF InThread, Running
  <2>2. ktq'.wchan = [ktq.wchan EXCEPT ![t] = q]
    BY <1>0, <1>8, SleepOK DEF sched_sleep_on, IInv
  <2>3. \A u \in Thread \ {t} : kt_state'[u] = kt_state[u]
    BY <1>0, <1>8 DEF sched_sleep_on, TypeOK
  <2>. QED BY <1>0, <1>1, <1>8, <2>1, <2>2, <2>3, QuietStep DEF sched_sleep_on
<1>9. ASSUME NEW t \in Thread, Exit(t) PROVE MutexIInv'
  <2>1. /\ ktq.wchan[t] = NoQueue /\ ktq'.wchan = [ktq.wchan EXCEPT ![t] = NoQueue]
        /\ curthr = t /\ UNCHANGED mutexVars
    BY <1>1, <1>9 DEF Exit, InThread, Running, kthread_exit, proc_thread_exited
  <2>2. call[t] = NoCall
    BY <1>9 DEF Exit, InThread, proc_thread_exited, MutexIInv, InsideCall
  <2>3. \A u \in Thread \ {t} : kt_state'[u] = kt_state[u]
    BY <1>0, <1>9 DEF Exit, kthread_exit, proc_thread_exited, TypeOK
  <2>. QED
    BY <1>0, <1>1, <1>9, <2>1, <2>2, <2>3, QuietStep DEF Exit, kthread_exit, proc_thread_exited
<1>10. ASSUME NEW t \in Thread, NEW v \in Thread, Cancel(t, v) PROVE MutexIInv'
  BY <1>0, <1>10, CancelWaiterStep DEF Cancel
<1>11. ASSUME UNCHANGED mutexVars, NEW q \in DevQueue, Interrupt(q) PROVE MutexIInv'
  <2>1. PICK h \in Thread : /\ ktq.wchan[h] = q
                            /\ ktq'.wchan = [ktq.wchan EXCEPT ![h] = RunQ]
                            /\ kt_state' = [kt_state EXCEPT ![h] = "KT_RUN"]
    BY <1>0, <1>11, WakeOneOK DEF Interrupt
  <2>2. kt_state'[h] = "KT_RUN" /\ \A u \in Thread \ {h} : kt_state'[u] = kt_state[u]
    BY <1>0, <2>1 DEF TypeOK
  <2>. QED BY <1>0, <1>11, <2>1, <2>2, MutexQueues, QuietStep DEF Interrupt
<1>12. ASSUME UNCHANGED mutexVars, sched_switch PROVE MutexIInv'
  BY <1>0, <1>12, DispatchStep
<1>14. ASSUME UNCHANGED mutexVars, NoneRunnable \/ intr_wait PROVE MutexIInv'
  <2>1. /\ UNCHANGED <<kt_state, kt_cancelled, kt_ret, ktq, curthr>>
        /\ cpu # "run" /\ cpu' # "run"
    BY <1>14 DEF NoneRunnable, intr_wait
  <2>2. MutexTypeOK' /\ MutualExclusion'
    BY <1>0, <1>14 DEF mutexVars, MutexIInv, MutexTypeOK, IInv, MutualExclusion
  <2>3. NoStrandedWaiter' /\ WokenAsHolder'
    BY <1>14, <2>1 DEF mutexVars, MutexIInv, NoStrandedWaiter, WokenAsHolder, mutexFree
  <2>4. InsideCall'
    BY <1>14, <2>1 DEF mutexVars, MutexIInv, InsideCall
  <2>. QED BY <1>0, <2>2, <2>3, <2>4 DEF MutexIInv
<1>13. ASSUME UNCHANGED kmutexVars PROVE MutexIInv'
  BY <1>0, <1>13 DEF kmutexVars, schedVars, mutexVars, MutexIInv, MutexTypeOK, IInv,
     MutualExclusion, NoStrandedWaiter, WokenAsHolder, InsideCall, mutexFree
<1>. QED
  BY <1>2, <1>3, <1>4, <1>5, <1>6, <1>7, <1>8, <1>9, <1>10, <1>11, <1>12, <1>13,
     <1>14 DEF MutexNext, GiveUpCpu, Kernel

(* Every reachable state satisfies the inductive invariant.                 *)
THEOREM MutexInvariant == MutexSpec => []MutexIInv
BY InitMutexIInv, NextMutexIInv, PTL DEF MutexSpec

(* The variables of the mutexes and of the scheduler have their types.      *)
THEOREM MutexTypes == MutexSpec => []MutexTypeOK
<1>1. MutexIInv => MutexTypeOK
  BY DEF MutexIInv
<1>. QED BY MutexInvariant, <1>1, PTL

(* No two threads have one mutex: what a thread was told it has, it holds.  *)
THEOREM MutexExclusion == MutexSpec => []MutualExclusion
<1>1. MutexIInv => MutualExclusion
  BY DEF MutexIInv
<1>. QED BY MutexInvariant, <1>1, PTL

(* Nobody waits for a free mutex: kmutex_unlock hands it to a waiter.       *)
THEOREM MutexNoStrandedWaiter == MutexSpec => []NoStrandedWaiter
<1>1. MutexIInv => NoStrandedWaiter
  BY DEF MutexIInv
<1>. QED BY MutexInvariant, <1>1, PTL

(* A thread leaves a lock call's sleep as the holder or as cancelled, so    *)
(* that kmutex_lock need not look at km_holder again.                       *)
THEOREM MutexWokenAsHolder == MutexSpec => []WokenAsHolder
<1>1. MutexIInv => WokenAsHolder
  BY DEF MutexIInv
<1>. QED BY MutexInvariant, <1>1, PTL

(* The mutex state keeps its types and excludes: no two threads ever have   *)
(* one mutex (kmutex.c 48 to 124).                                          *)
THEOREM MutexIsSafe == MutexSpec => []MutexSafety
<1>1. MutexIInv => MutexSafety
  BY DEF MutexIInv, MutexSafety
<1>. QED BY MutexInvariant, <1>1, PTL

(* Both sides of a hand-over: a free mutex has no waiter, and who leaves    *)
(* the queue does so as the holder or as cancelled (kmutex.c 107 to 124).   *)
THEOREM MutexHandOver == MutexSpec => []HandOver
<1>1. MutexIInv => HandOver
  BY DEF MutexIInv, HandOver
<1>. QED BY MutexInvariant, <1>1, PTL
=============================================================================
