-------------------------- MODULE ThreadPoolProofs --------------------------
(***************************************************************************)
(* Proofs about ThreadPool for every number of tasks, users and threads,   *)
(* every limit and every garbage value of run_threads.                     *)
(***************************************************************************)
EXTENDS ThreadPoolProps, FiniteSetTheorems, TLAPS

-----------------------------------------------------------------------------
(* The queue.                                                              *)

\* queue_add (thread_pool.c:43-50) adds exactly its task and keeps a queue
\* without duplicates when the task was not in it.
LEMMA InSeqAdd ==
    ASSUME NEW q \in Seq(Tasks), NEW t \in Tasks
    PROVE  /\ queue_add(q, t) \in Seq(Tasks)
           /\ queue_add(q, t) # <<>>
           /\ Len(queue_add(q, t)) = Len(q) + 1
           /\ \A x : InSeq(queue_add(q, t), x) <=> InSeq(q, x) \/ x = t
           /\ Distinct(q) /\ ~InSeq(q, t) => Distinct(queue_add(q, t))
  BY DEF queue_add, InSeq, Distinct

\* queue_pop (thread_pool.c:52-66) removes exactly the task it returns.
LEMMA InSeqPop ==
    ASSUME NEW q \in Seq(Tasks), q # <<>>, Distinct(q)
    PROVE  /\ queue_pop(q).task \in Tasks
           /\ queue_pop(q).rest \in Seq(Tasks)
           /\ Len(queue_pop(q).rest) = Len(q) - 1
           /\ InSeq(q, queue_pop(q).task)
           /\ \A x : InSeq(queue_pop(q).rest, x) <=> InSeq(q, x) /\ x # queue_pop(q).task
           /\ Distinct(queue_pop(q).rest)
  BY DEF queue_pop, InSeq, Distinct

\* Nothing is in the empty queue.
LEMMA InSeqEmpty == Distinct(<<>>) /\ \A x : ~InSeq(<<>>, x)
  BY DEF InSeq, Distinct

\* pthread_cond_signal on pool->cond (line 184) wakes one waiting worker, if
\* there is one, and changes nothing else.
LEMMA SignalOneWakes ==
    ASSUME NEW pc \in [Workers -> WorkerPCs], NEW new \in SignalOne(pc)
    PROVE  /\ new \in [Workers -> WorkerPCs]
           /\ \A w \in Workers : new[w] = pc[w] \/ (pc[w] = "wait" /\ new[w] = "lock")
           /\ (\E w \in Workers : pc[w] = "wait") =>
                 \E w \in Workers : pc[w] = "wait" /\ new[w] = "lock"
  BY DEF SignalOne, WorkerPCs

\* A call that is refused changes nothing but the return code.
LEMMA RefusedCall ==
    ASSUME IInv, NEW u \in Users, NEW code \in Codes, upc[u] = "idle", Return(u, code),
           UNCHANGED <<poolVars, taskVars, workerVars, got>>
    PROVE  IInv'
  <1>1. upc' = upc /\ utask' = utask /\ ret' \in [Users -> Codes]
    BY DEF Return, IInv, TypeOK, LocalsInv
  <1>2. /\ UNCHANGED <<pool, max_threads, run_threads, cnt_threads, shutdown, queue, run0>>
        /\ UNCHANGED <<allocated, pushed, finished, joined, delete, result, gen, runs>>
        /\ UNCHANGED <<wpc, wtask, wres, got>>
    BY DEF poolVars, taskVars, workerVars
  <1>3. TypeOK' /\ LocalsInv' /\ TaskInOnePlace' /\ QueuedInv' /\ HeldInv'
    BY <1>1, <1>2 DEF IInv, TypeOK, LocalsInv, TaskInOnePlace, QueuedInv, HeldInv,
         Queued, Holds
  <1>4. FlagsInv' /\ PushedInv' /\ CallInv' /\ DetachInv' /\ RunsInv'
    BY <1>1, <1>2 DEF IInv, FlagsInv, PushedInv, CallInv, DetachInv, RunsInv, NotRunYet,
         Queued, Holds
  <1>5. ResultInv' /\ ThreadsInv' /\ DeletionInv'
    BY <1>1, <1>2 DEF IInv, ResultInv, ThreadsInv, DeletionInv, FinishedHasResult,
         thread_task_is_finished
  <1> QED BY <1>3, <1>4, <1>5 DEF IInv

\* A task no call is in progress on is the task of no user.
LEMMA NobodyInCall ==
    ASSUME IInv, NEW t \in Tasks, ~\E v \in Users : InCall(v, t)
    PROVE  \A v \in Users : utask[v] # t
  BY NoneAssumption DEF IInv, LocalsInv, InCall

\* What a push does to the threads (lines 181-184): one thread may be new, one
\* may be woken, and none is left asleep with nobody woken.
LEMMA EnqueueWakes ==
    ASSUME IInv, NEW u \in Users, NEW t \in Tasks, thread_pool_push_task(u, t), Enqueue(u, t)
    PROVE  /\ wpc' \in [Workers -> WorkerPCs]
           /\ cnt_threads' \in 0..max_threads
           /\ ~shutdown
           /\ \A w \in Workers : \/ wpc'[w] = wpc[w]
                                 \/ wpc[w] \in {"wait", "none"} /\ wpc'[w] = "lock"
           /\ \A w \in Workers : wpc'[w] = "none" <=> w > cnt_threads'
           /\ \/ \E w \in Workers : wpc'[w] = "lock"
              \/ ~NeedsThread /\ \A w \in Workers : wpc[w] # "wait" /\ wpc'[w] = wpc[w]
  <1>1. ~shutdown /\ cnt_threads \in Nat /\ max_threads \in Nat
    BY DEF thread_pool_push_task, PoolBeingDeleted, IInv, DeletionInv, TypeOK
  <1>2. CASE NeedsThread
    <2> DEFINE pc == [wpc EXCEPT ![cnt_threads + 1] = "lock"]
    <2>1. cnt_threads + 1 \in Workers /\ cnt_threads' = cnt_threads + 1 /\ wpc' \in SignalOne(pc)
      BY <1>1, <1>2, LimitsAssumption DEF Enqueue, NeedsThread, Workers, IInv, TypeOK
    <2>2. /\ pc \in [Workers -> WorkerPCs] /\ pc[cnt_threads + 1] = "lock"
          /\ wpc[cnt_threads + 1] = "none"
          /\ \A w \in Workers \ {cnt_threads + 1} : pc[w] = wpc[w]
      BY <1>1, <2>1 DEF IInv, TypeOK, WorkerPCs, ThreadsInv, Workers
    <2> HIDE DEF pc
    <2>3. /\ wpc' \in [Workers -> WorkerPCs]
          /\ \A w \in Workers : wpc'[w] = pc[w] \/ (pc[w] = "wait" /\ wpc'[w] = "lock")
      BY <2>1, <2>2, SignalOneWakes
    <2>4. \A w \in Workers : wpc'[w] = "none" <=> w > cnt_threads + 1
      BY <1>1, <2>2, <2>3 DEF IInv, ThreadsInv, Workers
    <2>5. cnt_threads + 1 \in 0..max_threads
      BY <1>1, <1>2 DEF NeedsThread
    <2> QED BY <1>1, <2>1, <2>2, <2>3, <2>4, <2>5
  <1>3. CASE ~NeedsThread
    <2>1. cnt_threads' = cnt_threads /\ wpc' \in SignalOne(wpc)
      BY <1>3 DEF Enqueue
    <2>2. /\ wpc' \in [Workers -> WorkerPCs]
          /\ \A w \in Workers : wpc'[w] = wpc[w] \/ (wpc[w] = "wait" /\ wpc'[w] = "lock")
          /\ (\E w \in Workers : wpc[w] = "wait") => \E w \in Workers : wpc'[w] = "lock"
      BY ZenonT(40), <2>1, SignalOneWakes DEF IInv, TypeOK
    <2> QED BY <1>1, <1>3, <2>1, <2>2 DEF IInv, TypeOK, ThreadsInv
  <1> QED BY <1>2, <1>3


-----------------------------------------------------------------------------
(* One lemma per action: it preserves the inductive invariant.           *)

\* Lines 75-88.
LEMMA Fetch_Inv ==
    ASSUME IInv, NEW w \in Workers, Fetch(w)
    PROVE  IInv'
  <1>1. CASE shutdown
    <2>1. /\ shutdown
          /\ wpc[w] = "lock"
          /\ wpc' = [wpc EXCEPT ![w] = "exited"]
          /\ UNCHANGED <<pool, max_threads, run_threads, cnt_threads, shutdown, queue, run0,
                       allocated, pushed, finished, joined, delete, result, gen, runs,
                       wtask, wres, upc, utask, ret, got>>
      BY <1>1 DEF Fetch, poolVars, taskVars, workerVars, userVars
    <2>2. TypeOK'
      BY <2>1 DEF IInv, TypeOK, LocalsInv, Holding, WorkerPCs, UserPCs, Codes
    <2>3. LocalsInv'
      BY <2>1 DEF IInv, TypeOK, LocalsInv, Holding
    <2>4. TaskInOnePlace'
      BY <2>1 DEF IInv, TypeOK, LocalsInv, TaskInOnePlace, Holding, Holds, Queued
    <2>5. HeldInv'
      BY <2>1 DEF IInv, TypeOK, LocalsInv, HeldInv, Holding
    <2>6. PushedInv'
      BY <2>1 DEF IInv, TypeOK, LocalsInv, PushedInv, Queued, Holds, Holding
    <2>7. RunsInv'
      <3>1. \A x \in Tasks : NotRunYet(x)' <=> NotRunYet(x)
        BY <2>1 DEF IInv, TypeOK, LocalsInv, Holding, NotRunYet, Queued
      <3> QED BY <2>1, <3>1 DEF IInv, TypeOK, RunsInv
    <2>8. ResultInv'
      BY <2>1 DEF IInv, TypeOK, LocalsInv, ResultInv, Holding, FinishedHasResult,
           thread_task_is_finished
    <2>9. ThreadsInv'
      BY <2>1 DEF IInv, TypeOK, ThreadsInv
    <2>10. QueuedInv' /\ FlagsInv' /\ CallInv' /\ DetachInv' /\ DeletionInv'
      BY <2>1 DEF IInv, QueuedInv, FlagsInv, CallInv, DetachInv, DeletionInv, Queued
    <2> QED BY <2>2, <2>3, <2>4, <2>5, <2>6, <2>7, <2>8, <2>9, <2>10 DEF IInv
  <1>2. CASE ~shutdown /\ queue = <<>>
    <2>1. /\ wpc[w] = "lock"
          /\ wpc' = [wpc EXCEPT ![w] = "wait"]
          /\ UNCHANGED <<pool, max_threads, run_threads, cnt_threads, shutdown, queue, run0,
                       allocated, pushed, finished, joined, delete, result, gen, runs,
                       wtask, wres, upc, utask, ret, got>>
      BY <1>2 DEF Fetch, poolVars, taskVars, workerVars, userVars
    <2>2. TypeOK'
      BY <2>1 DEF IInv, TypeOK, LocalsInv, Holding, WorkerPCs, UserPCs, Codes
    <2>3. LocalsInv'
      BY <2>1 DEF IInv, TypeOK, LocalsInv, Holding
    <2>4. TaskInOnePlace'
      BY <2>1 DEF IInv, TypeOK, LocalsInv, TaskInOnePlace, Holding, Holds, Queued
    <2>5. HeldInv'
      BY <2>1 DEF IInv, TypeOK, LocalsInv, HeldInv, Holding
    <2>6. PushedInv'
      BY <2>1 DEF IInv, TypeOK, LocalsInv, PushedInv, Queued, Holds, Holding
    <2>7. RunsInv'
      <3>1. \A x \in Tasks : NotRunYet(x)' <=> NotRunYet(x)
        BY <2>1 DEF IInv, TypeOK, LocalsInv, Holding, NotRunYet, Queued
      <3> QED BY <2>1, <3>1 DEF IInv, TypeOK, RunsInv
    <2>8. ResultInv'
      BY <2>1 DEF IInv, TypeOK, LocalsInv, ResultInv, Holding, FinishedHasResult,
           thread_task_is_finished
    <2>9. ThreadsInv'
      BY <2>1 DEF IInv, TypeOK, ThreadsInv
    <2>10. QueuedInv' /\ FlagsInv' /\ CallInv' /\ DetachInv' /\ DeletionInv'
      BY <2>1 DEF IInv, QueuedInv, FlagsInv, CallInv, DetachInv, DeletionInv, Queued
    <2> QED BY <2>2, <2>3, <2>4, <2>5, <2>6, <2>7, <2>8, <2>9, <2>10 DEF IInv
  <1>3. CASE ~shutdown /\ queue # <<>>
    <2>1. queue \in Seq(Tasks) /\ Distinct(queue)
      BY DEF IInv, TypeOK, TaskInOnePlace
    <2>2. PICK t \in Tasks, q \in Seq(Tasks) :
            /\ t = queue_pop(queue).task /\ q = queue_pop(queue).rest
            /\ InSeq(queue, t) /\ Distinct(q) /\ Len(q) = Len(queue) - 1
            /\ \A x : InSeq(q, x) <=> InSeq(queue, x) /\ x # t
      BY <1>3, <2>1, InSeqPop
    <2>3. /\ wpc[w] = "lock" /\ wpc' = [wpc EXCEPT ![w] = "load"]
          /\ wtask' = [wtask EXCEPT ![w] = t] /\ queue' = q
          /\ run_threads' = run_threads + 1
          /\ UNCHANGED <<pool, max_threads, cnt_threads, shutdown, run0, allocated, pushed,
                       finished, joined, delete, result, gen, runs, wres, upc, utask,
                       ret, got>>
      BY <1>3, <2>2 DEF Fetch, taskVars, userVars
    <2>4. TypeOK'
      <3>1. queue' \in Seq(Tasks) /\ Len(queue') <= TPOOL_MAX_TASKS
        BY <2>2, <2>3, LimitsAssumption DEF IInv, TypeOK
      <3>2. wtask' \in [Workers -> Tasks \cup {None}] /\ wpc' \in [Workers -> WorkerPCs]
        BY <2>3 DEF IInv, TypeOK, WorkerPCs
      <3> QED BY <2>3, <3>1, <3>2 DEF IInv, TypeOK
    <2>5. LocalsInv'
      BY <2>2, <2>3, NoneAssumption DEF IInv, TypeOK, LocalsInv, Holding
    <2>6. TaskInOnePlace'
      <3>1. \A x \in Workers : wpc[x] \in Holding => wtask[x] # t
        BY <2>2 DEF IInv, TypeOK, LocalsInv, TaskInOnePlace, Holds, Queued
      <3>2. \A x \in Workers \ {w} : wpc'[x] = wpc[x] /\ wtask'[x] = wtask[x]
        BY <2>3 DEF IInv, TypeOK
      <3>3. wtask'[w] = t /\ wpc[w] \notin Holding
        BY <2>3 DEF IInv, TypeOK, Holding
      <3> QED BY SMTT(40), <2>2, <2>3, <3>1, <3>2, <3>3 DEF IInv, TypeOK, TaskInOnePlace, Holds, Queued
    <2>7. QueuedInv'
      BY <2>2, <2>3 DEF IInv, TypeOK, QueuedInv, Queued
    <2>8. HeldInv'
      BY <2>2, <2>3 DEF IInv, TypeOK, LocalsInv, HeldInv, Holding, QueuedInv, Queued
    <2>9. PushedInv'
      BY <2>2, <2>3 DEF IInv, TypeOK, LocalsInv, PushedInv, Queued, Holds, Holding
    <2>10. RunsInv'
      <3>1. \A x \in Tasks : NotRunYet(x)' <=> NotRunYet(x)
        BY <2>2, <2>3 DEF IInv, TypeOK, LocalsInv, Holding, NotRunYet, Queued,
           TaskInOnePlace
      <3> QED BY <2>2, <2>3, <3>1 DEF IInv, TypeOK, RunsInv
    <2>11. ResultInv'
      BY <2>2, <2>3 DEF IInv, TypeOK, LocalsInv, ResultInv, Holding,
           FinishedHasResult, thread_task_is_finished
    <2>12. ThreadsInv'
      BY <2>2, <2>3 DEF IInv, TypeOK, ThreadsInv
    <2>13. DeletionInv'
      BY <2>2, <2>3, <1>3 DEF IInv, TypeOK, DeletionInv
    <2>14. FlagsInv' /\ CallInv' /\ DetachInv'
      BY <2>2, <2>3 DEF IInv, FlagsInv, CallInv, DetachInv
    <2> QED BY <2>4, <2>5, <2>6, <2>7, <2>8, <2>9, <2>10, <2>11, <2>12, <2>13, <2>14 DEF IInv
  <1> QED BY <1>1, <1>2, <1>3 DEF Fetch

\* Line 77.
LEMMA SpuriousWake_Inv ==
    ASSUME IInv, NEW w \in Workers, SpuriousWake(w)
    PROVE  IInv'
  <1>1. /\ wpc[w] = "wait"
        /\ wpc' = [wpc EXCEPT ![w] = "lock"]
        /\ UNCHANGED <<pool, max_threads, run_threads, cnt_threads, shutdown, queue, run0,
                     allocated, pushed, finished, joined, delete, result, gen, runs,
                     wtask, wres, upc, utask, ret, got>>
    BY DEF SpuriousWake, poolVars, taskVars, workerVars, userVars
  <1>2. TypeOK'
    BY <1>1 DEF IInv, TypeOK, LocalsInv, Holding, WorkerPCs, UserPCs, Codes
  <1>3. LocalsInv'
    BY <1>1 DEF IInv, TypeOK, LocalsInv, Holding
  <1>4. TaskInOnePlace'
    BY <1>1 DEF IInv, TypeOK, LocalsInv, TaskInOnePlace, Holding, Holds, Queued
  <1>5. HeldInv'
    BY <1>1 DEF IInv, TypeOK, LocalsInv, HeldInv, Holding
  <1>6. PushedInv'
    BY <1>1 DEF IInv, TypeOK, LocalsInv, PushedInv, Queued, Holds, Holding
  <1>7. RunsInv'
    <2>1. \A x \in Tasks : NotRunYet(x)' <=> NotRunYet(x)
      BY <1>1 DEF IInv, TypeOK, LocalsInv, Holding, NotRunYet, Queued
    <2> QED BY <1>1, <2>1 DEF IInv, TypeOK, RunsInv
  <1>8. ResultInv'
    BY <1>1 DEF IInv, TypeOK, LocalsInv, ResultInv, Holding, FinishedHasResult,
         thread_task_is_finished
  <1>9. ThreadsInv'
    BY <1>1 DEF IInv, TypeOK, ThreadsInv
  <1>10. QueuedInv' /\ FlagsInv' /\ CallInv' /\ DetachInv' /\ DeletionInv'
    BY <1>1 DEF IInv, QueuedInv, FlagsInv, CallInv, DetachInv, DeletionInv, Queued
  <1> QED BY <1>2, <1>3, <1>4, <1>5, <1>6, <1>7, <1>8, <1>9, <1>10 DEF IInv

\* Lines 91-94.
LEMMA Load_Inv ==
    ASSUME IInv, NEW w \in Workers, Load(w)
    PROVE  IInv'
  <1>1. /\ wpc[w] = "load"
        /\ wpc' = [wpc EXCEPT ![w] = "run"]
        /\ wres' = [wres EXCEPT ![w] = gen[wtask[w]]]
        /\ UNCHANGED <<pool, max_threads, run_threads, cnt_threads, shutdown, queue, run0,
                     allocated, pushed, finished, joined, delete, result, gen, runs,
                     wtask, upc, utask, ret, got>>
    BY DEF Load, poolVars, taskVars, workerVars, userVars
  <1>2. TypeOK'
    BY <1>1 DEF IInv, TypeOK, LocalsInv, Holding, WorkerPCs, UserPCs, Codes
  <1>3. LocalsInv'
    BY <1>1 DEF IInv, TypeOK, LocalsInv, Holding
  <1>4. TaskInOnePlace'
    BY <1>1 DEF IInv, TypeOK, LocalsInv, TaskInOnePlace, Holding, Holds, Queued
  <1>5. HeldInv'
    BY <1>1 DEF IInv, TypeOK, LocalsInv, HeldInv, Holding
  <1>6. PushedInv'
    BY <1>1 DEF IInv, TypeOK, LocalsInv, PushedInv, Queued, Holds, Holding
  <1>7. RunsInv'
    <2>1. \A x \in Tasks : NotRunYet(x)' <=> NotRunYet(x)
      BY <1>1 DEF IInv, TypeOK, LocalsInv, Holding, NotRunYet, Queued
    <2> QED BY <1>1, <2>1 DEF IInv, TypeOK, RunsInv
  <1>8. ResultInv'
    BY <1>1 DEF IInv, TypeOK, LocalsInv, ResultInv, Holding, FinishedHasResult,
         thread_task_is_finished
  <1>9. ThreadsInv'
    BY <1>1 DEF IInv, TypeOK, ThreadsInv
  <1>10. QueuedInv' /\ FlagsInv' /\ CallInv' /\ DetachInv' /\ DeletionInv'
    BY <1>1 DEF IInv, QueuedInv, FlagsInv, CallInv, DetachInv, DeletionInv, Queued
  <1> QED BY <1>2, <1>3, <1>4, <1>5, <1>6, <1>7, <1>8, <1>9, <1>10 DEF IInv

\* Line 96.
LEMMA Run_Inv ==
    ASSUME IInv, NEW w \in Workers, Run(w)
    PROVE  IInv'
  <1>1. /\ wpc[w] = "run"
        /\ wpc' = [wpc EXCEPT ![w] = "dec"]
        /\ runs' = [runs EXCEPT ![wtask[w]] = @ + 1]
        /\ UNCHANGED <<pool, max_threads, run_threads, cnt_threads, shutdown, queue, run0,
                     allocated, pushed, finished, joined, delete, result, gen, wtask,
                     wres, upc, utask, ret, got>>
    BY DEF Run, poolVars, taskVars, workerVars, userVars
  <1>2. TypeOK'
    BY <1>1 DEF IInv, TypeOK, LocalsInv, Holding, WorkerPCs, UserPCs, Codes
  <1>3. LocalsInv'
    BY <1>1 DEF IInv, TypeOK, LocalsInv, Holding
  <1>4. TaskInOnePlace'
    BY <1>1 DEF IInv, TypeOK, LocalsInv, TaskInOnePlace, Holding, Holds, Queued
  <1>5. HeldInv'
    BY <1>1 DEF IInv, TypeOK, LocalsInv, HeldInv, Holding
  <1>6. PushedInv'
    BY <1>1 DEF IInv, TypeOK, LocalsInv, PushedInv, Queued, Holds, Holding
  <1>7. RunsInv'
    <2>1. \A x \in Tasks : NotRunYet(x)' <=> NotRunYet(x) /\ x # wtask[w]
      BY <1>1 DEF IInv, TypeOK, LocalsInv, Holding, NotRunYet, Queued, TaskInOnePlace, Holds
    <2>2. wtask[w] \in Tasks /\ NotRunYet(wtask[w])
      BY <1>1 DEF IInv, TypeOK, LocalsInv, Holding, NotRunYet
    <2> QED BY <1>1, <2>1, <2>2 DEF IInv, TypeOK, RunsInv
  <1>8. ResultInv'
    BY <1>1 DEF IInv, TypeOK, LocalsInv, ResultInv, Holding, FinishedHasResult,
         thread_task_is_finished
  <1>9. ThreadsInv'
    BY <1>1 DEF IInv, TypeOK, ThreadsInv
  <1>10. QueuedInv' /\ FlagsInv' /\ CallInv' /\ DetachInv' /\ DeletionInv'
    BY <1>1 DEF IInv, QueuedInv, FlagsInv, CallInv, DetachInv, DeletionInv, Queued
  <1> QED BY <1>2, <1>3, <1>4, <1>5, <1>6, <1>7, <1>8, <1>9, <1>10 DEF IInv

\* Lines 98-100.
LEMMA Decrement_Inv ==
    ASSUME IInv, NEW w \in Workers, Decrement(w)
    PROVE  IInv'
  <1>1. /\ wpc[w] = "dec"
        /\ wpc' = [wpc EXCEPT ![w] = "publish"]
        /\ run_threads' = run_threads - 1
        /\ UNCHANGED <<pool, max_threads, cnt_threads, shutdown, queue, run0, allocated, pushed,
                     finished, joined, delete, result, gen, runs, wtask, wres, upc,
                     utask, ret, got>>
    BY DEF Decrement, poolVars, taskVars, workerVars, userVars
  <1>2. TypeOK'
    BY <1>1 DEF IInv, TypeOK, LocalsInv, Holding, WorkerPCs, UserPCs, Codes
  <1>3. LocalsInv'
    BY <1>1 DEF IInv, TypeOK, LocalsInv, Holding
  <1>4. TaskInOnePlace'
    BY <1>1 DEF IInv, TypeOK, LocalsInv, TaskInOnePlace, Holding, Holds, Queued
  <1>5. HeldInv'
    BY <1>1 DEF IInv, TypeOK, LocalsInv, HeldInv, Holding
  <1>6. PushedInv'
    BY <1>1 DEF IInv, TypeOK, LocalsInv, PushedInv, Queued, Holds, Holding
  <1>7. RunsInv'
    <2>1. \A x \in Tasks : NotRunYet(x)' <=> NotRunYet(x)
      BY <1>1 DEF IInv, TypeOK, LocalsInv, Holding, NotRunYet, Queued
    <2> QED BY <1>1, <2>1 DEF IInv, TypeOK, RunsInv
  <1>8. ResultInv'
    BY <1>1 DEF IInv, TypeOK, LocalsInv, ResultInv, Holding, FinishedHasResult,
         thread_task_is_finished
  <1>9. ThreadsInv'
    BY <1>1 DEF IInv, TypeOK, ThreadsInv
  <1>10. QueuedInv' /\ FlagsInv' /\ CallInv' /\ DetachInv' /\ DeletionInv'
    BY <1>1 DEF IInv, QueuedInv, FlagsInv, CallInv, DetachInv, DeletionInv, Queued
  <1> QED BY <1>2, <1>3, <1>4, <1>5, <1>6, <1>7, <1>8, <1>9, <1>10 DEF IInv

\* Lines 102-104.
LEMMA Publish_Inv ==
    ASSUME IInv, NEW w \in Workers, Publish(w)
    PROVE  IInv'
  <1>1. /\ wpc[w] = "publish"
        /\ wpc' = [wpc EXCEPT ![w] = "signal"]
        /\ result' = [result EXCEPT ![wtask[w]] = wres[w]]
        /\ finished' = finished \cup {wtask[w]}
        /\ UNCHANGED <<pool, max_threads, run_threads, cnt_threads, shutdown, queue, run0,
                     allocated, pushed, joined, delete, gen, runs, wtask, wres, upc,
                     utask, ret, got>>
    BY DEF Publish, poolVars, taskVars, workerVars, userVars
  <1>2. TypeOK'
    BY <1>1 DEF IInv, TypeOK, LocalsInv, Holding, WorkerPCs, UserPCs, Codes
  <1>3. LocalsInv'
    BY <1>1 DEF IInv, TypeOK, LocalsInv, Holding
  <1>4. TaskInOnePlace'
    BY <1>1 DEF IInv, TypeOK, LocalsInv, TaskInOnePlace, Holding, Holds, Queued
  <1>5. QueuedInv'
    BY <1>1 DEF IInv, TypeOK, QueuedInv, Queued, LocalsInv, Holding, TaskInOnePlace,
         Holds
  <1>6. HeldInv'
    BY <1>1 DEF IInv, TypeOK, LocalsInv, HeldInv, Holding, TaskInOnePlace, Holds
  <1>7. FlagsInv'
    BY <1>1 DEF IInv, TypeOK, FlagsInv, HeldInv, LocalsInv, Holding
  <1>8. PushedInv'
    BY <1>1 DEF IInv, TypeOK, LocalsInv, PushedInv, Queued, Holds, Holding
  <1>9. RunsInv'
    <2>1. \A x \in Tasks : NotRunYet(x)' <=> NotRunYet(x)
      BY <1>1 DEF IInv, TypeOK, LocalsInv, Holding, NotRunYet, Queued
    <2> QED BY <1>1, <2>1 DEF IInv, TypeOK, RunsInv
  <1>10. ResultInv'
    BY <1>1 DEF IInv, TypeOK, LocalsInv, ResultInv, Holding, FinishedHasResult,
         thread_task_is_finished, TaskInOnePlace, Holds, HeldInv
  <1>11. ThreadsInv'
    BY <1>1 DEF IInv, TypeOK, ThreadsInv
  <1>12. CallInv' /\ DetachInv' /\ DeletionInv'
    BY <1>1 DEF IInv, CallInv, DetachInv, DeletionInv
  <1> QED BY <1>2, <1>3, <1>4, <1>5, <1>6, <1>7, <1>8, <1>9, <1>10, <1>11, <1>12 DEF IInv

\* Lines 105-106.
LEMMA Signal_Inv ==
    ASSUME IInv, NEW w \in Workers, Signal(w)
    PROVE  IInv'
  <1>1. /\ wpc[w] = "signal" /\ wpc' = [wpc EXCEPT ![w] = "lock"]
        /\ wtask' = [wtask EXCEPT ![w] = None] /\ wres' = [wres EXCEPT ![w] = 0]
        /\ UNCHANGED <<pool, max_threads, run_threads, cnt_threads, shutdown, queue, run0,
                     allocated, pushed, finished, joined, delete, result, gen, runs,
                     utask, ret, got>>
    BY DEF Signal, poolVars, taskVars
  <1>2. /\ upc' \in [Users -> UserPCs]
        /\ \A u \in Users : \/ upc'[u] = upc[u]
                            \/ upc[u] = "join_wait" /\ upc'[u] = "join_lock"
                            \/ upc[u] = "tjoin_wait" /\ upc'[u] = "tjoin_lock"
    <2>1. CASE upc' = upc
      BY <2>1 DEF IInv, TypeOK
    <2>2. CASE \E u \in TaskWaiters(wtask[w]) : upc' = [upc EXCEPT ![u] = Woken(u)]
      BY <2>2 DEF IInv, TypeOK, TaskWaiters, Woken, UserPCs
    <2> QED BY <2>1, <2>2 DEF Signal
  <1>3. TypeOK'
    BY <1>1, <1>2, LimitsAssumption DEF IInv, TypeOK, LocalsInv, Holding, WorkerPCs,
         UserPCs, Codes
  <1>4. LocalsInv'
    BY <1>1, <1>2 DEF IInv, TypeOK, LocalsInv, Holding
  <1>5. TaskInOnePlace'
    BY <1>1, <1>2, NoneAssumption DEF IInv, TypeOK, LocalsInv, TaskInOnePlace,
         Holding, Holds, Queued
  <1>6. HeldInv'
    BY <1>1, <1>2 DEF IInv, TypeOK, LocalsInv, HeldInv, Holding
  <1>7. PushedInv'
    BY <1>1, <1>2, NoneAssumption DEF IInv, TypeOK, LocalsInv, PushedInv, Queued,
         Holds, Holding, HeldInv
  <1>8. CallInv'
    BY <1>1, <1>2 DEF IInv, TypeOK, LocalsInv, CallInv
  <1>9. DetachInv'
    BY <1>1, <1>2 DEF IInv, TypeOK, LocalsInv, CallInv, DetachInv
  <1>10. RunsInv'
    <2>1. \A x \in Tasks : NotRunYet(x)' <=> NotRunYet(x)
      BY <1>1, <1>2, NoneAssumption DEF IInv, TypeOK, LocalsInv, Holding, NotRunYet,
         Queued
    <2> QED BY <1>1, <1>2, <2>1 DEF IInv, TypeOK, RunsInv
  <1>11. ResultInv'
    BY <1>1, <1>2 DEF IInv, TypeOK, LocalsInv, ResultInv, Holding, FinishedHasResult,
         thread_task_is_finished
  <1>12. ThreadsInv'
    BY <1>1, <1>2 DEF IInv, TypeOK, ThreadsInv
  <1>13. DeletionInv'
    BY <1>1, <1>2 DEF IInv, TypeOK, DeletionInv
  <1>14. QueuedInv' /\ FlagsInv'
    BY <1>1, <1>2 DEF IInv, QueuedInv, FlagsInv, Queued
  <1> QED BY <1>3, <1>4, <1>5, <1>6, <1>7, <1>8, <1>9, <1>10, <1>11, <1>12, <1>13,
         <1>14 DEF IInv

\* Lines 112-134.
LEMMA thread_pool_new_Inv ==
    ASSUME IInv, NEW u \in Users, NEW n \in Int, thread_pool_new(u, n)
    PROVE  IInv'
  <1>1. CASE Return(u, "INVALID_ARGUMENT") /\ UNCHANGED poolVars
    BY <1>1, RefusedCall DEF thread_pool_new, Codes
  <1>2. CASE Return(u, "-1") /\ UNCHANGED poolVars
    BY <1>2, RefusedCall DEF thread_pool_new, Codes
  <1>3. CASE /\ Return(u, "0")
             /\ pool' = "live"
             /\ max_threads' = n
             /\ n \in Workers
             /\ cnt_threads' = 0
             /\ shutdown' = FALSE
             /\ queue' = <<>>
             /\ run_threads' \in GarbageInts
             /\ run0' = run_threads'
    <2>1. /\ pool = "none" /\ queue = <<>> /\ queue' = queue
          /\ pool' = "live" /\ shutdown' = FALSE /\ cnt_threads' = 0
          /\ max_threads' \in 1..TPOOL_MAX_THREADS
          /\ run_threads' \in Int /\ run0' \in Int
          /\ ret' \in [Users -> Codes]
          /\ UNCHANGED <<allocated, pushed, finished, joined, delete, result, gen, runs, wpc,
                       wtask, wres, upc, utask, got>>
      BY <1>3, GarbageAssumption DEF thread_pool_new, Return, Codes, Workers, IInv,
           TypeOK, LocalsInv, DeletionInv, poolVars, taskVars, workerVars, userVars
    <2>2. TypeOK'
      <3>1. max_threads' \in 0..TPOOL_MAX_THREADS /\ cnt_threads' \in 0..max_threads'
        BY <2>1, LimitsAssumption
      <3> QED BY <2>1, <3>1 DEF IInv, TypeOK
    <2>3. TaskInOnePlace'
      BY <2>1 DEF IInv, TypeOK, LocalsInv, TaskInOnePlace, Holding, Holds, Queued
    <2>4. QueuedInv'
      BY <2>1 DEF IInv, TypeOK, QueuedInv, Queued
    <2>5. PushedInv'
      BY <2>1 DEF IInv, TypeOK, LocalsInv, PushedInv, Queued, Holds, Holding
    <2>6. RunsInv'
      <3>1. \A x \in Tasks : NotRunYet(x)' <=> NotRunYet(x)
        BY <2>1 DEF IInv, TypeOK, LocalsInv, Holding, NotRunYet, Queued
      <3> QED BY <2>1, <3>1 DEF IInv, TypeOK, RunsInv
    <2>7. ThreadsInv'
      BY <2>1, LimitsAssumption DEF IInv, TypeOK, ThreadsInv, Workers
    <2>8. DeletionInv'
      BY <2>1 DEF IInv, TypeOK, DeletionInv
    <2>9. /\ LocalsInv' /\ HeldInv' /\ FlagsInv' /\ CallInv' /\ DetachInv'
          /\ ResultInv'
      BY <2>1 DEF IInv, LocalsInv, HeldInv, FlagsInv, CallInv, DetachInv, ResultInv,
           Holding, FinishedHasResult, thread_task_is_finished
    <2> QED BY <2>2, <2>3, <2>4, <2>5, <2>6, <2>7, <2>8, <2>9 DEF IInv
  <1> QED BY <1>1, <1>2, <1>3 DEF thread_pool_new

\* Lines 145-152.
LEMMA thread_pool_delete_Inv ==
    ASSUME IInv, NEW u \in Users, thread_pool_delete(u)
    PROVE  IInv'
  <1>1. CASE Return(u, "HAS_TASKS") /\ UNCHANGED <<shutdown, wpc>>
    BY <1>1, RefusedCall DEF thread_pool_delete, poolVars, workerVars, Codes
  <1>2. CASE /\ ~HasTasks
             /\ shutdown' = TRUE
             /\ wpc' = [w \in Workers |-> IF wpc[w] = "wait" THEN "lock" ELSE wpc[w]]
             /\ upc' = [upc EXCEPT ![u] = "pool_join"]
             /\ UNCHANGED <<utask, ret>>
    <2>1. /\ pool = "live" /\ queue = <<>> /\ upc[u] = "idle"
          /\ \A v \in Users : upc[v] # "pool_join"
          /\ shutdown' = TRUE
          /\ \A w \in Workers : wpc'[w] = IF wpc[w] = "wait" THEN "lock" ELSE wpc[w]
          /\ wpc' \in [Workers -> WorkerPCs]
          /\ upc' = [upc EXCEPT ![u] = "pool_join"]
          /\ UNCHANGED <<pool, max_threads, run_threads, cnt_threads, queue, run0, allocated,
                       pushed, finished, joined, delete, result, gen, runs, wtask,
                       wres, utask, ret, got>>
      BY <1>2 DEF thread_pool_delete, HasTasks, PoolBeingDeleted, IInv, TypeOK,
           WorkerPCs, poolVars, taskVars, workerVars, userVars
    <2>2. TypeOK'
      BY <2>1 DEF IInv, TypeOK, LocalsInv, Holding, WorkerPCs, UserPCs, Codes
    <2>3. LocalsInv'
      BY <2>1 DEF IInv, TypeOK, LocalsInv, Holding
    <2>4. TaskInOnePlace'
      BY <2>1 DEF IInv, TypeOK, LocalsInv, TaskInOnePlace, Holding, Holds, Queued
    <2>5. HeldInv'
      BY <2>1 DEF IInv, TypeOK, LocalsInv, HeldInv, Holding
    <2>6. PushedInv'
      BY <2>1 DEF IInv, TypeOK, LocalsInv, PushedInv, Queued, Holds, Holding
    <2>7. CallInv'
      BY <2>1 DEF IInv, TypeOK, LocalsInv, CallInv
    <2>8. DetachInv'
      BY <2>1 DEF IInv, TypeOK, LocalsInv, CallInv, DetachInv
    <2>9. RunsInv'
      <3>1. \A x \in Tasks : NotRunYet(x)' <=> NotRunYet(x)
        BY <2>1 DEF IInv, TypeOK, LocalsInv, Holding, NotRunYet, Queued
      <3> QED BY <2>1, <3>1 DEF IInv, TypeOK, RunsInv
    <2>10. ResultInv'
      BY <2>1 DEF IInv, TypeOK, LocalsInv, ResultInv, Holding, FinishedHasResult,
           thread_task_is_finished
    <2>11. ThreadsInv'
      BY <2>1 DEF IInv, TypeOK, ThreadsInv
    <2>12. DeletionInv'
      BY <2>1 DEF IInv, TypeOK, DeletionInv
    <2>13. QueuedInv' /\ FlagsInv'
      BY <2>1 DEF IInv, QueuedInv, FlagsInv, Queued
    <2> QED BY <2>2, <2>3, <2>4, <2>5, <2>6, <2>7, <2>8, <2>9, <2>10, <2>11, <2>12,
           <2>13 DEF IInv
  <1> QED BY <1>1, <1>2 DEF thread_pool_delete

\* Lines 154-162.
LEMMA PoolFree_Inv ==
    ASSUME IInv, NEW u \in Users, PoolFree(u)
    PROVE  IInv'
  <1>1. /\ upc[u] = "pool_join" /\ pool' = "none" /\ shutdown' = FALSE
        /\ max_threads' = 0 /\ run_threads' = 0 /\ cnt_threads' = 0 /\ run0' = 0
        /\ \A w \in Workers : wpc[w] \in {"none", "exited"}
        /\ wpc' = [w \in Workers |-> "none"]
        /\ ret' \in [Users -> Codes]
        /\ upc' = [upc EXCEPT ![u] = "idle"]
        /\ utask' = [utask EXCEPT ![u] = None]
        /\ UNCHANGED <<queue, allocated, pushed, finished, joined, delete, result, gen, runs,
                     wtask, wres, got>>
    BY DEF PoolFree, Return, ThreadsInv, IInv, TypeOK, Codes, Workers, poolVars,
         taskVars, workerVars, userVars
  <1>2. TypeOK'
    <2>1. max_threads' \in 0..TPOOL_MAX_THREADS /\ cnt_threads' \in 0..max_threads'
      BY <1>1, LimitsAssumption
    <2>2. /\ upc' \in [Users -> UserPCs] /\ utask' \in [Users -> Tasks \cup {None}]
          /\ wpc' \in [Workers -> WorkerPCs]
      BY <1>1 DEF IInv, TypeOK, UserPCs, WorkerPCs
    <2>3. /\ run_threads' \in Int /\ run0' \in Int /\ ret' \in [Users -> Codes]
          /\ pool' \in {"none", "live"} /\ shutdown' \in BOOLEAN
      <3>1. run_threads' \in Int /\ run0' \in Int
        BY <1>1
      <3>2. pool' \in {"none", "live"} /\ shutdown' \in BOOLEAN
        BY Zenon DEF PoolFree
      <3> QED BY <1>1, <3>1, <3>2
    <2>4. UNCHANGED <<queue, taskVars, wtask, wres, got>>
      BY DEF PoolFree
    <2> QED BY <2>1, <2>2, <2>3, <2>4 DEF IInv, TypeOK, taskVars
  <1>3. LocalsInv'
    BY <1>1 DEF IInv, TypeOK, LocalsInv, Holding
  <1>4. TaskInOnePlace'
    BY <1>1 DEF IInv, TypeOK, LocalsInv, TaskInOnePlace, Holding, Holds, Queued
  <1>5. HeldInv'
    BY <1>1 DEF IInv, TypeOK, LocalsInv, HeldInv, Holding
  <1>6. PushedInv'
    BY <1>1 DEF IInv, TypeOK, LocalsInv, PushedInv, Queued, Holds, Holding
  <1>7. CallInv'
    BY <1>1 DEF IInv, TypeOK, LocalsInv, CallInv
  <1>8. DetachInv'
    BY <1>1 DEF IInv, TypeOK, LocalsInv, CallInv, DetachInv
  <1>9. RunsInv'
    <2>1. \A x \in Tasks : NotRunYet(x)' <=> NotRunYet(x)
      BY <1>1 DEF IInv, TypeOK, LocalsInv, Holding, NotRunYet, Queued
    <2> QED BY <1>1, <2>1 DEF IInv, TypeOK, RunsInv
  <1>10. ResultInv'
    BY <1>1 DEF IInv, TypeOK, LocalsInv, ResultInv, Holding, FinishedHasResult,
         thread_task_is_finished
  <1>11. ThreadsInv'
    BY <1>1, LimitsAssumption DEF IInv, TypeOK, ThreadsInv, Workers
  <1>12. DeletionInv'
    BY <1>1 DEF IInv, TypeOK, DeletionInv
  <1>13. QueuedInv' /\ FlagsInv'
    BY <1>1 DEF IInv, QueuedInv, FlagsInv, Queued
  <1> QED BY <1>2, <1>3, <1>4, <1>5, <1>6, <1>7, <1>8, <1>9, <1>10, <1>11, <1>12,
         <1>13 DEF IInv

\* Lines 166-187.
LEMMA thread_pool_push_task_Inv ==
    ASSUME IInv, NEW u \in Users, NEW t \in Tasks, thread_pool_push_task(u, t)
    PROVE  IInv'
  <1>1. CASE QueueFull(u)
    BY <1>1, RefusedCall DEF thread_pool_push_task, QueueFull, poolVars, taskVars, workerVars, Codes
  <1>2. CASE Enqueue(u, t)
    <2>1. t \in allocated /\ t \notin delete /\ (t \notin pushed \/ t \in joined)
      BY DEF thread_pool_push_task
    <2>2. /\ t \in allocated /\ t \notin delete
          /\ ~Queued(t) /\ (\A w \in Workers : wtask[w] # t)
          /\ (\A v \in Users : utask[v] # t)
      <3>1. ~Queued(t)
        BY <2>1 DEF IInv, QueuedInv
      <3>2. \A w \in Workers : wtask[w] # t
        BY <2>1, NoneAssumption DEF IInv, HeldInv, LocalsInv
      <3>3. \A v \in Users : utask[v] # t
        BY NobodyInCall DEF thread_pool_push_task
      <3> QED BY <2>1, <3>1, <3>2, <3>3
    <2>3. /\ queue' \in Seq(Tasks) /\ Len(queue') = Len(queue) + 1 /\ Distinct(queue')
          /\ Len(queue) # TPOOL_MAX_TASKS
          /\ \A x : InSeq(queue', x) <=> InSeq(queue, x) \/ x = t
      BY <1>2, <2>2, InSeqAdd DEF Enqueue, IInv, TypeOK, TaskInOnePlace, Queued
    <2>4. /\ wpc' \in [Workers -> WorkerPCs]
          /\ cnt_threads' \in 0..max_threads
          /\ ~shutdown
          /\ \A w \in Workers : \/ wpc'[w] = wpc[w]
                                \/ wpc[w] \in {"wait", "none"} /\ wpc'[w] = "lock"
          /\ \A w \in Workers : wpc'[w] = "none" <=> w > cnt_threads'
      BY <1>2, EnqueueWakes
    <2>5. /\ pushed' = pushed \cup {t} /\ joined' = joined \ {t} /\ finished' = finished \ {t}
          /\ delete' = delete \ {t}
          /\ gen' = [gen EXCEPT ![t] = @ + 1] /\ gen[t] < MaxPush
          /\ ret' \in [Users -> Codes]
          /\ UNCHANGED <<pool, max_threads, run_threads, shutdown, run0, allocated, result, runs,
                       wtask, wres, upc, utask, got>>
      BY <1>2 DEF Enqueue, thread_pool_push_task, Cleared, Return, IInv, TypeOK, LocalsInv, Codes
    <2>7. TypeOK'
      <3>1. Len(queue') <= TPOOL_MAX_TASKS
        BY <2>3, LimitsAssumption DEF IInv, TypeOK
      <3>2. gen' \in [Tasks -> 0..MaxPush]
        BY <2>5, LimitsAssumption DEF IInv, TypeOK
      <3> QED BY <2>3, <2>4, <2>5, <3>1, <3>2 DEF IInv, TypeOK
    <2>8. LocalsInv'
      BY <2>2, <2>3, <2>4, <2>5 DEF IInv, TypeOK, LocalsInv, Holding
    <2>9. TaskInOnePlace'
      BY SMTT(40), <2>2, <2>3, <2>4, <2>5 DEF IInv, TypeOK, LocalsInv, TaskInOnePlace, Holding,
           Holds, Queued
    <2>10. QueuedInv'
      BY <2>2, <2>3, <2>4, <2>5 DEF IInv, TypeOK, QueuedInv, Queued
    <2>11. HeldInv'
      BY <2>2, <2>3, <2>4, <2>5 DEF IInv, TypeOK, LocalsInv, HeldInv, Holding
    <2>12. FlagsInv'
      BY <2>2, <2>3, <2>4, <2>5 DEF IInv, TypeOK, FlagsInv
    <2>13. PushedInv'
      <3>1. Queued(t)' /\ \A x \in Tasks \ {t} : Queued(x)' <=> Queued(x)
        BY <2>3 DEF Queued
      <3>2. \A w \in Workers, x \in Tasks : Holds(w, x) => Holds(w, x)'
        BY <2>4, <2>5 DEF Holds, Holding
      <3> QED BY <2>5, <3>1, <3>2 DEF IInv, TypeOK, PushedInv
    <2>14. CallInv'
      BY <2>2, <2>3, <2>4, <2>5 DEF IInv, TypeOK, LocalsInv, CallInv
    <2>15. DetachInv'
      BY <2>2, <2>3, <2>4, <2>5 DEF IInv, TypeOK, LocalsInv, CallInv, DetachInv
    <2>16. RunsInv'
      <3>1. \A x \in Tasks \ {t} : NotRunYet(x)' <=> NotRunYet(x)
        BY <2>3, <2>4, <2>5 DEF NotRunYet, Queued
      <3>2. NotRunYet(t)' /\ ~NotRunYet(t)
        BY <2>2, <2>3 DEF NotRunYet, Queued
      <3> QED BY <2>5, <3>1, <3>2 DEF IInv, TypeOK, RunsInv
    <2>17. ResultInv'
      <3>1. \A w \in Workers : wpc'[w] \in Holding => wpc[w] = wpc'[w] /\ wtask[w] \in Tasks \ {t}
        BY <2>2, <2>4, <2>5 DEF IInv, TypeOK, LocalsInv, Holding
      <3>2. \A w \in Workers : wpc'[w] \in Holding \ {"load"} => wres'[w] = gen'[wtask'[w]]
        BY <2>5, <3>1 DEF IInv, TypeOK, ResultInv
      <3>3. FinishedHasResult'
        BY <2>5 DEF IInv, TypeOK, ResultInv, FinishedHasResult, thread_task_is_finished
      <3> QED BY <3>2, <3>3 DEF ResultInv
    <2>18. ThreadsInv'
      <3>1. pool = "live"
        BY DEF thread_pool_push_task
      <3> QED BY <2>4, <2>5, <3>1 DEF IInv, ThreadsInv
    <2>19. DeletionInv'
      <3>1. pool = "live"
        BY DEF thread_pool_push_task
      <3> QED BY <2>4, <2>5, <3>1 DEF IInv, DeletionInv
    <2> QED BY <2>7, <2>8, <2>9, <2>10, <2>11, <2>12, <2>13, <2>14, <2>15, <2>16,
           <2>17, <2>18, <2>19 DEF IInv
  <1> QED BY <1>1, <1>2 DEF thread_pool_push_task

\* Lines 189-205.
LEMMA thread_task_new_Inv ==
    ASSUME IInv, NEW u \in Users, NEW t \in Tasks, thread_task_new(u, t)
    PROVE  IInv'
  <1>1. /\ t \notin allocated
        /\ allocated' = allocated \cup {t}
        /\ pushed' = pushed \ {t}
        /\ finished' = finished \ {t}
        /\ joined' = joined \ {t}
        /\ delete' = delete \ {t}
        /\ ret' \in [Users -> Codes]
        /\ UNCHANGED <<pool, max_threads, run_threads, cnt_threads, shutdown, queue, run0,
                     result, gen, runs, wpc, wtask, wres, upc, utask, got>>
    BY DEF thread_task_new, Return, Codes, IInv, TypeOK, LocalsInv, poolVars,
         taskVars, workerVars, userVars
  <1>2. TypeOK'
    BY <1>1 DEF IInv, TypeOK, LocalsInv, Holding, WorkerPCs, UserPCs, Codes
  <1>3. QueuedInv'
    BY <1>1 DEF IInv, TypeOK, QueuedInv, Queued
  <1>4. HeldInv'
    BY <1>1 DEF IInv, TypeOK, LocalsInv, HeldInv, Holding
  <1>5. FlagsInv'
    BY <1>1 DEF IInv, TypeOK, FlagsInv
  <1>6. PushedInv'
    BY <1>1 DEF IInv, TypeOK, LocalsInv, PushedInv, Queued, Holds, Holding
  <1>7. CallInv'
    BY <1>1 DEF IInv, TypeOK, LocalsInv, CallInv
  <1>8. DetachInv'
    BY <1>1 DEF IInv, TypeOK, LocalsInv, CallInv, DetachInv
  <1>9. ResultInv'
    BY <1>1 DEF IInv, TypeOK, LocalsInv, ResultInv, Holding, FinishedHasResult,
         thread_task_is_finished
  <1>10. LocalsInv' /\ TaskInOnePlace' /\ RunsInv' /\ ThreadsInv' /\ DeletionInv'
    BY <1>1 DEF IInv, LocalsInv, TaskInOnePlace, RunsInv, ThreadsInv, DeletionInv,
         Holds, Queued, NotRunYet
  <1> QED BY <1>2, <1>3, <1>4, <1>5, <1>6, <1>7, <1>8, <1>9, <1>10 DEF IInv

\* Line 222.
LEMMA thread_task_join_Inv ==
    ASSUME IInv, NEW u \in Users, NEW t \in Tasks, thread_task_join(u, t)
    PROVE  IInv'
  <1>1. CASE Return(u, "TASK_NOT_PUSHED")
    BY <1>1, RefusedCall DEF thread_task_join, MayUse, Codes
  <1>2. CASE /\ t \in pushed
             /\ upc' = [upc EXCEPT ![u] = "join_lock"]
             /\ utask' = [utask EXCEPT ![u] = t]
             /\ ret' = ret
    <2>1. /\ upc[u] = "idle" /\ t \in (allocated \cap pushed) \ delete
          /\ upc' = [upc EXCEPT ![u] = "join_lock"]
          /\ utask' = [utask EXCEPT ![u] = t]
          /\ UNCHANGED <<pool, max_threads, run_threads, cnt_threads, shutdown, queue, run0,
                       allocated, pushed, finished, joined, delete, result, gen, runs,
                       wpc, wtask, wres, ret, got>>
      BY <1>2 DEF thread_task_join, MayUse, poolVars, taskVars, workerVars, userVars
    <2>2. TypeOK'
      BY <2>1 DEF IInv, TypeOK, LocalsInv, Holding, WorkerPCs, UserPCs, Codes
    <2>3. LocalsInv'
      BY <2>1, NoneAssumption DEF IInv, TypeOK, LocalsInv, Holding
    <2>4. CallInv'
      BY <2>1, NoneAssumption DEF IInv, TypeOK, LocalsInv, CallInv
    <2>5. DetachInv'
      BY <2>1, NoneAssumption DEF IInv, TypeOK, LocalsInv, CallInv, DetachInv
    <2>6. DeletionInv'
      BY <2>1 DEF IInv, TypeOK, DeletionInv
    <2>7. /\ TaskInOnePlace' /\ QueuedInv' /\ HeldInv' /\ FlagsInv' /\ PushedInv'
          /\ RunsInv' /\ ResultInv' /\ ThreadsInv'
      BY <2>1 DEF IInv, TaskInOnePlace, QueuedInv, HeldInv, FlagsInv, PushedInv,
           RunsInv, ResultInv, ThreadsInv, Holds, Queued, Holding, NotRunYet,
           FinishedHasResult, thread_task_is_finished
    <2> QED BY <2>2, <2>3, <2>4, <2>5, <2>6, <2>7 DEF IInv
  <1> QED BY <1>1, <1>2 DEF thread_task_join

\* Lines 223-228.
LEMMA JoinLocked_Inv ==
    ASSUME IInv, NEW u \in Users, JoinLocked(u)
    PROVE  IInv'
  <1>1. CASE /\ utask[u] \notin finished
             /\ upc' = [upc EXCEPT ![u] = "join_wait"]
             /\ joined' = joined
    <2>1. /\ upc[u] = "join_lock"
          /\ upc' = [upc EXCEPT ![u] = "join_wait"]
          /\ UNCHANGED <<pool, max_threads, run_threads, cnt_threads, shutdown, queue, run0,
                       allocated, pushed, finished, joined, delete, result, gen, runs,
                       wpc, wtask, wres, utask, ret, got>>
      BY <1>1 DEF JoinLocked, poolVars, taskVars, workerVars, userVars
    <2>2. TypeOK'
      BY <2>1 DEF IInv, TypeOK, LocalsInv, Holding, WorkerPCs, UserPCs, Codes
    <2>3. LocalsInv'
      BY <2>1 DEF IInv, TypeOK, LocalsInv, Holding
    <2>4. CallInv'
      BY <2>1 DEF IInv, TypeOK, LocalsInv, CallInv
    <2>5. DetachInv'
      BY <2>1 DEF IInv, TypeOK, LocalsInv, CallInv, DetachInv
    <2>6. DeletionInv'
      BY <2>1 DEF IInv, TypeOK, DeletionInv
    <2>7. /\ TaskInOnePlace' /\ QueuedInv' /\ HeldInv' /\ FlagsInv' /\ PushedInv'
          /\ RunsInv' /\ ResultInv' /\ ThreadsInv'
      BY <2>1 DEF IInv, TaskInOnePlace, QueuedInv, HeldInv, FlagsInv, PushedInv,
           RunsInv, ResultInv, ThreadsInv, Holds, Queued, Holding, NotRunYet,
           FinishedHasResult, thread_task_is_finished
    <2> QED BY <2>2, <2>3, <2>4, <2>5, <2>6, <2>7 DEF IInv
  <1>2. CASE /\ utask[u] \in finished
             /\ upc' = [upc EXCEPT ![u] = "join_result"]
             /\ joined' = joined \cup {utask[u]}
    <2>1. /\ upc[u] = "join_lock" /\ utask[u] \in finished
          /\ \A w \in Workers : ~(wpc[w] = "signal" /\ wtask[w] = utask[u])
          /\ upc' = [upc EXCEPT ![u] = "join_result"]
          /\ joined' = joined \cup {utask[u]}
          /\ UNCHANGED <<pool, max_threads, run_threads, cnt_threads, shutdown, queue, run0,
                       allocated, pushed, finished, delete, result, gen, runs, wpc,
                       wtask, wres, utask, ret, got>>
      BY <1>2 DEF JoinLocked, TaskMutexHeld, poolVars, taskVars, workerVars, userVars
    <2>2. TypeOK'
      BY <2>1 DEF IInv, TypeOK, LocalsInv, Holding, WorkerPCs, UserPCs, Codes
    <2>3. LocalsInv'
      BY <2>1 DEF IInv, TypeOK, LocalsInv, Holding
    <2>4. QueuedInv'
      BY <2>1 DEF IInv, TypeOK, QueuedInv, Queued
    <2>5. HeldInv'
      BY <2>1 DEF IInv, TypeOK, LocalsInv, HeldInv, Holding
    <2>6. FlagsInv'
      BY <2>1 DEF IInv, TypeOK, FlagsInv
    <2>7. CallInv'
      BY <2>1 DEF IInv, TypeOK, LocalsInv, CallInv
    <2>8. DetachInv'
      BY <2>1 DEF IInv, TypeOK, LocalsInv, CallInv, DetachInv
    <2>9. DeletionInv'
      BY <2>1 DEF IInv, TypeOK, DeletionInv
    <2>10. TaskInOnePlace' /\ PushedInv' /\ RunsInv' /\ ResultInv' /\ ThreadsInv'
      BY <2>1 DEF IInv, TaskInOnePlace, PushedInv, RunsInv, ResultInv, ThreadsInv,
           Holds, Queued, NotRunYet, Holding, FinishedHasResult,
           thread_task_is_finished
    <2> QED BY <2>2, <2>3, <2>4, <2>5, <2>6, <2>7, <2>8, <2>9, <2>10 DEF IInv
  <1> QED BY <1>1, <1>2 DEF JoinLocked

\* Lines 229-230.
LEMMA JoinResult_Inv ==
    ASSUME IInv, NEW u \in Users, JoinResult(u)
    PROVE  IInv'
  <1>1. /\ upc[u] = "join_result"
        /\ ret' \in [Users -> Codes] /\ got' \in [Users -> 0..MaxPush]
        /\ upc' = [upc EXCEPT ![u] = "idle"]
        /\ utask' = [utask EXCEPT ![u] = None]
        /\ UNCHANGED <<pool, max_threads, run_threads, cnt_threads, shutdown, queue, run0,
                     allocated, pushed, finished, joined, delete, result, gen, runs,
                     wpc, wtask, wres>>
    BY DEF JoinResult, Return, Codes, IInv, TypeOK, LocalsInv, poolVars, taskVars,
         workerVars, userVars
  <1>2. TypeOK'
    BY <1>1 DEF IInv, TypeOK, LocalsInv, Holding, WorkerPCs, UserPCs, Codes
  <1>3. LocalsInv'
    BY <1>1, NoneAssumption DEF IInv, TypeOK, LocalsInv, Holding
  <1>4. CallInv'
    BY <1>1, NoneAssumption DEF IInv, TypeOK, LocalsInv, CallInv
  <1>5. DetachInv'
    <2>1. utask[u] # None /\ utask[u] \notin delete
      BY <1>1 DEF IInv, TypeOK, LocalsInv, CallInv
    <2>2. \A v \in Users \ {u} : upc'[v] = upc[v] /\ utask'[v] = utask[v]
      BY <1>1 DEF IInv, TypeOK
    <2>3. upc'[u] = "idle" /\ utask'[u] = None
      BY <1>1 DEF IInv, TypeOK
    <2>4. \A v \in Users : upc[v] = "detach_check" => utask[v] # None
      BY DEF IInv, LocalsInv
    <2> QED BY <1>1, <2>1, <2>2, <2>3, <2>4, NoneAssumption DEF IInv, TypeOK, DetachInv
  <1>6. DeletionInv'
    BY <1>1 DEF IInv, TypeOK, DeletionInv
  <1>7. /\ TaskInOnePlace' /\ QueuedInv' /\ HeldInv' /\ FlagsInv' /\ PushedInv'
        /\ RunsInv' /\ ResultInv' /\ ThreadsInv'
    BY <1>1 DEF IInv, TaskInOnePlace, QueuedInv, HeldInv, FlagsInv, PushedInv,
         RunsInv, ResultInv, ThreadsInv, Holds, Queued, Holding, NotRunYet,
         FinishedHasResult, thread_task_is_finished
  <1> QED BY <1>2, <1>3, <1>4, <1>5, <1>6, <1>7 DEF IInv

\* Lines 246-252.
LEMMA thread_task_timed_join_Inv ==
    ASSUME IInv, NEW u \in Users, NEW t \in Tasks, NEW timeout \in Int,
           thread_task_timed_join(u, t, timeout)
    PROVE  IInv'
  <1>1. CASE Return(u, "TIMEOUT")
    BY <1>1, RefusedCall DEF thread_task_timed_join, MayUse, Codes
  <1>2. CASE Return(u, "TASK_NOT_PUSHED")
    BY <1>2, RefusedCall DEF thread_task_timed_join, MayUse, Codes
  <1>3. CASE /\ t \in pushed
             /\ upc' = [upc EXCEPT ![u] = "tjoin_lock"]
             /\ utask' = [utask EXCEPT ![u] = t]
             /\ ret' = ret
    <2>1. /\ upc[u] = "idle" /\ t \in (allocated \cap pushed) \ delete
          /\ upc' = [upc EXCEPT ![u] = "tjoin_lock"]
          /\ utask' = [utask EXCEPT ![u] = t]
          /\ UNCHANGED <<pool, max_threads, run_threads, cnt_threads, shutdown, queue, run0,
                       allocated, pushed, finished, joined, delete, result, gen, runs,
                       wpc, wtask, wres, ret, got>>
      BY <1>3 DEF thread_task_timed_join, MayUse, poolVars, taskVars, workerVars,
           userVars
    <2>2. TypeOK'
      BY <2>1 DEF IInv, TypeOK, LocalsInv, Holding, WorkerPCs, UserPCs, Codes
    <2>3. LocalsInv'
      BY <2>1, NoneAssumption DEF IInv, TypeOK, LocalsInv, Holding
    <2>4. CallInv'
      BY <2>1, NoneAssumption DEF IInv, TypeOK, LocalsInv, CallInv
    <2>5. DetachInv'
      BY <2>1, NoneAssumption DEF IInv, TypeOK, LocalsInv, CallInv, DetachInv
    <2>6. DeletionInv'
      BY <2>1 DEF IInv, TypeOK, DeletionInv
    <2>7. /\ TaskInOnePlace' /\ QueuedInv' /\ HeldInv' /\ FlagsInv' /\ PushedInv'
          /\ RunsInv' /\ ResultInv' /\ ThreadsInv'
      BY <2>1 DEF IInv, TaskInOnePlace, QueuedInv, HeldInv, FlagsInv, PushedInv,
           RunsInv, ResultInv, ThreadsInv, Holds, Queued, Holding, NotRunYet,
           FinishedHasResult, thread_task_is_finished
    <2> QED BY <2>2, <2>3, <2>4, <2>5, <2>6, <2>7 DEF IInv
  <1> QED BY <1>1, <1>2, <1>3 DEF thread_task_timed_join

\* Lines 254-267.
LEMMA TimedJoinLocked_Inv ==
    ASSUME IInv, NEW u \in Users, TimedJoinLocked(u)
    PROVE  IInv'
  <1>1. CASE /\ utask[u] \in finished
             /\ got' = [got EXCEPT ![u] = result[utask[u]]]
             /\ joined' = joined \cup {utask[u]}
             /\ Return(u, "0")
    <2>1. /\ upc[u] = "tjoin_lock" /\ utask[u] \in finished
          /\ \A w \in Workers : ~(wpc[w] = "signal" /\ wtask[w] = utask[u])
          /\ joined' = joined \cup {utask[u]}
          /\ ret' \in [Users -> Codes] /\ got' \in [Users -> 0..MaxPush]
          /\ upc' = [upc EXCEPT ![u] = "idle"]
          /\ utask' = [utask EXCEPT ![u] = None]
          /\ UNCHANGED <<pool, max_threads, run_threads, cnt_threads, shutdown, queue, run0,
                       allocated, pushed, finished, delete, result, gen, runs, wpc,
                       wtask, wres>>
      BY <1>1 DEF TimedJoinLocked, TaskMutexHeld, Return, IInv, TypeOK, LocalsInv,
           Codes, poolVars, taskVars, workerVars, userVars
    <2>2. TypeOK'
      BY <2>1 DEF IInv, TypeOK, LocalsInv, Holding, WorkerPCs, UserPCs, Codes
    <2>3. LocalsInv'
      BY <2>1, NoneAssumption DEF IInv, TypeOK, LocalsInv, Holding
    <2>4. QueuedInv'
      BY <2>1 DEF IInv, TypeOK, QueuedInv, Queued
    <2>5. HeldInv'
      BY <2>1 DEF IInv, TypeOK, LocalsInv, HeldInv, Holding
    <2>6. FlagsInv'
      BY <2>1 DEF IInv, TypeOK, FlagsInv
    <2>7. CallInv'
      BY <2>1, NoneAssumption DEF IInv, TypeOK, LocalsInv, CallInv
    <2>8. DetachInv'
      <3>1. utask[u] # None /\ utask[u] \notin delete
        BY <2>1 DEF IInv, TypeOK, LocalsInv, CallInv
      <3>2. \A v \in Users \ {u} : upc'[v] = upc[v] /\ utask'[v] = utask[v]
        BY <2>1 DEF IInv, TypeOK
      <3>3. upc'[u] = "idle" /\ utask'[u] = None
        BY <2>1 DEF IInv, TypeOK
      <3>4. \A v \in Users : upc[v] = "detach_check" => utask[v] # None
        BY DEF IInv, LocalsInv
      <3> QED BY <2>1, <3>1, <3>2, <3>3, <3>4, NoneAssumption DEF IInv, TypeOK, DetachInv
    <2>9. DeletionInv'
      BY <2>1 DEF IInv, TypeOK, DeletionInv
    <2>10. TaskInOnePlace' /\ PushedInv' /\ RunsInv' /\ ResultInv' /\ ThreadsInv'
      BY <2>1 DEF IInv, TaskInOnePlace, PushedInv, RunsInv, ResultInv, ThreadsInv,
           Holds, Queued, NotRunYet, Holding, FinishedHasResult,
           thread_task_is_finished
    <2> QED BY <2>2, <2>3, <2>4, <2>5, <2>6, <2>7, <2>8, <2>9, <2>10 DEF IInv
  <1>2. CASE /\ utask[u] \notin finished
             /\ Return(u, "TIMEOUT")
             /\ UNCHANGED <<joined, got>>
    <2>1. /\ upc[u] = "tjoin_lock"
          /\ ret' \in [Users -> Codes]
          /\ upc' = [upc EXCEPT ![u] = "idle"]
          /\ utask' = [utask EXCEPT ![u] = None]
          /\ UNCHANGED <<pool, max_threads, run_threads, cnt_threads, shutdown, queue, run0,
                       allocated, pushed, finished, joined, delete, result, gen, runs,
                       wpc, wtask, wres, got>>
      BY <1>2 DEF TimedJoinLocked, Return, IInv, TypeOK, Codes, poolVars, taskVars,
           workerVars, userVars
    <2>2. TypeOK'
      BY <2>1 DEF IInv, TypeOK, LocalsInv, Holding, WorkerPCs, UserPCs, Codes
    <2>3. LocalsInv'
      BY <2>1, NoneAssumption DEF IInv, TypeOK, LocalsInv, Holding
    <2>4. CallInv'
      BY <2>1, NoneAssumption DEF IInv, TypeOK, LocalsInv, CallInv
    <2>5. DetachInv'
      <3>1. utask[u] # None /\ utask[u] \notin delete
        BY <2>1 DEF IInv, TypeOK, LocalsInv, CallInv
      <3>2. \A v \in Users \ {u} : upc'[v] = upc[v] /\ utask'[v] = utask[v]
        BY <2>1 DEF IInv, TypeOK
      <3>3. upc'[u] = "idle" /\ utask'[u] = None
        BY <2>1 DEF IInv, TypeOK
      <3>4. \A v \in Users : upc[v] = "detach_check" => utask[v] # None
        BY DEF IInv, LocalsInv
      <3> QED BY <2>1, <3>1, <3>2, <3>3, <3>4, NoneAssumption DEF IInv, TypeOK, DetachInv
    <2>6. DeletionInv'
      BY <2>1 DEF IInv, TypeOK, DeletionInv
    <2>7. /\ TaskInOnePlace' /\ QueuedInv' /\ HeldInv' /\ FlagsInv' /\ PushedInv'
          /\ RunsInv' /\ ResultInv' /\ ThreadsInv'
      BY <2>1 DEF IInv, TaskInOnePlace, QueuedInv, HeldInv, FlagsInv, PushedInv,
           RunsInv, ResultInv, ThreadsInv, Holds, Queued, Holding, NotRunYet,
           FinishedHasResult, thread_task_is_finished
    <2> QED BY <2>2, <2>3, <2>4, <2>5, <2>6, <2>7 DEF IInv
  <1>3. CASE /\ utask[u] \notin finished
             /\ upc' = [upc EXCEPT ![u] = "tjoin_wait"]
             /\ UNCHANGED <<joined, got, utask, ret>>
    <2>1. /\ upc[u] = "tjoin_lock"
          /\ upc' = [upc EXCEPT ![u] = "tjoin_wait"]
          /\ UNCHANGED <<pool, max_threads, run_threads, cnt_threads, shutdown, queue, run0,
                       allocated, pushed, finished, joined, delete, result, gen, runs,
                       wpc, wtask, wres, utask, ret, got>>
      BY <1>3 DEF TimedJoinLocked, poolVars, taskVars, workerVars, userVars
    <2>2. TypeOK'
      BY <2>1 DEF IInv, TypeOK, LocalsInv, Holding, WorkerPCs, UserPCs, Codes
    <2>3. LocalsInv'
      BY <2>1 DEF IInv, TypeOK, LocalsInv, Holding
    <2>4. CallInv'
      BY <2>1 DEF IInv, TypeOK, LocalsInv, CallInv
    <2>5. DetachInv'
      BY <2>1 DEF IInv, TypeOK, LocalsInv, CallInv, DetachInv
    <2>6. DeletionInv'
      BY <2>1 DEF IInv, TypeOK, DeletionInv
    <2>7. /\ TaskInOnePlace' /\ QueuedInv' /\ HeldInv' /\ FlagsInv' /\ PushedInv'
          /\ RunsInv' /\ ResultInv' /\ ThreadsInv'
      BY <2>1 DEF IInv, TaskInOnePlace, QueuedInv, HeldInv, FlagsInv, PushedInv,
           RunsInv, ResultInv, ThreadsInv, Holds, Queued, Holding, NotRunYet,
           FinishedHasResult, thread_task_is_finished
    <2> QED BY <2>2, <2>3, <2>4, <2>5, <2>6, <2>7 DEF IInv
  <1> QED BY <1>1, <1>2, <1>3 DEF TimedJoinLocked

\* Line 262.
LEMMA TimedWake_Inv ==
    ASSUME IInv, NEW u \in Users, TimedWake(u)
    PROVE  IInv'
  <1>1. /\ upc[u] = "tjoin_wait"
        /\ upc' = [upc EXCEPT ![u] = "tjoin_lock"]
        /\ UNCHANGED <<pool, max_threads, run_threads, cnt_threads, shutdown, queue, run0,
                     allocated, pushed, finished, joined, delete, result, gen, runs,
                     wpc, wtask, wres, utask, ret, got>>
    BY DEF TimedWake, poolVars, taskVars, workerVars, userVars
  <1>2. TypeOK'
    BY <1>1 DEF IInv, TypeOK, LocalsInv, Holding, WorkerPCs, UserPCs, Codes
  <1>3. LocalsInv'
    BY <1>1 DEF IInv, TypeOK, LocalsInv, Holding
  <1>4. CallInv'
    BY <1>1 DEF IInv, TypeOK, LocalsInv, CallInv
  <1>5. DetachInv'
    BY <1>1 DEF IInv, TypeOK, LocalsInv, CallInv, DetachInv
  <1>6. DeletionInv'
    BY <1>1 DEF IInv, TypeOK, DeletionInv
  <1>7. /\ TaskInOnePlace' /\ QueuedInv' /\ HeldInv' /\ FlagsInv' /\ PushedInv'
        /\ RunsInv' /\ ResultInv' /\ ThreadsInv'
    BY <1>1 DEF IInv, TaskInOnePlace, QueuedInv, HeldInv, FlagsInv, PushedInv,
         RunsInv, ResultInv, ThreadsInv, Holds, Queued, Holding, NotRunYet,
         FinishedHasResult, thread_task_is_finished
  <1> QED BY <1>2, <1>3, <1>4, <1>5, <1>6, <1>7 DEF IInv

\* Line 225.
LEMMA SpuriousJoinWake_Inv ==
    ASSUME IInv, NEW u \in Users, SpuriousJoinWake(u)
    PROVE  IInv'
  <1>1. /\ upc[u] = "join_wait"
        /\ upc' = [upc EXCEPT ![u] = "join_lock"]
        /\ UNCHANGED <<pool, max_threads, run_threads, cnt_threads, shutdown, queue, run0,
                     allocated, pushed, finished, joined, delete, result, gen, runs,
                     wpc, wtask, wres, utask, ret, got>>
    BY DEF SpuriousJoinWake, poolVars, taskVars, workerVars, userVars
  <1>2. TypeOK'
    BY <1>1 DEF IInv, TypeOK, LocalsInv, Holding, WorkerPCs, UserPCs, Codes
  <1>3. LocalsInv'
    BY <1>1 DEF IInv, TypeOK, LocalsInv, Holding
  <1>4. CallInv'
    BY <1>1 DEF IInv, TypeOK, LocalsInv, CallInv
  <1>5. DetachInv'
    BY <1>1 DEF IInv, TypeOK, LocalsInv, CallInv, DetachInv
  <1>6. DeletionInv'
    BY <1>1 DEF IInv, TypeOK, DeletionInv
  <1>7. /\ TaskInOnePlace' /\ QueuedInv' /\ HeldInv' /\ FlagsInv' /\ PushedInv'
        /\ RunsInv' /\ ResultInv' /\ ThreadsInv'
    BY <1>1 DEF IInv, TaskInOnePlace, QueuedInv, HeldInv, FlagsInv, PushedInv,
         RunsInv, ResultInv, ThreadsInv, Holds, Queued, Holding, NotRunYet,
         FinishedHasResult, thread_task_is_finished
  <1> QED BY <1>2, <1>3, <1>4, <1>5, <1>6, <1>7 DEF IInv

\* Lines 274-285.
LEMMA thread_task_delete_Inv ==
    ASSUME IInv, NEW u \in Users, NEW t \in Tasks, thread_task_delete(u, t)
    PROVE  IInv'
  <1>1. CASE Return(u, "TASK_IN_POOL") /\ allocated' = allocated
    BY <1>1, RefusedCall DEF thread_task_delete, MayUse, taskVars, Codes
  <1>2. CASE Deletable(t) /\ allocated' = allocated \ {t} /\ Return(u, "0")
    <2>1. /\ t \notin pushed \/ t \in joined
          /\ allocated' = allocated \ {t}
          /\ \A v \in Users : utask[v] # t
          /\ ret' \in [Users -> Codes]
          /\ UNCHANGED <<pool, max_threads, run_threads, cnt_threads, shutdown, queue, run0,
                       pushed, finished, joined, delete, result, gen, runs, wpc,
                       wtask, wres, upc, utask, got>>
      BY <1>2, NobodyInCall DEF thread_task_delete, MayUse, Deletable, Return, Codes,
           IInv, TypeOK, LocalsInv, poolVars, taskVars, workerVars, userVars
    <2>2. TypeOK'
      BY <2>1 DEF IInv, TypeOK, LocalsInv, Holding, WorkerPCs, UserPCs, Codes
    <2>3. QueuedInv'
      BY <2>1 DEF IInv, TypeOK, QueuedInv, Queued
    <2>4. HeldInv'
      BY <2>1 DEF IInv, TypeOK, LocalsInv, HeldInv, Holding
    <2>5. FlagsInv'
      BY <2>1 DEF IInv, TypeOK, FlagsInv
    <2>6. PushedInv'
      BY <2>1 DEF IInv, TypeOK, LocalsInv, PushedInv, Queued, Holds, Holding
    <2>7. CallInv'
      BY <2>1 DEF IInv, TypeOK, LocalsInv, CallInv
    <2>8. DetachInv'
      BY <2>1 DEF IInv, TypeOK, LocalsInv, CallInv, DetachInv
    <2>9. ResultInv'
      BY <2>1 DEF IInv, TypeOK, LocalsInv, ResultInv, Holding, FinishedHasResult,
           thread_task_is_finished
    <2>10. LocalsInv' /\ TaskInOnePlace' /\ RunsInv' /\ ThreadsInv' /\ DeletionInv'
      BY <2>1 DEF IInv, LocalsInv, TaskInOnePlace, RunsInv, ThreadsInv, DeletionInv,
           Holds, Queued, NotRunYet
    <2> QED BY <2>2, <2>3, <2>4, <2>5, <2>6, <2>7, <2>8, <2>9, <2>10 DEF IInv
  <1> QED BY <1>1, <1>2 DEF thread_task_delete

\* Lines 292-295, for callers that detach finished tasks only.
LEMMA thread_task_detach_Inv ==
    ASSUME IInv, NEW u \in Users, NEW t \in Tasks, thread_task_detach(u, t),
           DetachWhen # "any"
    PROVE  IInv'
  <1>1. CASE Return(u, "TASK_NOT_PUSHED") /\ delete' = delete
    BY <1>1, RefusedCall DEF thread_task_detach, MayUse, taskVars, Codes
  <1>2. CASE /\ t \in pushed
             /\ ~TaskMutexHeld(t)
             /\ delete' = delete \cup {t}
             /\ upc' = [upc EXCEPT ![u] = "detach_check"]
             /\ utask' = [utask EXCEPT ![u] = t]
             /\ ret' = ret
    <2>1. /\ t \in finished
          /\ \A v \in Users : utask[v] # t
          /\ \A w \in Workers : ~(wpc[w] = "signal" /\ wtask[w] = t)
          /\ delete' = delete \cup {t}
          /\ upc[u] = "idle" /\ t \in (allocated \cap pushed) \ delete
          /\ upc' = [upc EXCEPT ![u] = "detach_check"]
          /\ utask' = [utask EXCEPT ![u] = t]
          /\ UNCHANGED <<pool, max_threads, run_threads, cnt_threads, shutdown, queue, run0,
                       allocated, pushed, finished, joined, result, gen, runs, wpc,
                       wtask, wres, ret, got>>
      BY <1>2, NobodyInCall DEF thread_task_detach, MayUse, TaskMutexHeld,
           thread_task_is_finished, poolVars, taskVars, workerVars, userVars
    <2>2. TypeOK'
      BY <2>1 DEF IInv, TypeOK, LocalsInv, Holding, WorkerPCs, UserPCs, Codes
    <2>3. LocalsInv'
      BY <2>1, NoneAssumption DEF IInv, TypeOK, LocalsInv, Holding
    <2>4. QueuedInv'
      BY <2>1 DEF IInv, TypeOK, QueuedInv, Queued
    <2>5. HeldInv'
      BY <2>1 DEF IInv, TypeOK, LocalsInv, HeldInv, Holding
    <2>6. FlagsInv'
      BY <2>1 DEF IInv, TypeOK, FlagsInv
    <2>7. CallInv'
      BY <2>1, NoneAssumption DEF IInv, TypeOK, LocalsInv, CallInv
    <2>8. DetachInv'
      BY <2>1, NoneAssumption DEF IInv, TypeOK, LocalsInv, CallInv, DetachInv
    <2>9. DeletionInv'
      BY <2>1 DEF IInv, TypeOK, DeletionInv
    <2>10. TaskInOnePlace' /\ PushedInv' /\ RunsInv' /\ ResultInv' /\ ThreadsInv'
      BY <2>1 DEF IInv, TaskInOnePlace, PushedInv, RunsInv, ResultInv, ThreadsInv,
           Holds, Queued, NotRunYet, Holding, FinishedHasResult,
           thread_task_is_finished
    <2> QED BY <2>2, <2>3, <2>4, <2>5, <2>6, <2>7, <2>8, <2>9, <2>10 DEF IInv
  <1> QED BY <1>1, <1>2 DEF thread_task_detach

\* Lines 296-298.
LEMMA DetachCheck_Inv ==
    ASSUME IInv, NEW u \in Users, DetachCheck(u)
    PROVE  IInv'
  <1>1. /\ upc[u] = "detach_check" /\ utask[u] \in (finished \cap delete \cap pushed) /\ utask[u] # None
        /\ allocated' = allocated \ {utask[u]}
        /\ ret' \in [Users -> Codes]
        /\ upc' = [upc EXCEPT ![u] = "idle"]
        /\ utask' = [utask EXCEPT ![u] = None]
        /\ UNCHANGED <<pool, max_threads, run_threads, cnt_threads, shutdown, queue, run0,
                     pushed, finished, joined, delete, result, gen, runs, wpc, wtask,
                     wres, got>>
    BY DEF DetachCheck, Return, Deletable, Codes, IInv, TypeOK, LocalsInv, CallInv,
         FlagsInv, poolVars, taskVars, workerVars, userVars
  <1>2. TypeOK'
    BY <1>1 DEF IInv, TypeOK, LocalsInv, Holding, WorkerPCs, UserPCs, Codes
  <1>3. LocalsInv'
    BY <1>1, NoneAssumption DEF IInv, TypeOK, LocalsInv, Holding
  <1>4. QueuedInv'
    BY <1>1 DEF IInv, TypeOK, QueuedInv, Queued
  <1>5. HeldInv'
    BY <1>1 DEF IInv, TypeOK, LocalsInv, HeldInv, Holding
  <1>6. FlagsInv'
    BY <1>1 DEF IInv, TypeOK, FlagsInv
  <1>7. PushedInv'
    BY <1>1 DEF IInv, TypeOK, LocalsInv, PushedInv, Queued, Holds, Holding
  <1>8. CallInv'
    <2>1. \A v \in Users : utask[v] = utask[u] => v = u
      BY <1>1 DEF IInv, DetachInv
    <2>2. \A v \in Users \ {u} : upc'[v] = upc[v] /\ utask'[v] = utask[v]
      BY <1>1 DEF IInv, TypeOK
    <2> QED BY <1>1, <2>1, <2>2 DEF IInv, TypeOK, CallInv
  <1>9. DetachInv'
    BY <1>1, NoneAssumption DEF IInv, TypeOK, LocalsInv, CallInv, DetachInv
  <1>10. ResultInv'
    BY <1>1 DEF IInv, TypeOK, LocalsInv, ResultInv, Holding, FinishedHasResult,
         thread_task_is_finished
  <1>11. DeletionInv'
    BY <1>1 DEF IInv, TypeOK, DeletionInv
  <1>12. TaskInOnePlace' /\ RunsInv' /\ ThreadsInv'
    BY <1>1 DEF IInv, TaskInOnePlace, RunsInv, ThreadsInv, Holds, Queued, NotRunYet
  <1> QED BY <1>2, <1>3, <1>4, <1>5, <1>6, <1>7, <1>8, <1>9, <1>10, <1>11, <1>12 DEF IInv

-----------------------------------------------------------------------------
(* The invariant holds in every reachable state.                           *)

\* Init establishes the invariant.
LEMMA InitInv == Init => IInv
  <1> SUFFICES ASSUME Init PROVE IInv
    OBVIOUS
  <1>1. TypeOK
    <2>1. queue \in Seq(Tasks) /\ Len(queue) <= TPOOL_MAX_TASKS
      BY LimitsAssumption DEF Init
    <2>2. /\ result \in [Tasks -> 0..MaxPush] /\ gen \in [Tasks -> 0..MaxPush]
          /\ wres \in [Workers -> 0..MaxPush] /\ got \in [Users -> 0..MaxPush]
          /\ max_threads \in 0..TPOOL_MAX_THREADS /\ cnt_threads \in 0..max_threads
      BY LimitsAssumption DEF Init
    <2>3. /\ wpc \in [Workers -> WorkerPCs] /\ upc \in [Users -> UserPCs]
          /\ ret \in [Users -> Codes]
      BY DEF Init, WorkerPCs, UserPCs, Codes
    <2>4. /\ wtask \in [Workers -> Tasks \cup {None}] /\ utask \in [Users -> Tasks \cup {None}]
          /\ runs \in [Tasks -> Nat] /\ run_threads \in Int /\ run0 \in Int
      BY DEF Init
    <2>5. pool \in {"none", "live"} /\ shutdown \in BOOLEAN
      BY Zenon DEF Init
    <2>6. /\ allocated \subseteq Tasks /\ pushed \subseteq Tasks /\ finished \subseteq Tasks
          /\ joined \subseteq Tasks /\ delete \subseteq Tasks
      BY DEF Init
    <2> QED BY <2>1, <2>2, <2>3, <2>4, <2>5, <2>6 DEF TypeOK
  <1>2. Distinct(queue) /\ \A t : ~Queued(t)
    BY InSeqEmpty DEF Init, Queued
  <1>3. \A w \in Workers : wpc[w] = "none" /\ wtask[w] = None
    BY DEF Init
  <1>4. LocalsInv /\ TaskInOnePlace /\ QueuedInv /\ HeldInv /\ FlagsInv /\ PushedInv
    BY <1>2, <1>3 DEF Init, LocalsInv, TaskInOnePlace, QueuedInv, HeldInv, FlagsInv,
         PushedInv, Holding, Holds
  <1>5. CallInv /\ DetachInv /\ ResultInv /\ DeletionInv
    BY <1>3 DEF Init, CallInv, DetachInv, ResultInv, DeletionInv, Holding,
         FinishedHasResult, thread_task_is_finished
  <1>6. RunsInv
    BY <1>2, <1>3 DEF Init, RunsInv, NotRunYet
  <1>7. ThreadsInv
    BY <1>3 DEF Init, ThreadsInv, Workers
  <1> QED BY <1>1, <1>4, <1>5, <1>6, <1>7 DEF IInv

\* Every step of a worker or of a caller preserves it, and so does a step that
\* changes no variable of the pool.
LEMMA NextInv ==
    ASSUME IInv, [Next]_vars, DetachWhen # "any"
    PROVE  IInv'
  <1>1. ASSUME NEW w \in Workers, WorkerStep(w) \/ SpuriousWake(w)
        PROVE  IInv'
    BY <1>1, Fetch_Inv, SpuriousWake_Inv, Load_Inv, Run_Inv, Decrement_Inv, Publish_Inv,
       Signal_Inv DEF WorkerStep
  <1>2. ASSUME NEW u \in Users, CallStep(u) \/ SpuriousJoinWake(u)
        PROVE  IInv'
    BY <1>2, PoolFree_Inv, JoinLocked_Inv, JoinResult_Inv, TimedJoinLocked_Inv,
       TimedWake_Inv, DetachCheck_Inv, SpuriousJoinWake_Inv DEF CallStep
  <1>3. ASSUME NEW u \in Users, Call(u)
        PROVE  IInv'
    <2>1. ASSUME NEW n \in 0..(TPOOL_MAX_THREADS + 1), thread_pool_new(u, n)
          PROVE  IInv'
      BY <2>1, thread_pool_new_Inv
    <2>2. CASE thread_pool_delete(u)
      BY <2>2, thread_pool_delete_Inv
    <2>3. ASSUME NEW t \in Tasks,
                 \/ thread_task_new(u, t) \/ thread_pool_push_task(u, t)
                 \/ thread_task_join(u, t)
                 \/ \E timeout \in 0..1 : thread_task_timed_join(u, t, timeout)
                 \/ thread_task_delete(u, t) \/ thread_task_detach(u, t)
          PROVE  IInv'
      BY <2>3, thread_task_new_Inv, thread_pool_push_task_Inv, thread_task_join_Inv,
         thread_task_timed_join_Inv, thread_task_delete_Inv, thread_task_detach_Inv
    <2> QED BY <1>3, <2>1, <2>2, <2>3 DEF Call
  <1>4. ASSUME UNCHANGED vars
        PROVE  IInv'
    <2>1. /\ UNCHANGED <<pool, max_threads, run_threads, cnt_threads, shutdown, queue, run0>>
          /\ UNCHANGED <<allocated, pushed, finished, joined, delete, result, gen, runs>>
          /\ UNCHANGED <<wpc, wtask, wres, upc, utask, ret, got>>
      BY <1>4 DEF vars, poolVars, taskVars, workerVars, userVars
    <2>2. TypeOK' /\ LocalsInv' /\ TaskInOnePlace' /\ QueuedInv' /\ HeldInv'
      BY <2>1 DEF IInv, TypeOK, LocalsInv, TaskInOnePlace, QueuedInv, HeldInv, Queued, Holds
    <2>3. FlagsInv' /\ PushedInv' /\ CallInv' /\ DetachInv' /\ RunsInv'
      BY <2>1 DEF IInv, FlagsInv, PushedInv, CallInv, DetachInv, RunsInv, NotRunYet, Queued, Holds
    <2>4. ResultInv' /\ ThreadsInv' /\ DeletionInv'
      BY <2>1 DEF IInv, ResultInv, ThreadsInv, DeletionInv, FinishedHasResult,
           thread_task_is_finished
    <2> QED BY <2>2, <2>3, <2>4 DEF IInv
  <1> QED BY <1>1, <1>2, <1>3, <1>4 DEF Next

\* The invariant of the pool, for every garbage value in run_threads, every
\* number of callers, tasks and threads, when callers detach finished tasks.
THEOREM Invariance ==
    ASSUME DetachWhen # "any"
    PROVE  Spec => []IInv
  <1>1. Init => IInv
    BY InitInv
  <1>2. IInv /\ [Next]_vars => IInv'
    BY NextInv
  <1> QED BY <1>1, <1>2, PTL DEF Spec

\* Variables keep their types and the threads array is never overrun.
THEOREM TypeCorrect ==
    ASSUME DetachWhen # "any"
    PROVE  Spec => []TypeOK
  <1>1. IInv => TypeOK
    BY DEF IInv
  <1> QED BY <1>1, Invariance, PTL

\* No task is in two places: no push is ever handed to two workers.
THEOREM OnePlace ==
    ASSUME DetachWhen # "any"
    PROVE  Spec => []TaskInOnePlace
  <1>1. IInv => TaskInOnePlace
    BY DEF IInv
  <1> QED BY <1>1, Invariance, PTL

\* No worker and no caller touches a freed task, no worker a freed pool.
THEOREM MemorySafety ==
    ASSUME DetachWhen # "any"
    PROVE  Spec => []NoUseAfterFree
  <1>1. IInv => NoUseAfterFree
    <2> SUFFICES ASSUME IInv PROVE NoUseAfterFree
      OBVIOUS
    <2>1. \A t \in Tasks : Queued(t) => t \in allocated
      BY DEF IInv, QueuedInv
    <2>2. \A w \in Workers, t \in Tasks : Holds(w, t) => t \in allocated
      BY DEF IInv, HeldInv, Holds
    <2>3. \A u \in Users, t \in Tasks : InCall(u, t) => t \in allocated
      BY NoneAssumption DEF IInv, CallInv, InCall
    <2>4. \A w \in Workers : wpc[w] \notin {"none", "exited"} => pool = "live"
      BY DEF IInv, ThreadsInv, TypeOK, Workers
    <2> QED BY <2>1, <2>2, <2>3, <2>4 DEF NoUseAfterFree
  <1> QED BY <1>1, Invariance, PTL

\* Every push is executed exactly once, and a finished task carries the result
\* of its latest push.
THEOREM PushRunsOnce ==
    ASSUME DetachWhen # "any"
    PROVE  Spec => [](ExactlyOnce /\ FinishedHasResult)
  <1>1. IInv => ExactlyOnce /\ FinishedHasResult
    <2> SUFFICES ASSUME IInv PROVE ExactlyOnce /\ FinishedHasResult
      OBVIOUS
    <2>1. \A t \in Tasks : NotRunYet(t) /\ t \in allocated => t \notin finished
      BY DEF IInv, NotRunYet, QueuedInv, HeldInv, Holding
    <2>2. ExactlyOnce
      BY <2>1 DEF IInv, TypeOK, RunsInv, ExactlyOnce
    <2> QED BY <2>2 DEF IInv, ResultInv
  <1> QED BY <1>1, Invariance, PTL

\* When a pool has been deleted, every task pushed into it has finished.
THEOREM PoolDeletionSafe ==
    ASSUME DetachWhen # "any"
    PROVE  Spec => []DeleteLosesNoTask
  <1>1. IInv => DeleteLosesNoTask
    <2> SUFFICES ASSUME IInv, pool = "none", NEW t \in allocated \cap pushed
                 PROVE  t \in finished
      BY DEF DeleteLosesNoTask
    <2>1. \A x : ~Queued(x)
      BY InSeqEmpty DEF IInv, DeletionInv, Queued
    <2>2. \A w \in Workers : wpc[w] = "none"
      BY DEF IInv, ThreadsInv, Workers
    <2> QED BY <2>1, <2>2 DEF IInv, PushedInv, Holds, Holding
  <1> QED BY <1>1, Invariance, PTL

-----------------------------------------------------------------------------
(* Results handed out by a join.                                           *)

\* A join that succeeds hands out the result of the latest push.
THEOREM JoinResultFresh ==
    ASSUME DetachWhen # "any"
    PROVE  Spec => JoinReturnsFresh
  <1>1. IInv /\ [Next]_vars => [FreshResult]_vars
    <2> SUFFICES ASSUME IInv, Next, NEW u \in Users,
                        upc[u] \in {"join_result", "tjoin_lock"},
                        upc'[u] = "idle", ret'[u] = "0"
                 PROVE  got'[u] = gen[utask[u]]
      BY DEF FreshResult
    <2>1. utask[u] \in allocated /\ utask[u] # None
      BY DEF IInv, LocalsInv, CallInv
    <2>2. \A t \in allocated \cap finished : result[t] = gen[t]
      BY DEF IInv, ResultInv, FinishedHasResult, thread_task_is_finished
    <2>3. ASSUME NEW v \in Users, JoinResult(v)
          PROVE  got'[u] = gen[utask[u]]
      <3>1. v = u
        BY <2>3 DEF JoinResult, Return, IInv, TypeOK
      <3>2. upc[u] = "join_result" /\ got'[u] = result[utask[u]]
        BY <2>3, <3>1 DEF JoinResult, IInv, TypeOK
      <3>3. utask[u] \in finished
        BY <2>1, <3>2 DEF IInv, CallInv, FlagsInv
      <3> QED BY <2>1, <2>2, <3>2, <3>3
    <2>4. ASSUME NEW v \in Users, TimedJoinLocked(v)
          PROVE  got'[u] = gen[utask[u]]
      <3>1. v = u
        BY <2>4 DEF TimedJoinLocked, Return, IInv, TypeOK
      <3>2. utask[u] \in finished /\ got'[u] = result[utask[u]]
        BY <2>4, <3>1 DEF TimedJoinLocked, Return, IInv, TypeOK
      <3> QED BY <2>1, <2>2, <3>2
    <2>5. ASSUME NEW w \in Workers, WorkerStep(w) \/ SpuriousWake(w)
          PROVE  upc'[u] # "idle"
      BY <2>5 DEF WorkerStep, SpuriousWake, Fetch, Load, Run, Decrement, Publish, Signal,
                  TaskWaiters, Woken, userVars, IInv, TypeOK
    <2>6. ASSUME NEW v \in Users, PoolFree(v) \/ JoinLocked(v) \/ TimedWake(v)
                                  \/ DetachCheck(v) \/ SpuriousJoinWake(v) \/ thread_pool_delete(v)
          PROVE  upc'[u] # "idle"
      BY <2>6 DEF PoolFree, JoinLocked, TimedWake, DetachCheck, SpuriousJoinWake,
                  thread_pool_delete, Return, IInv, TypeOK
    <2>7. ASSUME NEW v \in Users, NEW n \in Int, thread_pool_new(v, n)
          PROVE  upc'[u] # "idle"
      BY <2>7 DEF thread_pool_new, Return, IInv, TypeOK
    <2>8. ASSUME NEW v \in Users, NEW t \in Tasks, NEW timeout \in Int,
                 \/ thread_task_new(v, t) \/ thread_pool_push_task(v, t)
                 \/ thread_task_join(v, t) \/ thread_task_timed_join(v, t, timeout)
                 \/ thread_task_delete(v, t) \/ thread_task_detach(v, t)
          PROVE  upc'[u] # "idle"
      BY <2>8 DEF thread_task_new, thread_pool_push_task, Enqueue, QueueFull, thread_task_join,
                  thread_task_timed_join, thread_task_delete, thread_task_detach, MayUse,
                  Return, IInv, TypeOK
    <2> QED BY <2>3, <2>4, <2>5, <2>6, <2>7, <2>8 DEF Next, CallStep, Call
  <1> QED BY <1>1, Invariance, PTL DEF Spec, JoinReturnsFresh

-----------------------------------------------------------------------------
(* The counter run_threads.                                                *)

\* There are finitely many threads.
LEMMA FiniteCounted == IsFiniteSet(Counted) /\ Cardinality(Counted) \in Nat
  <1>1. IsFiniteSet(Workers)
    BY FS_Interval, LimitsAssumption DEF Workers
  <1> QED BY <1>1, FS_Subset, FS_CardinalityType DEF Counted

\* A step that moves no worker into or out of lines 86-99 keeps the count.
LEMMA SameCount ==
    ASSUME RunCountExact, UNCHANGED <<run_threads, run0>>, pool' = "live" => pool = "live",
           \A w \in Workers : wpc'[w] \in {"load", "run", "dec"} <=> wpc[w] \in {"load", "run", "dec"}
    PROVE  RunCountExact'
  <1>1. Counted' = Counted
    BY DEF Counted
  <1> QED BY <1>1 DEF RunCountExact

\* run_threads stays exact across every step.
LEMMA NextRunCount ==
    ASSUME IInv, RunCountExact, [Next]_vars
    PROVE  RunCountExact'
  <1>1. ASSUME NEW w \in Workers, Fetch(w)
        PROVE  RunCountExact'
    <2>1. CASE shutdown \/ queue = <<>>
      BY <1>1, <2>1, SameCount DEF Fetch, IInv, TypeOK
    <2>2. CASE ~shutdown /\ queue # <<>>
      <3>1. wpc[w] = "lock" /\ wpc' = [wpc EXCEPT ![w] = "load"] /\ run_threads' = run_threads + 1
            /\ UNCHANGED <<pool, run0>>
        BY <1>1, <2>2 DEF Fetch
      <3>2. Counted' = Counted \cup {w} /\ w \notin Counted
        BY <3>1 DEF Counted, IInv, TypeOK
      <3>3. Cardinality(Counted') = Cardinality(Counted) + 1
        BY <3>2, FiniteCounted, FS_AddElement
      <3> QED BY <3>1, <3>3, FiniteCounted DEF RunCountExact, IInv, TypeOK
    <2> QED BY <2>1, <2>2
  <1>2. ASSUME NEW w \in Workers, Decrement(w)
        PROVE  RunCountExact'
    <2>1. wpc[w] = "dec" /\ wpc' = [wpc EXCEPT ![w] = "publish"] /\ run_threads' = run_threads - 1
          /\ UNCHANGED <<pool, run0>>
      BY <1>2 DEF Decrement
    <2>2. Counted' = Counted \ {w} /\ w \in Counted
      BY <2>1 DEF Counted, IInv, TypeOK
    <2>3. Cardinality(Counted') = Cardinality(Counted) - 1
      BY <2>2, FiniteCounted, FS_RemoveElement
    <2> QED BY <2>1, <2>3, FiniteCounted DEF RunCountExact, IInv, TypeOK
  <1>3. ASSUME NEW w \in Workers, Load(w) \/ Run(w) \/ Publish(w) \/ Signal(w) \/ SpuriousWake(w)
        PROVE  RunCountExact'
    BY <1>3, SameCount DEF Load, Run, Publish, Signal, SpuriousWake, poolVars, IInv, TypeOK
  <1>4. ASSUME NEW u \in Users, NEW n \in Int, thread_pool_new(u, n)
        PROVE  RunCountExact'
    <2>1. CASE UNCHANGED poolVars
      BY <1>4, <2>1, SameCount DEF thread_pool_new, poolVars, workerVars
    <2>2. CASE run0' = run_threads' /\ run_threads' \in GarbageInts
      <3>1. UNCHANGED wpc /\ pool = "none"
        BY <1>4 DEF thread_pool_new, workerVars
      <3>2. Counted' = {}
        BY <3>1 DEF Counted, IInv, ThreadsInv, Workers, TypeOK
      <3> QED BY <2>2, <3>2, FS_EmptySet, GarbageAssumption DEF RunCountExact
    <2> QED BY <1>4, <2>1, <2>2 DEF thread_pool_new
  <1>5. ASSUME NEW u \in Users, thread_pool_delete(u)
        PROVE  RunCountExact'
    BY <1>5, SameCount DEF thread_pool_delete, IInv, TypeOK
  <1>6. ASSUME NEW u \in Users, PoolFree(u)
        PROVE  RunCountExact'
    BY <1>6 DEF PoolFree, RunCountExact
  <1>7. ASSUME NEW u \in Users, NEW t \in Tasks, thread_pool_push_task(u, t)
        PROVE  RunCountExact'
    <2>1. CASE QueueFull(u)
      BY <1>7, <2>1, SameCount DEF thread_pool_push_task, QueueFull
    <2>2. CASE Enqueue(u, t)
      <3>1. \A w \in Workers : \/ wpc'[w] = wpc[w]
                               \/ wpc[w] \in {"wait", "none"} /\ wpc'[w] = "lock"
        BY <1>7, <2>2, EnqueueWakes
      <3>2. UNCHANGED <<run_threads, run0, pool>>
        BY <1>7 DEF thread_pool_push_task
      <3> QED BY <3>1, <3>2, SameCount
    <2> QED BY <1>7, <2>1, <2>2 DEF thread_pool_push_task
  <1>8. ASSUME UNCHANGED <<poolVars, workerVars>>
        PROVE  RunCountExact'
    BY <1>8, SameCount DEF poolVars, workerVars
  <1>9. ASSUME NEW u \in Users, NEW t \in Tasks, NEW timeout \in Int,
               \/ thread_task_new(u, t) \/ thread_task_join(u, t)
               \/ thread_task_timed_join(u, t, timeout)
               \/ thread_task_delete(u, t) \/ thread_task_detach(u, t)
        PROVE  RunCountExact'
    <2>1. UNCHANGED <<poolVars, workerVars>>
      BY <1>9 DEF thread_task_new, thread_task_join, thread_task_timed_join,
                  thread_task_delete, thread_task_detach
    <2> QED BY <1>8, <2>1
  <1>10. ASSUME NEW w \in Workers, WorkerStep(w) \/ SpuriousWake(w)
         PROVE  RunCountExact'
    BY <1>1, <1>2, <1>3, <1>10 DEF WorkerStep
  <1>11. ASSUME NEW u \in Users, CallStep(u) \/ SpuriousJoinWake(u)
         PROVE  RunCountExact'
    <2>1. CASE PoolFree(u)
      BY <1>6, <2>1
    <2>2. CASE ~PoolFree(u)
      <3>1. UNCHANGED <<poolVars, workerVars>>
        BY <1>11, <2>2 DEF CallStep, JoinLocked, JoinResult, TimedJoinLocked, TimedWake,
                           DetachCheck, SpuriousJoinWake
      <3> QED BY <1>8, <3>1
    <2> QED BY <2>1, <2>2
  <1>12. ASSUME NEW u \in Users, Call(u)
         PROVE  RunCountExact'
    BY <1>4, <1>5, <1>7, <1>9, <1>12 DEF Call
  <1> QED BY <1>8, <1>10, <1>11, <1>12 DEF Next, vars

\* run_threads counts exactly the workers between lines 86 and 99.
THEOREM RunCount ==
    ASSUME DetachWhen # "any"
    PROVE  Spec => []RunCountExact
  <1>1. Init => RunCountExact
    BY DEF Init, RunCountExact
  <1>2. IInv /\ RunCountExact /\ [Next]_vars => RunCountExact'
    BY NextRunCount
  <1> QED BY <1>1, <1>2, Invariance, PTL DEF Spec

-----------------------------------------------------------------------------
(* Wake-ups.                                                               *)

AwakePCs == {"lock", "load", "run", "dec", "publish", "signal"}

\* A pool that exists can have a thread.
StartInv == pool = "live" => max_threads >= 1

\* Only thread_pool_new sets these fields.
LEMMA NextStart ==
    ASSUME IInv, StartInv, [Next]_vars
    PROVE  StartInv'
  <1>1. ASSUME NEW u \in Users, NEW n \in Int, thread_pool_new(u, n)
        PROVE  StartInv'
    BY <1>1, LimitsAssumption DEF thread_pool_new, StartInv, poolVars, Workers
  <1>2. ASSUME NEW u \in Users, PoolFree(u)
        PROVE  StartInv'
    BY <1>2 DEF PoolFree, StartInv
  <1>3. ASSUME UNCHANGED <<pool, max_threads>>
        PROVE  StartInv'
    BY <1>3 DEF StartInv
  <1>4. ASSUME NEW w \in Workers, WorkerStep(w) \/ SpuriousWake(w)
        PROVE  UNCHANGED <<pool, max_threads>>
    BY <1>4 DEF WorkerStep, SpuriousWake, Fetch, Load, Run, Decrement, Publish, Signal, poolVars
  <1>5. ASSUME NEW u \in Users, CallStep(u) \/ SpuriousJoinWake(u), ~PoolFree(u)
        PROVE  UNCHANGED <<pool, max_threads>>
    BY <1>5 DEF CallStep, JoinLocked, JoinResult, TimedJoinLocked, TimedWake, DetachCheck,
                SpuriousJoinWake, poolVars
  <1>6. ASSUME NEW u \in Users, NEW t \in Tasks, NEW timeout \in Int,
               \/ thread_task_new(u, t) \/ thread_pool_push_task(u, t)
               \/ thread_task_join(u, t) \/ thread_task_timed_join(u, t, timeout)
               \/ thread_task_delete(u, t) \/ thread_task_detach(u, t)
               \/ thread_pool_delete(u)
        PROVE  UNCHANGED <<pool, max_threads>>
    BY <1>6 DEF thread_task_new, thread_pool_push_task, thread_task_join, thread_pool_delete,
                thread_task_timed_join, thread_task_delete, thread_task_detach, poolVars
  <1>7. ASSUME NEW u \in Users, Call(u)
        PROVE  StartInv'
    <2>1. CASE thread_pool_delete(u)
      BY <2>1, <1>3 DEF thread_pool_delete
    <2> QED BY <1>1, <1>3, <1>6, <1>7, <2>1 DEF Call
  <1>8. CASE UNCHANGED vars
    BY <1>3, <1>8 DEF vars, poolVars
  <1> QED BY <1>2, <1>3, <1>4, <1>5, <1>7, <1>8 DEF Next

\* A queued task always has a worker that is awake.
LEMMA NextWakeup ==
    ASSUME IInv, RunCountExact, StartInv, NoLostWakeup, [Next]_vars
    PROVE  NoLostWakeup'
  <1>1. ASSUME NEW w \in Workers, WorkerStep(w)
        PROVE  NoLostWakeup'
    <2>1. CASE Fetch(w) /\ (shutdown \/ queue = <<>>)
      <3>1. queue' = <<>>
        BY <2>1 DEF Fetch, IInv, DeletionInv
      <3> QED BY <3>1 DEF NoLostWakeup
    <2>2. CASE ~(Fetch(w) /\ (shutdown \/ queue = <<>>))
      <3>1. wpc'[w] \in AwakePCs
        BY <1>1, <2>2 DEF WorkerStep, Fetch, Load, Run, Decrement, Publish, Signal, AwakePCs,
                          IInv, TypeOK
      <3> QED BY <3>1 DEF NoLostWakeup, AwakePCs
    <2> QED BY <2>1, <2>2
  <1>2. ASSUME NEW w \in Workers, SpuriousWake(w)
        PROVE  NoLostWakeup'
    BY <1>2 DEF SpuriousWake, NoLostWakeup, IInv, TypeOK
  <1>3. ASSUME NEW u \in Users, NEW n \in Int, thread_pool_new(u, n)
        PROVE  NoLostWakeup'
    BY <1>3 DEF thread_pool_new, NoLostWakeup, poolVars, workerVars
  <1>4. ASSUME NEW u \in Users, thread_pool_delete(u)
        PROVE  NoLostWakeup'
    <2>1. queue' = queue /\ pool' = pool /\ run0' = run0
      BY <1>4 DEF thread_pool_delete
    <2>2. \A w \in Workers : wpc'[w] = wpc[w] \/ wpc'[w] = "lock"
      BY <1>4 DEF thread_pool_delete, IInv, TypeOK
    <2> QED BY <2>1, <2>2 DEF NoLostWakeup
  <1>5. ASSUME NEW u \in Users, PoolFree(u)
        PROVE  NoLostWakeup'
    BY <1>5 DEF PoolFree, NoLostWakeup
  <1>6. ASSUME NEW u \in Users, NEW t \in Tasks, thread_pool_push_task(u, t), Enqueue(u, t)
        PROVE  NoLostWakeup'
    <2>1. CASE \E w \in Workers : wpc'[w] = "lock"
      BY <2>1 DEF NoLostWakeup
    <2>2. CASE ~NeedsThread /\ \A w \in Workers : wpc[w] # "wait" /\ wpc'[w] = wpc[w]
      <3> SUFFICES ASSUME run0' = 0 PROVE NoLostWakeup'
        BY DEF NoLostWakeup
      <3>1. pool = "live" /\ ~shutdown /\ run0 = 0 /\ max_threads >= 1
        BY <1>6, EnqueueWakes DEF thread_pool_push_task, StartInv
      <3>2. cnt_threads # 0
        <4>1. SUFFICES ASSUME cnt_threads = 0 PROVE FALSE
          OBVIOUS
        <4>2. Counted = {}
          BY <4>1 DEF Counted, IInv, ThreadsInv, Workers, TypeOK
        <4>3. run_threads = 0
          BY <3>1, <4>2, FS_EmptySet DEF RunCountExact
        <4> QED BY <2>2, <3>1, <4>1, <4>3 DEF NeedsThread, IInv, TypeOK
      <3>3. 1 \in Workers /\ wpc[1] \notin {"none", "wait", "exited"}
        BY <2>2, <3>1, <3>2, LimitsAssumption DEF IInv, ThreadsInv, Workers, TypeOK
      <3> QED BY <2>2, <3>3 DEF NoLostWakeup
    <2> QED BY <1>6, <2>1, <2>2, EnqueueWakes
  <1>7. ASSUME UNCHANGED <<pool, run0, queue, wpc>>
        PROVE  NoLostWakeup'
    BY <1>7 DEF NoLostWakeup
  <1>8. ASSUME NEW u \in Users, CallStep(u) \/ SpuriousJoinWake(u), ~PoolFree(u)
        PROVE  UNCHANGED <<pool, run0, queue, wpc>>
    BY <1>8 DEF CallStep, JoinLocked, JoinResult, TimedJoinLocked, TimedWake, DetachCheck,
                SpuriousJoinWake, poolVars, workerVars
  <1>9. ASSUME NEW u \in Users, NEW t \in Tasks, NEW timeout \in Int,
               \/ thread_task_new(u, t) \/ (thread_pool_push_task(u, t) /\ QueueFull(u))
               \/ thread_task_join(u, t) \/ thread_task_timed_join(u, t, timeout)
               \/ thread_task_delete(u, t) \/ thread_task_detach(u, t)
        PROVE  UNCHANGED <<pool, run0, queue, wpc>>
    BY <1>9 DEF thread_task_new, thread_pool_push_task, QueueFull, thread_task_join, poolVars,
                workerVars, thread_task_timed_join, thread_task_delete, thread_task_detach
  <1>10. ASSUME NEW u \in Users, Call(u)
         PROVE  NoLostWakeup'
    BY <1>3, <1>4, <1>6, <1>7, <1>9, <1>10 DEF Call, thread_pool_push_task
  <1>11. CASE UNCHANGED vars
    BY <1>7, <1>11 DEF vars, poolVars, workerVars
  <1> QED BY <1>1, <1>2, <1>5, <1>7, <1>8, <1>10, <1>11 DEF Next

\* With run_threads starting as 0, no signal on pool->cond is lost: while a
\* task is queued some worker is awake, so the queue is not abandoned.
THEOREM NoWakeupLost ==
    ASSUME DetachWhen # "any"
    PROVE  Spec => []NoLostWakeup
  <1>1. Init => StartInv /\ NoLostWakeup
    BY DEF Init, StartInv, NoLostWakeup
  <1>2. IInv /\ StartInv /\ [Next]_vars => StartInv'
    BY NextStart
  <1>3. IInv /\ RunCountExact /\ StartInv /\ NoLostWakeup /\ [Next]_vars => NoLostWakeup'
    BY NextWakeup
  <1> QED BY <1>1, <1>2, <1>3, Invariance, RunCount, PTL DEF Spec

-----------------------------------------------------------------------------
(* Refused deletions.                                                     *)

\* Only thread_pool_delete returns TPOOL_ERR_HAS_TASKS.
LEMMA OnlyDeleteRefuses ==
    ASSUME IInv, Next, NEW u \in Users, ret[u] # "HAS_TASKS", ret'[u] = "HAS_TASKS"
    PROVE  thread_pool_delete(u) /\ HasTasks /\ UNCHANGED <<pushed, finished>>
  <1>1. ASSUME NEW w \in Workers, WorkerStep(w) \/ SpuriousWake(w)
        PROVE  ret' = ret
    BY <1>1 DEF WorkerStep, SpuriousWake, Fetch, Load, Run, Decrement, Publish, Signal, userVars
  <1>2. ASSUME NEW v \in Users, CallStep(v) \/ SpuriousJoinWake(v)
        PROVE  ret'[u] # "HAS_TASKS"
    BY <1>2 DEF CallStep, PoolFree, JoinLocked, JoinResult, TimedJoinLocked, TimedWake,
                DetachCheck, SpuriousJoinWake, Return, IInv, TypeOK
  <1>3. ASSUME NEW v \in Users, NEW n \in Int, thread_pool_new(v, n)
        PROVE  ret'[u] # "HAS_TASKS"
    BY <1>3 DEF thread_pool_new, Return, IInv, TypeOK
  <1>4. ASSUME NEW v \in Users, NEW t \in Tasks, NEW timeout \in Int,
               \/ thread_task_new(v, t) \/ thread_pool_push_task(v, t)
               \/ thread_task_join(v, t) \/ thread_task_timed_join(v, t, timeout)
               \/ thread_task_delete(v, t) \/ thread_task_detach(v, t)
        PROVE  ret'[u] # "HAS_TASKS"
    BY <1>4 DEF thread_task_new, thread_pool_push_task, Enqueue, QueueFull, thread_task_join,
                thread_task_timed_join, thread_task_delete, thread_task_detach, Return, IInv, TypeOK
  <1>5. PICK v \in Users : thread_pool_delete(v)
    BY <1>1, <1>2, <1>3, <1>4 DEF Next, Call
  <1>6. v = u /\ HasTasks
    BY <1>5 DEF thread_pool_delete, Return, IInv, TypeOK
  <1> QED BY <1>5, <1>6 DEF thread_pool_delete, taskVars

\* thread_pool_delete refuses only while a pushed task is not finished, when
\* run_threads started as 0.
THEOREM DeleteRefusalsJustified ==
    ASSUME DetachWhen # "any"
    PROVE  Spec => RefusalsJustified
  <1> DEFINE Justified ==
        \A u \in Users : run0 = 0 /\ ret[u] # "HAS_TASKS" /\ ret'[u] = "HAS_TASKS"
                         => \E t \in pushed : t \notin finished
  <1>1. IInv /\ RunCountExact /\ [Next]_vars => [Justified]_vars
    <2> SUFFICES ASSUME IInv, RunCountExact, Next, NEW u \in Users,
                        run0 = 0, ret[u] # "HAS_TASKS", ret'[u] = "HAS_TASKS"
                 PROVE  \E t \in pushed : t \notin finished
      OBVIOUS
    <2>1. thread_pool_delete(u) /\ HasTasks
      BY OnlyDeleteRefuses
    <2>2. CASE queue # <<>>
      <3>1. InSeq(queue, Head(queue)) /\ Head(queue) \in Tasks
        BY <2>2, InSeqPop DEF queue_pop, IInv, TypeOK, TaskInOnePlace
      <3> QED BY <3>1 DEF IInv, QueuedInv, Queued
    <2>3. CASE run_threads # 0
      <3>1. Counted # {}
        BY <2>1, <2>3, FS_EmptySet DEF RunCountExact, thread_pool_delete
      <3>2. PICK w \in Workers : wpc[w] \in {"load", "run", "dec"}
        BY <3>1 DEF Counted
      <3> QED BY <3>2 DEF IInv, HeldInv, Holding
    <2> QED BY <2>1, <2>2, <2>3 DEF HasTasks
  <1> QED BY <1>1, Invariance, RunCount, PTL DEF Spec, RefusalsJustified

-----------------------------------------------------------------------------
(* The pool implements TaskPool: under the mapping of ThreadPoolProps      *)
(* (Promise) the initial states are initial states of TaskPool, and every  *)
(* step is a step of TaskPool or changes nothing that its callers can see. *)

Phase == [t \in Tasks |-> PhaseOf(t)]

\* What TaskPool's steps and stutters are, in terms of the pool's state.
Promised == Promise!TaskPoolNext \/ UNCHANGED <<pool, queue, Phase>>

-----------------------------------------------------------------------------
(* The phase of a task.                                                    *)

\* A task's phase depends on its own flags and its place in the queue only.
LEMMA SamePhase ==
    ASSUME NEW t \in Tasks,
           t \in allocated' <=> t \in allocated,
           t \in allocated => /\ t \in pushed' <=> t \in pushed
                              /\ t \in joined' <=> t \in joined
                              /\ t \in finished' <=> t \in finished
                              /\ InSeq(queue', t) <=> InSeq(queue, t)
    PROVE  PhaseOf(t)' = PhaseOf(t)
  BY DEF PhaseOf, Queued

\* The six phases.
LEMMA PhaseCases ==
    ASSUME NEW t \in Tasks
    PROVE  /\ t \notin allocated => PhaseOf(t) = "free"
           /\ t \in allocated \ pushed => PhaseOf(t) = "new"
           /\ t \in allocated \cap pushed =>
                 /\ t \in joined => PhaseOf(t) = "joined"
                 /\ t \notin joined /\ t \in finished => PhaseOf(t) = "finished"
                 /\ t \notin joined \cup finished /\ Queued(t) => PhaseOf(t) = "queued"
                 /\ t \notin joined \cup finished /\ ~Queued(t) => PhaseOf(t) = "running"
  BY DEF PhaseOf

\* A step that changes the phase of one task only is a Move of TaskPool.
LEMMA OneMoves ==
    ASSUME NEW t \in Tasks, NEW from, NEW to,
           PhaseOf(t) \in from, PhaseOf(t)' = to,
           \A x \in Tasks : x # t => PhaseOf(x)' = PhaseOf(x)
    PROVE  Promise!Move(t, from, to)
  BY DEF Promise!Move, Phase

\* A step that leaves the flags, the memory and the queue alone is a stutter.
LEMMA Stutter ==
    ASSUME UNCHANGED <<pool, queue, allocated, pushed, finished, joined>>
    PROVE  Promised
  <1>1. \A t \in Tasks : PhaseOf(t)' = PhaseOf(t)
    BY SamePhase
  <1> QED BY <1>1 DEF Promised, Phase

-----------------------------------------------------------------------------
(* The steps callers can see.                                              *)

\* Lines 84-86: the oldest queued task starts.
LEMMA Fetch_Step ==
    ASSUME IInv, NEW w \in Workers, Fetch(w)
    PROVE  Promised
  <1>1. CASE queue = <<>> \/ shutdown
    BY <1>1, Stutter DEF Fetch, taskVars
  <1>2. CASE queue # <<>> /\ ~shutdown
    <2>1. /\ queue' = queue_pop(queue).rest
          /\ UNCHANGED <<pool, allocated, pushed, finished, joined>>
      BY <1>2 DEF Fetch, taskVars
    <2>2. PICK t \in Tasks : t = queue_pop(queue).task
      BY <1>2, InSeqPop DEF IInv, TypeOK, TaskInOnePlace
    <2>3. InSeq(queue, t) /\ \A x : InSeq(queue', x) <=> InSeq(queue, x) /\ x # t
      BY <1>2, <2>1, <2>2, InSeqPop DEF IInv, TypeOK, TaskInOnePlace
    <2>4. t \in (allocated \cap pushed) \ (finished \cup joined)
      BY <2>3 DEF IInv, QueuedInv, Queued
    <2>5. PhaseOf(t) = "queued"
      BY <2>3, <2>4, PhaseCases DEF Queued
    <2>6. PhaseOf(t)' = "running"
      BY <2>1, <2>3, <2>4 DEF PhaseOf, Queued
    <2>7. \A x \in Tasks : x # t => PhaseOf(x)' = PhaseOf(x)
      BY <2>1, <2>3, SamePhase
    <2>8. Promise!Move(t, {"queued"}, "running")
      BY <2>5, <2>6, <2>7, OneMoves
    <2>9. Promise!Start(t)
      BY <1>2, <2>1, <2>2, <2>8 DEF Promise!Start, queue_pop
    <2> QED BY <2>9 DEF Promised, Promise!TaskPoolNext
  <1> QED BY <1>1, <1>2

\* Line 104: the task is finished.
LEMMA Publish_Step ==
    ASSUME IInv, NEW w \in Workers, Publish(w)
    PROVE  Promised
  <1>1. /\ wpc[w] = "publish" /\ finished' = finished \cup {wtask[w]}
        /\ UNCHANGED <<pool, queue, allocated, pushed, joined>>
    BY DEF Publish, poolVars
  <1>2. PICK t \in Tasks : t = wtask[w]
    BY <1>1 DEF IInv, TypeOK, LocalsInv, Holding
  <1>3. t \in (allocated \cap pushed) \ (joined \cup finished) /\ ~Queued(t)
    BY <1>1, <1>2 DEF IInv, HeldInv, TaskInOnePlace, Holds, Holding
  <1>4. PhaseOf(t) = "running"
    BY <1>3, PhaseCases
  <1>5. PhaseOf(t)' = "finished"
    BY <1>1, <1>2, <1>3 DEF PhaseOf
  <1>6. \A x \in Tasks : x # t => PhaseOf(x)' = PhaseOf(x)
    BY <1>1, <1>2, SamePhase
  <1>7. Promise!Move(t, {"running"}, "finished")
    BY <1>4, <1>5, <1>6, OneMoves
  <1> QED BY <1>1, <1>7 DEF Promise!Finish, Promised, Promise!TaskPoolNext

\* Lines 227 and 265: a join sets `joined' on a finished task; the second of
\* two joins changes nothing.
LEMMA Joined_Step ==
    ASSUME IInv, NEW u \in Users, utask[u] # None, utask[u] \in finished,
           joined' = joined \cup {utask[u]},
           UNCHANGED <<pool, queue, allocated, pushed, finished>>
    PROVE  Promised
  <1>1. PICK t \in Tasks : t = utask[u]
    BY DEF IInv, TypeOK
  <1>2. t \in allocated \cap pushed
    BY <1>1 DEF IInv, CallInv
  <1>3. CASE t \in joined
    <2>1. joined' = joined
      BY <1>1, <1>3
    <2> QED BY <2>1, Stutter
  <1>4. CASE t \notin joined
    <2>1. PhaseOf(t) = "finished"
      BY <1>1, <1>2, <1>4, PhaseCases
    <2>2. PhaseOf(t)' = "joined"
      BY <1>1, <1>2 DEF PhaseOf
    <2>3. \A x \in Tasks : x # t => PhaseOf(x)' = PhaseOf(x)
      BY <1>1, SamePhase
    <2>4. Promise!Move(t, {"finished"}, "joined")
      BY <2>1, <2>2, <2>3, OneMoves
    <2> QED BY <2>4 DEF Promise!Join, Promised, Promise!TaskPoolNext
  <1> QED BY <1>3, <1>4

\* A join, with or without a timeout, waits, gives up or marks its task.
LEMMA JoinLocked_Step ==
    ASSUME IInv, NEW u \in Users, JoinLocked(u) \/ TimedJoinLocked(u)
    PROVE  Promised
  <1>1. utask[u] # None
    BY DEF JoinLocked, TimedJoinLocked, IInv, LocalsInv
  <1>2. UNCHANGED <<pool, queue, allocated, pushed, finished>>
    BY DEF JoinLocked, TimedJoinLocked, poolVars
  <1>3. joined' = joined \/ (utask[u] \in finished /\ joined' = joined \cup {utask[u]})
    BY DEF JoinLocked, TimedJoinLocked
  <1> QED BY <1>1, <1>2, <1>3, Joined_Step, Stutter

\* Lines 276-283: the memory of a task that is outside the pool is given back.
LEMMA Freed_Step ==
    ASSUME IInv, NEW t \in Tasks, t \in allocated, t \in pushed => t \in finished,
           allocated' = allocated \ {t},
           UNCHANGED <<pool, queue, pushed, finished, joined>>
    PROVE  Promised
  <1>1. PhaseOf(t) \in {"new", "finished", "joined"}
    BY PhaseCases
  <1>2. PhaseOf(t)' = "free"
    BY DEF PhaseOf
  <1>3. \A x \in Tasks : x # t => PhaseOf(x)' = PhaseOf(x)
    BY SamePhase
  <1>4. Promise!Move(t, {"new", "finished", "joined"}, "free")
    BY <1>1, <1>2, <1>3, OneMoves
  <1> QED BY <1>4 DEF Promise!Free, Promised, Promise!TaskPoolNext

\* thread_task_delete refuses a task of the pool (line 277) or frees it.
LEMMA thread_task_delete_Step ==
    ASSUME IInv, NEW u \in Users, NEW t \in Tasks, thread_task_delete(u, t)
    PROVE  Promised
  <1>1. t \in allocated \ delete /\ UNCHANGED <<pool, queue, pushed, finished, joined>>
    BY DEF thread_task_delete, MayUse, poolVars
  <1>2. CASE allocated' = allocated
    BY <1>1, <1>2, Stutter
  <1>3. CASE Deletable(t) /\ allocated' = allocated \ {t}
    <2>1. t \in pushed => t \in finished
      BY <1>1, <1>3 DEF Deletable, IInv, FlagsInv
    <2> QED BY <1>1, <1>3, <2>1, Freed_Step
  <1> QED BY <1>2, <1>3 DEF thread_task_delete

\* A detached task that has finished is freed (lines 296-298).
LEMMA DetachCheck_Step ==
    ASSUME IInv, NEW u \in Users, DetachCheck(u)
    PROVE  Promised
  <1>1. UNCHANGED <<pool, queue, pushed, finished, joined>>
    BY DEF DetachCheck, poolVars
  <1>2. PICK t \in Tasks : t = utask[u] /\ t \in allocated
    BY DEF DetachCheck, IInv, TypeOK, LocalsInv, CallInv
  <1>3. CASE allocated' = allocated
    BY <1>1, <1>3, Stutter
  <1>4. CASE t \in finished /\ allocated' = allocated \ {t}
    BY <1>1, <1>2, <1>4, Freed_Step
  <1> QED BY <1>2, <1>3, <1>4 DEF DetachCheck

\* Lines 192-199: a new task, at an address that may have been used before.
LEMMA thread_task_new_Step ==
    ASSUME IInv, NEW u \in Users, NEW t \in Tasks, thread_task_new(u, t)
    PROVE  Promised
  <1>1. /\ t \notin allocated /\ allocated' = allocated \cup {t}
        /\ pushed' = pushed \ {t} /\ finished' = finished \ {t} /\ joined' = joined \ {t}
        /\ UNCHANGED <<pool, queue>>
    BY DEF thread_task_new, poolVars
  <1>2. PhaseOf(t) = "free"
    BY <1>1, PhaseCases
  <1>3. PhaseOf(t)' = "new"
    BY <1>1 DEF PhaseOf
  <1>4. \A x \in Tasks : x # t => PhaseOf(x)' = PhaseOf(x)
    BY <1>1, SamePhase
  <1>5. Promise!Move(t, {"free"}, "new")
    BY <1>2, <1>3, <1>4, OneMoves
  <1> QED BY <1>1, <1>5 DEF Promise!Create, Promised, Promise!TaskPoolNext

\* Lines 170-186: a task goes to the end of the queue, or the push is refused.
LEMMA thread_pool_push_task_Step ==
    ASSUME IInv, NEW u \in Users, NEW t \in Tasks, thread_pool_push_task(u, t)
    PROVE  Promised
  <1>1. /\ pool = "live" /\ t \in allocated /\ (t \notin pushed \/ t \in joined)
        /\ UNCHANGED <<pool, allocated>>
    BY DEF thread_pool_push_task
  <1>2. CASE QueueFull(u)
    BY <1>1, <1>2, Stutter DEF QueueFull
  <1>3. CASE Enqueue(u, t)
    <2>1. /\ queue' = queue_add(queue, t) /\ pushed' = pushed \cup {t}
          /\ finished' = finished \ {t} /\ joined' = joined \ {t}
      BY <1>3 DEF Enqueue, Cleared
    <2>2. \A x : InSeq(queue', x) <=> InSeq(queue, x) \/ x = t
      BY <2>1, InSeqAdd DEF IInv, TypeOK
    <2>3. PhaseOf(t) \in {"new", "joined"}
      BY <1>1, PhaseCases
    <2>4. PhaseOf(t)' = "queued"
      BY <1>1, <2>1, <2>2 DEF PhaseOf, Queued
    <2>5. \A x \in Tasks : x # t => PhaseOf(x)' = PhaseOf(x)
      BY <1>1, <2>1, <2>2, SamePhase
    <2>6. Promise!Move(t, {"new", "joined"}, "queued")
      BY <2>3, <2>4, <2>5, OneMoves
    <2>7. Promise!Push(t)
      BY <1>1, <2>1, <2>6 DEF Promise!Push, queue_add
    <2> QED BY <2>7 DEF Promised, Promise!TaskPoolNext
  <1> QED BY <1>2, <1>3 DEF thread_pool_push_task

\* Lines 113-134: a pool, with an empty queue, or an error.
LEMMA thread_pool_new_Step ==
    ASSUME IInv, NEW u \in Users, NEW n \in Int, thread_pool_new(u, n)
    PROVE  Promised
  <1>1. pool = "none" /\ UNCHANGED <<allocated, pushed, finished, joined>>
    BY DEF thread_pool_new, taskVars
  <1>2. CASE UNCHANGED poolVars
    BY <1>1, <1>2, Stutter DEF poolVars
  <1>3. CASE pool' = "live" /\ queue' = <<>>
    <2>1. queue = <<>>
      BY <1>1 DEF IInv, DeletionInv
    <2>2. \A t \in Tasks : PhaseOf(t)' = PhaseOf(t)
      BY <1>1, <1>3, <2>1, SamePhase
    <2>3. Promise!Open
      BY <1>1, <1>3, <2>1, <2>2 DEF Promise!Open
    <2> QED BY <2>3 DEF Promised, Promise!TaskPoolNext
  <1> QED BY <1>2, <1>3 DEF thread_pool_new

\* Lines 154-162: the pool goes away when nothing is queued or running.
LEMMA PoolFree_Step ==
    ASSUME IInv, NEW u \in Users, PoolFree(u)
    PROVE  Promised
  <1>1. /\ upc[u] = "pool_join" /\ pool' = "none"
        /\ \A w \in 1..cnt_threads : wpc[w] = "exited"
        /\ UNCHANGED <<queue, allocated, pushed, finished, joined>>
    BY DEF PoolFree, taskVars
  <1>2. pool = "live" /\ queue = <<>>
    BY <1>1 DEF IInv, DeletionInv
  <1>3. \A w \in Workers : wpc[w] \in {"none", "exited"}
    BY <1>1 DEF IInv, ThreadsInv, Workers, TypeOK
  <1>4. \A t \in Tasks : ~Queued(t)
    BY <1>2, InSeqEmpty DEF Queued
  <1>5. \A t \in Tasks : PhaseOf(t) \notin {"queued", "running"}
    <2> SUFFICES ASSUME NEW t \in Tasks, t \in allocated \cap pushed, t \notin joined
                 PROVE  t \in finished
      BY PhaseCases
    <2> QED BY <1>3, <1>4 DEF IInv, PushedInv, Holds, Holding
  <1>6. \A t \in Tasks : PhaseOf(t)' = PhaseOf(t)
    BY <1>1, SamePhase
  <1>7. Promise!Close
    BY <1>1, <1>2, <1>5, <1>6 DEF Promise!Close
  <1> QED BY <1>7 DEF Promised, Promise!TaskPoolNext

-----------------------------------------------------------------------------
(* Every step, and the theorem.                                            *)

\* Every step of the pool is a step of TaskPool or a stutter.
LEMMA NextPromised ==
    ASSUME IInv, [Next]_vars
    PROVE  Promised
  <1>1. ASSUME NEW w \in Workers, WorkerStep(w) \/ SpuriousWake(w)
        PROVE  Promised
    <2>1. CASE Load(w) \/ Run(w) \/ Decrement(w) \/ Signal(w) \/ SpuriousWake(w)
      BY <2>1, Stutter DEF Load, Run, Decrement, Signal, SpuriousWake, poolVars, taskVars
    <2> QED BY <1>1, <2>1, Fetch_Step, Publish_Step DEF WorkerStep
  <1>2. ASSUME NEW u \in Users, CallStep(u) \/ SpuriousJoinWake(u)
        PROVE  Promised
    <2>1. CASE JoinResult(u) \/ TimedWake(u) \/ SpuriousJoinWake(u)
      BY <2>1, Stutter DEF JoinResult, TimedWake, SpuriousJoinWake, poolVars, taskVars
    <2> QED BY <1>2, <2>1, PoolFree_Step, JoinLocked_Step, DetachCheck_Step DEF CallStep
  <1>3. ASSUME NEW u \in Users, Call(u)
        PROVE  Promised
    <2>1. CASE thread_pool_delete(u)
      BY <2>1, Stutter DEF thread_pool_delete, taskVars
    <2>2. ASSUME NEW t \in Tasks, NEW timeout \in Int,
                 \/ thread_task_join(u, t) \/ thread_task_timed_join(u, t, timeout)
                 \/ thread_task_detach(u, t)
          PROVE  Promised
      BY <2>2, Stutter DEF thread_task_join, thread_task_timed_join, thread_task_detach,
                           poolVars, taskVars
    <2> QED BY <1>3, <2>1, <2>2, thread_pool_new_Step, thread_task_new_Step,
               thread_pool_push_task_Step, thread_task_delete_Step DEF Call
  <1>4. CASE UNCHANGED vars
    BY <1>4, Stutter DEF vars, poolVars, taskVars
  <1> QED BY <1>1, <1>2, <1>3, <1>4 DEF Next

\* Under every interleaving of any number of workers and callers, and with any
\* garbage in run_threads, the pool behaves like TaskPool (thread_pool.h): FIFO
\* starts, one run per push, results after the run, nothing freed or closed early.
THEOREM PoolImplementsTaskPool ==
    ASSUME DetachWhen # "any"
    PROVE  Spec => ImplementsTaskPool
  <1>1. Init => Promise!TaskPoolInit
    <2> SUFFICES ASSUME Init PROVE Promise!TaskPoolInit
      OBVIOUS
    <2>1. \A t \in Tasks : PhaseOf(t) = "free"
      BY PhaseCases DEF Init
    <2> QED BY <2>1 DEF Init, Promise!TaskPoolInit
  <1>2. IInv /\ [Next]_vars => [Promise!TaskPoolNext]_(Promise!tpVars)
    BY NextPromised DEF Promised, Promise!tpVars, Phase
  <1> QED BY <1>1, <1>2, Invariance, PTL DEF Spec, ImplementsTaskPool, Promise!TaskPoolSpec
=============================================================================
