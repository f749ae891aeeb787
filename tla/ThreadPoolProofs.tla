--------------------------- MODULE ThreadPoolProofs ---------------------------
(***************************************************************************)
(* Proofs about ThreadPool for every number of callers and threads, every  *)
(* set of ranges and every sequence of calls: its types, the orders its    *)
(* steps keep, and the lives of the pool's threads.                        *)
(***************************************************************************)
EXTENDS ThreadPool, FiniteSetTheorems, TLAPS

-----------------------------------------------------------------------------
(* Types.                                                                  *)

\* The sets of threads are finite and no caller is a worker.
LEMMA ProcsFacts ==
    /\ IsFiniteSet(Procs)
    /\ \A c \in Callers : c \in Procs /\ c \notin Workers
    /\ \A w \in Workers : w \in Procs /\ w \notin Callers /\ TidOf(w) \in Tids
<1>1. IsFiniteSet(Tids) /\ IsFiniteSet(1 .. Generations)
  BY FS_Interval, SizesAssumption DEF Tids
<1>2. IsFiniteSet(Workers)
  BY <1>1, FS_Product DEF Workers
<1>3. IsFiniteSet(Procs)
  BY <1>2, FS_Union, CallersAssumption DEF Procs
<1>4. QED
  BY <1>3, CallersAssumption DEF Procs, Workers, TidOf

\* All that the proofs use of INT_MAX, which is left unexpanded below.
LEMMA DoneFacts == DONE \in Nat /\ DONE > 1
BY SMT DEF DONE

\* Every step keeps the types, whatever the constants.
LEMMA TypeOKStep == TypeOK /\ [Next]_vars => TypeOK'
<1> SUFFICES ASSUME TypeOK, [Next]_vars
             PROVE  TypeOK'
  OBVIOUS
<1> USE ProcsFacts, DoneFacts, CallersAssumption, SizesAssumption, JobsAssumption, ExecutorsAssumption
<1> USE DEF TypeOK, Goto, LeaveEnsure, AfterWrapUp, CallerGoesTo, WorkerGoesTo,
            CallerPCs, WorkerPCs, EnsurePCs, RunPCs, WrapPCs, SelfId,
            sizeVars, jobVars, execVars, sharedVars, scanVars, runVars, callVars,
            localVars, vars
<1>1. ASSUME NEW c \in Callers, NEW r \in Ranges, CallParallelize(c, r) PROVE TypeOK'
  BY <1>1 DEF CallParallelize
<1>2. ASSUME NEW c \in Callers, LockAndPrepare(c) PROVE TypeOK'
  BY <1>2 DEF LockAndPrepare, Smaller
<1>3. ASSUME NEW c \in Callers, Publish(c) PROVE TypeOK'
  BY <1>3 DEF Publish
<1>4. ASSUME NEW p \in Procs, EnsureStart(p) PROVE TypeOK'
  <2>1. SelfId(p) \in Nat
    BY DEF Procs, Tids
  <2>2. QED
    BY <1>4, <2>1 DEF EnsureStart
<1>5. ASSUME NEW p \in Procs, EnsureScan(p) PROVE TypeOK'
  BY <1>5 DEF EnsureScan
<1>6. ASSUME NEW p \in Workers, EnsureCheck(p) PROVE TypeOK'
  BY <1>6 DEF EnsureCheck
<1>7. ASSUME NEW p \in Procs, EnsureExchange(p) PROVE TypeOK'
  <2>1. isActive' \in [Tids -> {0, 1}]
    BY <1>7 DEF EnsureExchange
  <2>2. cursor' \in [Procs -> Nat]
    BY <1>7 DEF EnsureExchange
  <2>3. QED
    <3>1. pc' \in [Procs -> CallerPCs \cup WorkerPCs \cup EnsurePCs \cup RunPCs \cup WrapPCs]
      BY <1>7 DEF EnsureExchange
    <3>2. \A c \in Callers : pc'[c] \notin WorkerPCs
      BY <1>7 DEF EnsureExchange
    <3>3. \A w \in Workers : pc'[w] \notin CallerPCs
      BY <1>7 DEF EnsureExchange
    <3>4. QED
      BY <1>7, <2>1, <2>2, <3>1, <3>2, <3>3 DEF EnsureExchange
<1>8. ASSUME NEW p \in Procs, EnsureRegister(p) PROVE TypeOK'
  BY <1>8 DEF EnsureRegister, Registered
<1>9. ASSUME NEW p \in Procs, TakeItem(p) PROVE TypeOK'
  BY <1>9 DEF TakeItem
<1>10. ASSUME NEW p \in Procs, FinishItem(p) PROVE TypeOK'
  BY <1>10 DEF FinishItem
<1>11. ASSUME NEW p \in Procs, LeaveWork(p) PROVE TypeOK'
  BY <1>11 DEF LeaveWork
<1>12. ASSUME NEW p \in Procs, WrapLoad(p) PROVE TypeOK'
  BY <1>12 DEF WrapLoad
<1>13. ASSUME NEW p \in Procs, WrapFlip(p) PROVE TypeOK'
  BY <1>13 DEF WrapFlip, FirstOut
<1>14. ASSUME NEW p \in Procs, WrapAdd(p) PROVE TypeOK'
  BY <1>14 DEF WrapAdd
<1>15. ASSUME NEW p \in Procs, NEW w \in Workers, EnsureSchedule(p, w) PROVE TypeOK'
  BY <1>15 DEF EnsureSchedule
<1>16. ASSUME NEW c \in Callers, AwaitDone(c) PROVE TypeOK'
  BY <1>16 DEF AwaitDone, TakenDown
<1>17. ASSUME NEW c \in Callers, Restore(c) PROVE TypeOK'
  BY <1>17 DEF Restore, CountAfterJob
<1>18. ASSUME NEW c \in Callers, NEW n \in 0 .. (MaxThreads + 1), SetThreadsCount(c, n) PROVE TypeOK'
  BY <1>18 DEF SetThreadsCount, Feasible, Smaller
<1>19. ASSUME NEW c \in Callers, ReleaseExecutorThreads(c) PROVE TypeOK'
  BY <1>19 DEF ReleaseExecutorThreads
<1>20. ASSUME NEW c \in Callers, NEW e \in Executors, UpdateExecutor(c, e) PROVE TypeOK'
  BY <1>20 DEF UpdateExecutor
<1>21. ASSUME NEW c \in Callers, SwapExecutor(c) PROVE TypeOK'
  BY <1>21 DEF SwapExecutor
<1>22. ASSUME NEW c \in Callers, SwapContext(c) PROVE TypeOK'
  BY <1>22 DEF SwapContext
<1>23. ASSUME NEW c \in Callers, Destroy(c) PROVE TypeOK'
  BY <1>23 DEF Destroy
<1>24. ASSUME NEW c \in Callers, Free(c) PROVE TypeOK'
  BY <1>24 DEF Free
<1>25. ASSUME NEW w \in Workers, Start(w) PROVE TypeOK'
  BY <1>25 DEF Start, Running
<1>26. ASSUME NEW w \in Workers, Reload(w) PROVE TypeOK'
  BY <1>26 DEF Reload
<1>27. ASSUME NEW w \in Workers, Wait(w) PROVE TypeOK'
  BY <1>27 DEF Wait
<1>28. ASSUME NEW w \in Workers, GiveBack(w) PROVE TypeOK'
  BY <1>28 DEF GiveBack
<1>29. ASSUME NEW w \in Workers, TryJoin(w) PROVE TypeOK'
  BY <1>29 DEF TryJoin, Running
<1>30. ASSUME NEW w \in Workers, Admit(w) PROVE TypeOK'
  <2>1. IdInJob(w) \in Int
    BY DEF IdInJob, Tids
  <2>2. QED
    BY <1>30, <2>1 DEF Admit
<1>31. ASSUME NEW w \in Workers, SignalDone(w) PROVE TypeOK'
  BY <1>31 DEF SignalDone
<1>32. ASSUME NEW w \in Workers, Leave(w) PROVE TypeOK'
  BY <1>32 DEF Leave
<1>33. ASSUME NEW w \in Workers, Recheck(w) PROVE TypeOK'
  BY <1>33 DEF Recheck, Staying
<1>34. ASSUME NEW w \in Workers, Reacquire(w) PROVE TypeOK'
  BY <1>34 DEF Reacquire
<1>35. ASSUME NEW w \in Workers, Release(w) PROVE TypeOK'
  BY <1>35 DEF Release, Released
<1>36. ASSUME NEW w \in Workers, SignalRecruited(w) PROVE TypeOK'
  BY <1>36 DEF SignalRecruited
<1>37. CASE UNCHANGED vars
  BY <1>37
<1> HIDE DEF TypeOK, vars
<1>38. QED
  BY <1>1, <1>2, <1>3, <1>4, <1>5, <1>6, <1>7, <1>8, <1>9, <1>10,
     <1>11, <1>12, <1>13, <1>14, <1>15, <1>16, <1>17, <1>18, <1>19, <1>20,
     <1>21, <1>22, <1>23, <1>24, <1>25, <1>26, <1>27, <1>28, <1>29, <1>30,
     <1>31, <1>32, <1>33, <1>34, <1>35, <1>36, <1>37
     DEF Next, WorkerStep, WorkerMove, SharedStep, CallerStep, CallerMove, ApplicationStep,
         Terminated

\* The pool is created with these types.
LEMMA TypeOKInit == Init => TypeOK
<1> SUFFICES ASSUME Init PROVE TypeOK
  OBVIOUS
<1>1. \A p \in Procs : pc[p] \in {"idle", "start", "exited"}
  BY DEF Init
<1>2. \A c \in Callers : pc[c] = "idle"
  BY ProcsFacts DEF Init
<1>3. \A w \in Workers : pc[w] \in {"start", "exited"}
  BY ProcsFacts DEF Init
<1>4. pc = [p \in Procs |-> pc[p]]
  BY DEF Init
<1>5. pc \in [Procs -> CallerPCs \cup WorkerPCs \cup EnsurePCs \cup RunPCs \cup WrapPCs]
  BY <1>1, <1>4 DEF CallerPCs, WorkerPCs
<1>6. numRecruited \in Int
  BY SizesAssumption DEF Init
<1>7. executor \in Executors \cup {NoExecutor} /\ executorContext \in Executors \cup {NoExecutor}
  BY ExecutorsAssumption DEF Init
<1>8. /\ isActive \in [Tids -> {0, 1}]
      /\ curr \in [Procs -> Int] /\ threadId \in [Procs -> Int]
      /\ cursor \in [Procs -> Nat] /\ limit \in [Procs -> Nat] /\ toStart \in [Procs -> Int]
      /\ target \in [Callers -> Executors \cup {NoExecutor}]
  BY DEF Init
<1>9. /\ lastJobId \in [Workers -> 0 .. (JobIdModulus - 1)]
      /\ range \in [Callers -> Ranges \cup {0}]
      /\ prevThreads \in [Callers -> 0 .. MaxThreads]
      /\ threadsCount \in 0 .. MaxThreads
      /\ jobId \in 0 .. (JobIdModulus - 1)
  BY SizesAssumption, JobsAssumption DEF Init
<1>10. /\ numActive \in Int /\ workIsDone \in {0, 1} /\ remaining \in Nat
       /\ executionMutex \in Callers \cup {Nobody}
  BY DEF Init
<1>11. freed \in BOOLEAN
  BY DEF Init
<1>12. (\A c \in Callers : pc[c] \notin WorkerPCs) /\ (\A w \in Workers : pc[w] \notin CallerPCs)
  BY <1>2, <1>3 DEF CallerPCs, WorkerPCs
<1>13. QED
  BY <1>5, <1>6, <1>7, <1>8, <1>9, <1>10, <1>11, <1>12 DEF TypeOK

\* No variable ever leaves its type: in particular threads_count never exceeds
\* max_num_threads, whatever the application asks for and however jobs reduce
\* and restore it.
THEOREM TypeCorrect == Spec => []TypeOK
BY TypeOKInit, TypeOKStep, PTL DEF Spec

-----------------------------------------------------------------------------
(* num_active_threads counts the threads of the job.  The count alone is   *)
(* not inductive: that the stores of 1 and of DONE meet no participant     *)
(* follows from who holds execution_mutex, that a job with participants    *)
(* has its caller still waiting for them, and that work_is_done is raised  *)
(* only for such a caller and when nobody is left.                         *)

OwnsMutex(c) == InJob(c) \/ pc[c] \in {"swapExecutor", "swapContext"}

MutexHeld == \A c \in Callers : executionMutex = c <=> OwnsMutex(c)

\* A caller that has published its job and not yet seen the end of it.
Waits(c) == c \in Callers /\ (c \in Participants \/ pc[c] = "awaitDone")

JobHasCaller == Participants # {} => \E c \in Callers : Waits(c)

\* A thread that has seen the wrap-up under way sees it until it has left.
WrapUpSeen == \A p \in Procs :
    /\ pc[p] = "wrapAdd" => numActive <= 0
    /\ pc[p] = "wrapFlip" => curr[p] > 0

\* All are out and the caller waits to hear it.
AllOut == Participants = {} /\ \E c \in Callers : pc[c] = "awaitDone"

DoneOnce ==
    /\ workIsDone = 1 => AllOut
    /\ \A w \in Workers : pc[w] = "signalDone" =>
          /\ AllOut
          /\ workIsDone = 0
          /\ \A v \in Workers : pc[v] = "signalDone" => v = w

CountInv == TypeOK /\ ActiveCount /\ MutexHeld /\ JobHasCaller /\ WrapUpSeen /\ DoneOnce

\* The threads in a job are finitely many, fewer than DONE.
LEMMA ParticipantsFacts ==
    /\ Participants \subseteq Procs
    /\ IsFiniteSet(Participants)
    /\ Cardinality(Participants) \in Nat
    /\ Cardinality(Participants) < DONE
    /\ Cardinality(Participants) = 0 <=> Participants = {}
<1>1. Participants \subseteq Procs
  BY DEF Participants
<1>2. /\ IsFiniteSet(Participants) /\ Cardinality(Participants) \in Nat
      /\ Cardinality(Procs) \in Nat /\ Cardinality(Participants) <= Cardinality(Procs)
  BY <1>1, ProcsFacts, FS_Subset, FS_CardinalityType
<1>3. Cardinality(Participants) < DONE
  BY <1>2, SizesAssumption, DoneFacts
<1>4. QED
  BY <1>1, <1>2, <1>3, FS_EmptySet

\* Once nobody waits for a job there is nothing left of it.
LEMMA NobodyWaits ==
    ASSUME CountInv, \A c \in Callers : ~Waits(c)
    PROVE  /\ Participants = {} /\ workIsDone = 0 /\ numActive \in {0, DONE}
           /\ \A w \in Workers : pc[w] # "signalDone"
           /\ \A c \in Callers : pc[c] # "awaitDone"
<1>1. Participants = {}
  BY DEF CountInv, JobHasCaller
<1>2. \A c \in Callers : pc[c] # "awaitDone"
  BY DEF Waits
<1>3. workIsDone = 0 /\ \A w \in Workers : pc[w] # "signalDone"
  BY <1>2 DEF CountInv, DoneOnce, AllOut, TypeOK
<1>4. numActive \in {0, DONE}
  BY <1>1, ParticipantsFacts, FS_EmptySet, DoneFacts DEF CountInv, ActiveCount, TypeOK
<1>5. QED
  BY <1>1, <1>2, <1>3, <1>4

\* A caller that holds execution_mutex outside the waits is in nobody's way.
LEMMA OwnerAlone ==
    ASSUME CountInv,
           \/ executionMutex = Nobody
           \/ \E c \in Callers : executionMutex = c /\ ~Waits(c)
    PROVE  \A c \in Callers : ~Waits(c)
<1>1. ASSUME NEW c \in Callers, Waits(c) PROVE executionMutex = c
  <2>1. pc[c] \in EnsurePCs \cup RunPCs \cup WrapPCs \cup {"awaitDone"}
    BY <1>1, ProcsFacts DEF Waits, Participants, CountInv, TypeOK, WorkerPCs
  <2>2. QED
    BY <2>1 DEF CountInv, MutexHeld, OwnsMutex, InJob
<1>2. QED
  BY <1>1, CallersAssumption

\* A step that moves nobody into or out of the job and leaves the protocol's
\* variables alone.
Quiet ==
    /\ UNCHANGED <<numActive, workIsDone, executionMutex>>
    /\ Participants' = Participants
    /\ \A c \in Callers : /\ OwnsMutex(c)' <=> OwnsMutex(c)
                          /\ pc'[c] = "awaitDone" <=> pc[c] = "awaitDone"
    /\ \A w \in Workers : pc'[w] = "signalDone" => pc[w] = "signalDone"
    /\ \A p \in Procs : /\ pc'[p] = "wrapAdd" => pc[p] = "wrapAdd"
                        /\ pc'[p] = "wrapFlip" => pc[p] = "wrapFlip" /\ curr'[p] = curr[p]

\* A step that moves no thread into or out of a job keeps the count.
LEMMA QuietKeeps == CountInv /\ TypeOK' /\ Quiet => CountInv'
<1> SUFFICES ASSUME CountInv, TypeOK', Quiet PROVE CountInv'
  OBVIOUS
<1>1. ActiveCount'
  BY DEF CountInv, ActiveCount, Quiet
<1>2. MutexHeld'
  BY DEF CountInv, MutexHeld, Quiet
<1>3. JobHasCaller'
  BY DEF CountInv, JobHasCaller, Waits, Quiet
<1>4. WrapUpSeen'
  BY DEF CountInv, WrapUpSeen, Quiet
<1>5. AllOut <=> AllOut'
  BY DEF AllOut, Quiet
<1>6. DoneOnce'
  BY <1>5 DEF CountInv, DoneOnce, Quiet
<1>7. QED
  BY <1>1, <1>2, <1>3, <1>4, <1>6 DEF CountInv
\* Most steps are quiet.
LEMMA QuietSteps ==
    ASSUME TypeOK, TypeOK',
           \/ \E p \in Procs : \/ EnsureStart(p) \/ EnsureScan(p) \/ EnsureExchange(p)
                               \/ EnsureRegister(p) \/ TakeItem(p) \/ FinishItem(p)
                               \/ LeaveWork(p) \/ \E w \in Workers : EnsureSchedule(p, w)
           \/ \E c \in Callers : \/ \E r \in Ranges : CallParallelize(c, r)
                                 \/ \E n \in 0 .. (MaxThreads + 1) : SetThreadsCount(c, n)
                                 \/ SwapExecutor(c) \/ Free(c)
           \/ \E w \in Workers : \/ EnsureCheck(w) \/ Start(w) \/ Reload(w) \/ Wait(w)
                                 \/ GiveBack(w) \/ Admit(w) \/ Leave(w) \/ Recheck(w)
                                 \/ Reacquire(w) \/ Release(w) \/ SignalRecruited(w)
           \/ UNCHANGED vars
    PROVE  Quiet
<1> USE ProcsFacts
<1> USE DEF TypeOK, Goto, Quiet, Participants, OwnsMutex, InJob,
            CallerPCs, WorkerPCs, EnsurePCs, RunPCs, WrapPCs,
            sizeVars, jobVars, execVars, sharedVars, scanVars, runVars, callVars,
            localVars, vars
<1>1. ASSUME NEW c \in Callers, NEW r \in Ranges, CallParallelize(c, r) PROVE Quiet
  BY <1>1 DEF CallParallelize
<1>2. ASSUME NEW p \in Procs, EnsureStart(p) PROVE Quiet
  BY <1>2 DEF EnsureStart, LeaveEnsure
<1>3. ASSUME NEW p \in Procs, EnsureScan(p) PROVE Quiet
  BY <1>3 DEF EnsureScan, LeaveEnsure
<1>4. ASSUME NEW p \in Procs, EnsureExchange(p) PROVE Quiet
  BY <1>4 DEF EnsureExchange
<1>5. ASSUME NEW p \in Procs, EnsureRegister(p) PROVE Quiet
  BY <1>5 DEF EnsureRegister
<1>6. ASSUME NEW p \in Procs, TakeItem(p) PROVE Quiet
  BY <1>6 DEF TakeItem
<1>7. ASSUME NEW p \in Procs, FinishItem(p) PROVE Quiet
  BY <1>7 DEF FinishItem
<1>8. ASSUME NEW p \in Procs, LeaveWork(p) PROVE Quiet
  BY <1>8 DEF LeaveWork
<1>9. ASSUME NEW p \in Workers, EnsureCheck(p) PROVE Quiet
  BY <1>9 DEF EnsureCheck, LeaveEnsure
<1>10. ASSUME NEW p \in Procs, NEW w \in Workers, EnsureSchedule(p, w) PROVE Quiet
  BY <1>10 DEF EnsureSchedule
<1>11. ASSUME NEW c \in Callers, NEW n \in 0 .. (MaxThreads + 1), SetThreadsCount(c, n) PROVE Quiet
  BY <1>11 DEF SetThreadsCount
<1>12. ASSUME NEW c \in Callers, SwapExecutor(c) PROVE Quiet
  BY <1>12 DEF SwapExecutor
<1>13. ASSUME NEW c \in Callers, Free(c) PROVE Quiet
  BY <1>13 DEF Free
<1>14. ASSUME NEW w \in Workers, Start(w) PROVE Quiet
  BY <1>14 DEF Start
<1>15. ASSUME NEW w \in Workers, Reload(w) PROVE Quiet
  BY <1>15 DEF Reload
<1>16. ASSUME NEW w \in Workers, Wait(w) PROVE Quiet
  BY <1>16 DEF Wait
<1>17. ASSUME NEW w \in Workers, GiveBack(w) PROVE Quiet
  BY <1>17 DEF GiveBack
<1>18. ASSUME NEW w \in Workers, Admit(w) PROVE Quiet
  BY <1>18 DEF Admit
<1>19. ASSUME NEW w \in Workers, Leave(w) PROVE Quiet
  BY <1>19 DEF Leave
<1>20. ASSUME NEW w \in Workers, Recheck(w) PROVE Quiet
  BY <1>20 DEF Recheck
<1>21. ASSUME NEW w \in Workers, Reacquire(w) PROVE Quiet
  BY <1>21 DEF Reacquire
<1>22. ASSUME NEW w \in Workers, Release(w) PROVE Quiet
  BY <1>22 DEF Release
<1>23. ASSUME NEW w \in Workers, SignalRecruited(w) PROVE Quiet
  BY <1>23 DEF SignalRecruited
<1>24. CASE UNCHANGED vars
  BY <1>24
<1> HIDE DEF TypeOK, Quiet, vars
<1>25. QED
  BY <1>1, <1>2, <1>3, <1>4, <1>5, <1>6, <1>7, <1>8, <1>9, <1>10,
     <1>11, <1>12, <1>13, <1>14, <1>15, <1>16, <1>17, <1>18, <1>19, <1>20,
     <1>21, <1>22, <1>23, <1>24
\* One thread more or less.
LEMMA JoinCount ==
    ASSUME NEW p \in Procs, p \notin Participants, Participants' = Participants \cup {p}
    PROVE  Cardinality(Participants') = Cardinality(Participants) + 1
BY ParticipantsFacts, FS_AddElement

\* One thread fewer in the job is one fewer in the count.
LEMMA LeaveCount ==
    ASSUME NEW p \in Participants, Participants' = Participants \ {p}
    PROVE  Cardinality(Participants') = Cardinality(Participants) - 1
BY ParticipantsFacts, FS_RemoveElement

\* The steps that take or drop execution_mutex while nobody waits for a job,
\* the stores of DONE among them.
LEMMA MutexSteps ==
    ASSUME CountInv, TypeOK', NEW c \in Callers,
           \/ LockAndPrepare(c) \/ Restore(c) \/ ReleaseExecutorThreads(c)
           \/ \E e \in Executors : UpdateExecutor(c, e)
           \/ SwapContext(c) \/ Destroy(c)
    PROVE  CountInv'
<1> USE ProcsFacts
<1>1. \/ executionMutex = Nobody
      \/ executionMutex = c /\ ~Waits(c)
  <2>1. CASE LockAndPrepare(c) \/ \E e \in Executors : UpdateExecutor(c, e)
    BY <2>1 DEF LockAndPrepare, UpdateExecutor
  <2>2. CASE Restore(c) \/ SwapContext(c)
    BY <2>2 DEF Restore, SwapContext, CountInv, MutexHeld, OwnsMutex, InJob, Waits,
                Participants, EnsurePCs, RunPCs, WrapPCs
  <2>3. CASE ReleaseExecutorThreads(c) \/ Destroy(c)
    BY <2>3 DEF ReleaseExecutorThreads, Destroy, CountInv, MutexHeld, OwnsMutex, InJob,
                TypeOK, EnsurePCs, RunPCs, WrapPCs
  <2>4. QED
    BY <2>1, <2>2, <2>3
<1>2. /\ Participants = {} /\ workIsDone = 0 /\ numActive \in {0, DONE}
      /\ \A w \in Workers : pc[w] # "signalDone"
      /\ \A d \in Callers : pc[d] # "awaitDone"
  BY <1>1, OwnerAlone, NobodyWaits
<1>3. /\ numActive' \in {numActive, DONE} /\ workIsDone' = workIsDone
      /\ \A p \in Procs \ {c} : pc'[p] = pc[p]
      /\ pc'[c] \in {"idle", "publish", "swapExecutor", "awaitThreads"}
  BY DEF LockAndPrepare, Restore, ReleaseExecutorThreads, UpdateExecutor, SwapContext, Destroy,
         Goto, CountInv, TypeOK, sizeVars, jobVars, execVars, sharedVars
<1>4. Participants' = {}
  BY <1>2, <1>3 DEF Participants, EnsurePCs, RunPCs, WrapPCs
<1>5. ActiveCount'
  BY <1>2, <1>3, <1>4, FS_EmptySet DEF ActiveCount
<1>6. MutexHeld'
  <2>1. \A d \in Callers \ {c} : ~OwnsMutex(d) /\ ~OwnsMutex(d)'
    BY <1>1, <1>3, CallersAssumption DEF CountInv, MutexHeld, OwnsMutex, InJob
  <2>2. executionMutex' = c <=> OwnsMutex(c)'
    BY <1>1, CallersAssumption
       DEF LockAndPrepare, Restore, ReleaseExecutorThreads, UpdateExecutor, SwapContext, Destroy,
           Goto, CountInv, MutexHeld, TypeOK, OwnsMutex, InJob, EnsurePCs, RunPCs, WrapPCs,
           sizeVars, jobVars, execVars, sharedVars
  <2>3. executionMutex' \in {c, Nobody}
    BY <1>1
       DEF LockAndPrepare, Restore, ReleaseExecutorThreads, UpdateExecutor, SwapContext, Destroy,
           sizeVars, jobVars, execVars, sharedVars
  <2>4. QED
    BY <2>1, <2>2, <2>3, CallersAssumption DEF MutexHeld
<1>7. JobHasCaller'
  BY <1>4 DEF JobHasCaller
<1>8. WrapUpSeen'
  BY <1>4 DEF WrapUpSeen, Participants, WrapPCs
<1>9. DoneOnce'
  BY <1>2, <1>3 DEF DoneOnce
<1>10. QED
  BY <1>5, <1>6, <1>7, <1>8, <1>9 DEF CountInv
\* The store that publishes a job finds no participant of an earlier one.
LEMMA PublishStep ==
    ASSUME CountInv, TypeOK', NEW c \in Callers, Publish(c)
    PROVE  CountInv'
<1> USE ProcsFacts
<1>1. executionMutex = c /\ ~Waits(c)
  BY DEF Publish, CountInv, MutexHeld, OwnsMutex, InJob, Waits, Participants,
         EnsurePCs, RunPCs, WrapPCs
<1>2. /\ Participants = {} /\ workIsDone = 0
      /\ \A w \in Workers : pc[w] # "signalDone"
      /\ \A d \in Callers : pc[d] # "awaitDone"
  BY <1>1, OwnerAlone, NobodyWaits
<1>3. /\ numActive' = 1 /\ workIsDone' = 0 /\ executionMutex' = executionMutex
      /\ \A p \in Procs \ {c} : pc'[p] = pc[p]
      /\ pc[c] = "publish" /\ pc'[c] = "ensStart"
  BY <1>2 DEF Publish, Goto, CountInv, TypeOK, sizeVars, jobVars, sharedVars
<1>4. Participants' = Participants \cup {c}
  BY <1>2, <1>3 DEF Participants, EnsurePCs, RunPCs, WrapPCs
<1>5. ActiveCount'
  BY <1>2, <1>3, <1>4, JoinCount, FS_EmptySet DEF ActiveCount
<1>6. MutexHeld'
  BY <1>1, <1>3 DEF CountInv, MutexHeld, OwnsMutex, InJob, EnsurePCs
<1>7. JobHasCaller'
  BY <1>4 DEF JobHasCaller, Waits
<1>8. WrapUpSeen'
  BY <1>2, <1>3 DEF WrapUpSeen, Participants, WrapPCs
<1>9. DoneOnce'
  BY <1>2, <1>3 DEF DoneOnce
<1>10. QED
  BY <1>5, <1>6, <1>7, <1>8, <1>9 DEF CountInv

\* A worker that finds the count it expects joins a job that has participants.
LEMMA JoinStep ==
    ASSUME CountInv, TypeOK', NEW w \in Workers, TryJoin(w)
    PROVE  CountInv'
<1> USE ProcsFacts
<1>1. CASE numActive # curr[w]
  <2>1. Quiet
    BY <1>1 DEF TryJoin, Goto, Quiet, Participants, OwnsMutex, InJob, CountInv, TypeOK,
                sizeVars, jobVars, sharedVars
  <2>2. QED
    BY <2>1, QuietKeeps
<1>2. CASE numActive = curr[w]
  <2>1. /\ numActive > 0 /\ numActive # DONE /\ numActive' = numActive + 1
        /\ UNCHANGED <<workIsDone, executionMutex, curr>>
        /\ \A p \in Procs \ {w} : pc'[p] = pc[p]
        /\ pc[w] = "loop" /\ pc'[w] = "joined"
    BY <1>2 DEF TryJoin, Running, Goto, CountInv, TypeOK, sizeVars, jobVars, sharedVars
  <2>2. numActive = Cardinality(Participants) /\ Participants # {}
    BY <2>1, ParticipantsFacts DEF CountInv, ActiveCount, TypeOK
  <2>3. Participants' = Participants \cup {w} /\ w \notin Participants
    BY <2>1 DEF Participants, EnsurePCs, RunPCs, WrapPCs
  <2>4. ActiveCount'
    <3>1. Cardinality(Participants') = Cardinality(Participants) + 1
      BY <2>3, JoinCount
    <3>2. numActive' > 0 /\ numActive' = Cardinality(Participants')
      BY <2>1, <2>2, <3>1, ParticipantsFacts
    <3>3. QED
      BY <3>2 DEF ActiveCount
  <2>5. MutexHeld'
    BY <2>1 DEF CountInv, MutexHeld, OwnsMutex, InJob
  <2>6. JobHasCaller'
    BY <2>1, <2>2, <2>3 DEF CountInv, JobHasCaller, Waits
  <2>7. WrapUpSeen'
    BY <2>1 DEF CountInv, WrapUpSeen, TypeOK
  <2>8. DoneOnce'
    BY <2>1, <2>2 DEF CountInv, DoneOnce, AllOut
  <2>9. QED
    BY <2>4, <2>5, <2>6, <2>7, <2>8 DEF CountInv
<1>3. QED
  BY <1>1, <1>2

\* A participant that looks at the count learns whether the wrap-up has begun.
LEMMA LookStep ==
    ASSUME CountInv, TypeOK', NEW p \in Procs,
           WrapLoad(p) \/ (WrapFlip(p) /\ numActive # curr[p])
    PROVE  CountInv'
<1> USE ProcsFacts
<1>1. /\ UNCHANGED <<numActive, workIsDone, executionMutex>>
      /\ pc[p] \in WrapPCs /\ pc'[p] = IF numActive > 0 THEN "wrapFlip" ELSE "wrapAdd"
      /\ curr'[p] = numActive
      /\ \A q \in Procs \ {p} : pc'[q] = pc[q] /\ curr'[q] = curr[q]
  BY DEF WrapLoad, WrapFlip, Goto, WrapPCs, CountInv, TypeOK, sizeVars, jobVars, sharedVars
<1>2. Participants' = Participants
  BY <1>1 DEF Participants, WrapPCs, RunPCs, EnsurePCs
<1>3. ActiveCount'
  BY <1>1, <1>2 DEF CountInv, ActiveCount
<1>4. MutexHeld'
  BY <1>1 DEF CountInv, MutexHeld, OwnsMutex, InJob, WrapPCs
<1>5. JobHasCaller'
  BY <1>1, <1>2 DEF CountInv, JobHasCaller, Waits, WrapPCs
<1>6. WrapUpSeen'
  BY <1>1 DEF CountInv, WrapUpSeen, TypeOK
<1>7. AllOut <=> AllOut'
  BY <1>1, <1>2 DEF AllOut, WrapPCs
<1>8. DoneOnce'
  BY <1>1, <1>7 DEF CountInv, DoneOnce, WrapPCs
<1>9. QED
  BY <1>3, <1>4, <1>5, <1>6, <1>8 DEF CountInv

\* A participant leaves: the count falls by one and is negative from then on;
\* if it was the last and a worker, its caller is waiting to be told.
LEMMA DepartStep ==
    ASSUME CountInv, TypeOK', NEW p \in Procs, pc[p] \in WrapPCs,
           numActive' = -(Cardinality(Participants) - 1),
           AfterWrapUp(p, numActive'), UNCHANGED <<sharedVars, localVars>>
    PROVE  CountInv'
<1> USE ProcsFacts
<1>1. /\ UNCHANGED <<workIsDone, executionMutex>>
      /\ \A q \in Procs \ {p} : pc'[q] = pc[q] /\ curr'[q] = curr[q]
      /\ p \in Callers => pc'[p] = IF numActive' = 0 THEN "restore" ELSE "awaitDone"
      /\ p \in Workers => pc'[p] = IF numActive' = 0 THEN "signalDone" ELSE "loop"
      /\ pc'[p] \in {"restore", "awaitDone", "signalDone", "loop"}
  BY DEF AfterWrapUp, CallerGoesTo, WorkerGoesTo, Goto, CountInv, TypeOK, Procs,
         sizeVars, jobVars, sharedVars
<1>2. p \in Participants
  BY DEF Participants
<1>3. Participants' = Participants \ {p}
  BY <1>1 DEF Participants, WrapPCs, RunPCs, EnsurePCs
<1>4. /\ numActive' = -Cardinality(Participants') /\ numActive' \in Int /\ numActive' <= 0
      /\ numActive' = 0 <=> Participants' = {}
  <2>1. Cardinality(Participants') = Cardinality(Participants) - 1
    BY <1>2, <1>3, LeaveCount
  <2>2. IsFiniteSet(Participants') /\ Cardinality(Participants') \in Nat
    BY <1>3, ParticipantsFacts, FS_Subset, FS_CardinalityType
  <2>3. Cardinality(Participants') = 0 <=> Participants' = {}
    BY <2>2, FS_EmptySet
  <2>4. QED
    BY <2>1, <2>2, <2>3, ParticipantsFacts
<1>5. PICK c \in Callers : Waits(c)
  BY <1>2 DEF CountInv, JobHasCaller
<1>6. /\ workIsDone = 0 /\ \A w \in Workers : pc[w] # "signalDone"
  BY <1>2 DEF CountInv, DoneOnce, AllOut, TypeOK
<1>7. ActiveCount'
  BY <1>4 DEF ActiveCount
<1>8. MutexHeld'
  BY <1>1 DEF CountInv, MutexHeld, OwnsMutex, InJob, WrapPCs
<1>9. JobHasCaller'
  <2>1. CASE c = p
    BY <2>1, <1>1, <1>4 DEF JobHasCaller, Waits
  <2>2. CASE c # p
    BY <2>2, <1>1, <1>3, <1>5 DEF JobHasCaller, Waits
  <2>3. QED
    BY <2>1, <2>2
<1>10. WrapUpSeen'
  BY <1>1, <1>4 DEF CountInv, WrapUpSeen
<1>11. DoneOnce'
  <2>1. CASE p \in Workers /\ numActive' = 0
    <3>1. Participants' = {} /\ c # p
      BY <2>1, <1>4
    <3>2. pc'[c] = "awaitDone"
      BY <3>1, <1>1, <1>3, <1>5 DEF Waits
    <3>3. QED
      BY <3>1, <3>2, <1>1, <1>6 DEF DoneOnce, AllOut
  <2>2. CASE ~(p \in Workers /\ numActive' = 0)
    BY <2>2, <1>1, <1>6 DEF DoneOnce
  <2>3. QED
    BY <2>1, <2>2
<1>12. QED
  BY <1>7, <1>8, <1>9, <1>10, <1>11 DEF CountInv

\* Both ways out of thread_wrap_up are such departures.
LEMMA WrapUpStep ==
    ASSUME CountInv, TypeOK', NEW p \in Procs,
           WrapAdd(p) \/ (WrapFlip(p) /\ numActive = curr[p])
    PROVE  CountInv'
<1>1. pc[p] \in WrapPCs /\ p \in Participants
  BY DEF WrapAdd, WrapFlip, WrapPCs, Participants
<1>2. numActive \in Int /\ (numActive > 0 => numActive = Cardinality(Participants))
                        /\ (numActive <= 0 => numActive = -Cardinality(Participants))
  BY <1>1, DoneFacts DEF CountInv, ActiveCount, TypeOK
<1>3. CASE WrapAdd(p)
  <2>1. numActive <= 0
    BY <1>3 DEF WrapAdd, CountInv, WrapUpSeen
  <2>2. numActive' = numActive + 1 /\ AfterWrapUp(p, numActive')
    BY <1>3 DEF WrapAdd
  <2>3. numActive' = -(Cardinality(Participants) - 1)
    BY <2>1, <2>2, <1>2, ParticipantsFacts
  <2>4. QED
    BY <1>1, <1>3, <2>2, <2>3, DepartStep DEF WrapAdd
<1>4. CASE WrapFlip(p) /\ numActive = curr[p]
  <2>1. numActive > 0
    BY <1>4 DEF WrapFlip, CountInv, WrapUpSeen
  <2>2. numActive' = -(numActive - 1) /\ AfterWrapUp(p, numActive')
    BY <1>4 DEF WrapFlip, FirstOut
  <2>3. numActive' = -(Cardinality(Participants) - 1)
    BY <2>1, <2>2, <1>2
  <2>4. QED
    BY <1>1, <1>4, <2>2, <2>3, DepartStep DEF WrapFlip
<1>5. QED
  BY <1>3, <1>4

\* The flag is raised for a waiting caller, once, and lowered by it.
LEMMA DoneSteps ==
    ASSUME CountInv, TypeOK',
           \/ \E w \in Workers : SignalDone(w)
           \/ \E c \in Callers : AwaitDone(c)
    PROVE  CountInv'
<1> USE ProcsFacts
<1>1. ASSUME NEW w \in Workers, SignalDone(w) PROVE CountInv'
  <2>1. /\ UNCHANGED <<numActive, executionMutex, curr>> /\ workIsDone' = 1
        /\ \A q \in Procs \ {w} : pc'[q] = pc[q]
        /\ pc[w] = "signalDone" /\ pc'[w] = "loop"
    BY <1>1 DEF SignalDone, Goto, CountInv, TypeOK, sizeVars
  <2>2. Participants' = Participants
    BY <2>1 DEF Participants, WrapPCs, RunPCs, EnsurePCs
  <2>3. AllOut /\ \A v \in Workers : pc[v] = "signalDone" => v = w
    BY <2>1 DEF CountInv, DoneOnce
  <2>4. AllOut' /\ \A v \in Workers : pc'[v] # "signalDone"
    BY <2>1, <2>2, <2>3 DEF AllOut
  <2>5. DoneOnce'
    BY <2>1, <2>4 DEF DoneOnce
  <2>6. ActiveCount' /\ JobHasCaller'
    BY <2>1, <2>2 DEF CountInv, ActiveCount, JobHasCaller, Waits
  <2>7. MutexHeld' /\ WrapUpSeen'
    BY <2>1 DEF CountInv, MutexHeld, OwnsMutex, InJob, WrapUpSeen
  <2>8. QED
    BY <2>5, <2>6, <2>7 DEF CountInv
<1>2. ASSUME NEW c \in Callers, AwaitDone(c) PROVE CountInv'
  <2>1. /\ UNCHANGED <<numActive, executionMutex, curr>> /\ workIsDone = 1 /\ workIsDone' = 0
        /\ \A q \in Procs \ {c} : pc'[q] = pc[q]
        /\ pc[c] = "awaitDone" /\ pc'[c] = "restore"
    BY <1>2 DEF AwaitDone, TakenDown, Goto, CountInv, TypeOK, sizeVars
  <2>2. Participants' = Participants
    BY <2>1 DEF Participants, WrapPCs, RunPCs, EnsurePCs
  <2>3. Participants = {} /\ \A w \in Workers : pc[w] # "signalDone"
    BY <2>1 DEF CountInv, DoneOnce, AllOut
  <2>4. DoneOnce'
    BY <2>1, <2>3 DEF DoneOnce
  <2>5. ActiveCount' /\ JobHasCaller'
    BY <2>1, <2>2, <2>3 DEF CountInv, ActiveCount, JobHasCaller
  <2>6. MutexHeld' /\ WrapUpSeen'
    BY <2>1 DEF CountInv, MutexHeld, OwnsMutex, InJob, WrapUpSeen
  <2>7. QED
    BY <2>4, <2>5, <2>6 DEF CountInv
<1>3. QED
  BY <1>1, <1>2

\* Every step keeps the count of the threads in a job ...
LEMMA CountInvStep == CountInv /\ [Next]_vars => CountInv'
<1> SUFFICES ASSUME CountInv, [Next]_vars PROVE CountInv'
  OBVIOUS
<1>1. TypeOK /\ TypeOK'
  BY TypeOKStep DEF CountInv
<1>2. ASSUME NEW w \in Workers, WorkerStep(w) PROVE CountInv'
  BY <1>1, <1>2, ProcsFacts, QuietSteps, QuietKeeps, JoinStep, LookStep, WrapUpStep, DoneSteps
     DEF WorkerStep, WorkerMove, SharedStep
<1>3. ASSUME NEW c \in Callers, CallerStep(c) PROVE CountInv'
  BY <1>1, <1>3, ProcsFacts, QuietSteps, QuietKeeps, MutexSteps, PublishStep, LookStep,
     WrapUpStep, DoneSteps
     DEF CallerStep, CallerMove, SharedStep
<1>4. ASSUME NEW c \in Callers, ApplicationStep(c) PROVE CountInv'
  BY <1>1, <1>4, QuietSteps, QuietKeeps, MutexSteps DEF ApplicationStep
<1>5. CASE UNCHANGED vars
  BY <1>1, <1>5, QuietSteps, QuietKeeps
<1>6. QED
  BY <1>2, <1>3, <1>4, <1>5 DEF Next, Terminated

\* ... which a new pool has ...
LEMMA CountInvInit == Init => CountInv
<1> SUFFICES ASSUME Init PROVE CountInv
  OBVIOUS
<1>1. TypeOK
  BY TypeOKInit
<1>2. \A p \in Procs : pc[p] \in {"idle", "start", "exited"}
  BY DEF Init
<1>3. numActive = 0 /\ workIsDone = 0 /\ executionMutex = Nobody
  BY DEF Init
<1>4. Participants = {}
  BY <1>2, ProcsFacts DEF Participants, EnsurePCs, RunPCs, WrapPCs
<1>5. ActiveCount
  BY <1>3, <1>4, FS_EmptySet DEF ActiveCount
<1>6. MutexHeld
  BY <1>2, <1>3, ProcsFacts, CallersAssumption
     DEF MutexHeld, OwnsMutex, InJob, EnsurePCs, RunPCs, WrapPCs
<1>7. JobHasCaller /\ WrapUpSeen /\ DoneOnce
  BY <1>2, <1>3, <1>4, ProcsFacts DEF JobHasCaller, WrapUpSeen, DoneOnce
<1>8. QED
  BY <1>1, <1>5, <1>6, <1>7 DEF CountInv

\* ... so it is always right.
LEMMA CountInvariant == Spec => []CountInv
BY CountInvInit, CountInvStep, PTL DEF Spec

\* num_active_threads is exact in every interleaving of the store that begins a
\* job, the compare-and-swaps and the fetch-and-add of its threads, and DONE.
THEOREM CountIsExact == Spec => []ActiveCount
BY CountInvariant, PTL DEF CountInv

\* The assertions of pthreadpool_parallelize, pthreadpool_release_all_threads,
\* thread_wrap_up and signal_work_is_done never fail.
THEOREM AssertionsNeverFail == Spec => []AssertionsHold
<1>1. CountInv => AssertionsHold
  <2> SUFFICES ASSUME CountInv PROVE AssertionsHold
    OBVIOUS
  <2>1. ASSUME executionMutex = Nobody PROVE numActive \in {0, DONE}
    BY <2>1, OwnerAlone, NobodyWaits
  <2>2. ASSUME NEW p \in Procs, pc[p] = "wrapLoad" PROVE numActive \notin {0, DONE}
    <3>1. p \in Participants
      BY <2>2 DEF Participants, WrapPCs
    <3>2. QED
      BY <3>1, ParticipantsFacts, DoneFacts DEF CountInv, ActiveCount, TypeOK
  <2>3. \A w \in Workers : pc[w] = "signalDone" => workIsDone = 0
    BY DEF CountInv, DoneOnce
  <2>4. QED
    BY <2>1, <2>2, <2>3 DEF AssertionsHold
<1>2. QED
  BY <1>1, CountInvariant, PTL

-----------------------------------------------------------------------------
(* The stores that others are told of.                                     *)

\* The steps that store nothing which is announced.
StoreFree ==
    \/ \E w \in Workers : WorkerStep(w)
    \/ \E c \in Callers : \/ CallerMove(c) \/ AwaitDone(c) \/ Free(c)
                          \/ \E r \in Ranges : CallParallelize(c, r)
                          \/ \E n \in 0 .. (MaxThreads + 1) : SetThreadsCount(c, n)
    \/ UNCHANGED vars

\* Only the stores that are announced make num_active_threads positive.
LEMMA OnlyStoresRaise ==
    ASSUME CountInv, TypeOK', StoreFree
    PROVE  numActive' > 0 => /\ numActive > 0
                             /\ numActive' # numActive => numActive # DONE /\ Participants' # {}
<1> DEFINE Unraised ==
         numActive' > 0 => /\ numActive > 0
                           /\ numActive' # numActive => numActive # DONE /\ Participants' # {}
<1> USE DEF Goto
<1>1. ASSUME NEW p \in Procs, WrapFlip(p) PROVE Unraised
  <2>1. curr[p] > 0 /\ curr[p] \in Int
    BY <1>1, DoneFacts DEF WrapFlip, CountInv, WrapUpSeen, TypeOK
  <2>2. CASE numActive = curr[p]
    BY <1>1, <2>1, <2>2 DEF WrapFlip, FirstOut
  <2>3. CASE numActive # curr[p]
    BY <1>1, <2>3 DEF WrapFlip
  <2>4. QED
    BY <2>2, <2>3
<1>2. ASSUME NEW p \in Procs, WrapAdd(p) PROVE Unraised
  <2>1. p \in Participants /\ numActive <= 0
    BY <1>2 DEF WrapAdd, CountInv, WrapUpSeen, Participants, WrapPCs
  <2>2. numActive = -Cardinality(Participants) /\ Cardinality(Participants) # 0
    BY <2>1, ParticipantsFacts, DoneFacts DEF CountInv, ActiveCount
  <2>3. numActive' <= 0
    BY <1>2, <2>2, ParticipantsFacts DEF WrapAdd
  <2>4. QED
    BY <2>3, <1>2 DEF WrapAdd, CountInv, TypeOK
<1>3. ASSUME NEW w \in Workers, TryJoin(w) PROVE Unraised
  <2>1. CASE numActive = curr[w]
    <3>1. pc'[w] = "joined"
      BY <1>3, <2>1, ProcsFacts DEF TryJoin, CountInv, TypeOK
    <3>2. w \in Participants'
      BY <3>1, ProcsFacts DEF Participants
    <3>3. QED
      BY <1>3, <2>1, <3>2 DEF TryJoin, Running
  <2>2. CASE numActive # curr[w]
    BY <1>3, <2>2 DEF TryJoin
  <2>3. QED
    BY <2>1, <2>2
<1>4. ASSUME NEW p \in Procs, SharedStep(p) PROVE Unraised
  BY <1>1, <1>2, <1>4
     DEF SharedStep, EnsureStart, EnsureScan, EnsureExchange, EnsureRegister, EnsureSchedule,
         TakeItem, FinishItem, LeaveWork, WrapLoad
<1>5. ASSUME NEW w \in Workers, WorkerStep(w) PROVE Unraised
  BY <1>3, <1>4, <1>5, ProcsFacts
     DEF WorkerStep, WorkerMove, Start, EnsureCheck, Reload, GiveBack, Admit, Leave, Recheck,
         Reacquire, Release, Wait, SignalDone, SignalRecruited
<1>6. ASSUME NEW c \in Callers, CallerMove(c) PROVE Unraised
  BY <1>4, <1>6, ProcsFacts
     DEF CallerMove, LockAndPrepare, Restore, SwapExecutor, SwapContext
<1>7. QED
  BY <1>5, <1>6 DEF StoreFree, AwaitDone, Free, CallParallelize, SetThreadsCount, vars

\* None of those steps makes it DONE, either.
LEMMA DoneIsStored ==
    ASSUME CountInv, CountInv', StoreFree
    PROVE  numActive' = DONE => numActive = DONE
<1> SUFFICES ASSUME numActive' = DONE, numActive' # numActive PROVE FALSE
  OBVIOUS
<1>1. Participants' # {}
  BY OnlyStoresRaise, DoneFacts DEF CountInv
<1>2. IsFiniteSet(Participants') /\ Cardinality(Participants') < DONE
  <2>1. Participants' \subseteq Procs
    BY DEF Participants
  <2>2. /\ IsFiniteSet(Participants') /\ Cardinality(Participants') \in Nat
        /\ Cardinality(Procs) \in Nat /\ Cardinality(Participants') <= Cardinality(Procs)
    BY <2>1, ProcsFacts, FS_Subset, FS_CardinalityType
  <2>3. QED
    BY <2>2, SizesAssumption, DoneFacts
<1>3. QED
  BY <1>1, <1>2, DoneFacts DEF CountInv, ActiveCount

\* threads_count changes only while no job runs.
LEMMA CountChanges ==
    ASSUME CountInv, StoreFree
    PROVE  threadsCount' = threadsCount \/ (numActive \in {0, DONE} /\ numActive' = numActive)
<1> DEFINE Goal == threadsCount' = threadsCount
                   \/ (numActive \in {0, DONE} /\ numActive' = numActive)
<1> USE DEF sizeVars, sharedVars
<1>1. ASSUME NEW p \in Procs, SharedStep(p) PROVE Goal
  BY <1>1 DEF SharedStep, EnsureStart, EnsureScan, EnsureExchange, EnsureRegister,
              EnsureSchedule, TakeItem, FinishItem, LeaveWork, WrapLoad, WrapFlip, WrapAdd
<1>2. ASSUME NEW w \in Workers, WorkerStep(w) PROVE Goal
  BY <1>1, <1>2, ProcsFacts
     DEF WorkerStep, WorkerMove, Start, EnsureCheck, Reload, GiveBack, TryJoin, Admit, Leave,
         Recheck, Reacquire, Release, Wait, SignalDone, SignalRecruited
<1>3. ASSUME NEW c \in Callers,
             \/ LockAndPrepare(c) \/ Restore(c)
             \/ \E n \in 0 .. (MaxThreads + 1) : SetThreadsCount(c, n)
      PROVE  Goal
  <2>1. executionMutex = Nobody \/ (executionMutex = c /\ ~Waits(c))
    BY <1>3 DEF LockAndPrepare, Restore, SetThreadsCount, CountInv, MutexHeld, OwnsMutex, InJob,
                Waits, Participants, EnsurePCs, RunPCs, WrapPCs
  <2>2. numActive \in {0, DONE}
    BY <2>1, OwnerAlone, NobodyWaits
  <2>3. numActive' = numActive
    BY <1>3 DEF LockAndPrepare, Restore, SetThreadsCount
  <2>4. QED
    BY <2>2, <2>3
<1>4. ASSUME NEW c \in Callers, CallerMove(c) PROVE Goal
  BY <1>1, <1>3, <1>4, ProcsFacts DEF CallerMove, SwapExecutor, SwapContext
<1>5. QED
  BY <1>2, <1>3, <1>4 DEF StoreFree, AwaitDone, Free, CallParallelize, vars

-----------------------------------------------------------------------------
(***************************************************************************)
(* The lives of the pool's threads, for every number of threads and every  *)
(* sequence of calls.  pthreadpool_destroy frees the pool only when no     *)
(* thread can touch it any more: num_recruited_threads counts exactly the  *)
(* threads that are scheduled or about to be; a pool without an executor   *)
(* has no other threads than the ones it joins; and nobody uses a pool     *)
(* that is being destroyed.  And a thread_info that an executor's threads  *)
(* run on has one thread at a time.                                        *)
(***************************************************************************)

\* The activations of thread_main that pthreadpool_release has not taken out,
\* and the threads between a registration and the schedule it announces.
Counted     == {w \in Workers : pc[w] \notin {"exited", "signalRecruited"}}
Registering == {p \in Procs : pc[p] = "ensSchedule"}

\* A pool that runs threads of its own has one per tid and schedules no other,
\* and pthreadpool_update_executor never takes an executor away.
OwnThreads ==
    /\ executor = NoExecutor =>
          /\ \A w \in Workers : w[2] # 1 => pc[w] = "exited"
          /\ \A p \in Procs : pc[p] \notin {"ensScan", "ensCheck", "ensExchange",
                                            "ensRegister", "ensSchedule"}
    /\ \A c \in Callers : pc[c] = "swapExecutor" => target[c] \in Executors

\* From pthreadpool_destroy on all the other callers are outside the pool, and
\* once it is freed so is everybody.
Quiesced ==
    /\ \A c \in Callers : pc[c] = "awaitThreads" =>
          ~freed /\ \A d \in Callers \ {c} : pc[d] = "idle"
    /\ freed => /\ \A c \in Callers : pc[c] = "idle"
                /\ \A w \in Workers : pc[w] \in {"exited", "signalRecruited"}

LifeInv == TypeOK /\ RecruitedCount /\ OwnThreads /\ Quiesced

\* The sets of threads that RecruitedCount counts are finite.
LEMMA LifeSetsFacts ==
    /\ Counted \subseteq Procs /\ IsFiniteSet(Counted) /\ Cardinality(Counted) \in Nat
    /\ Cardinality(Counted) = 0 <=> Counted = {}
    /\ Registering \subseteq Procs /\ IsFiniteSet(Registering) /\ Cardinality(Registering) \in Nat
    /\ Cardinality(Registering) = 0 <=> Registering = {}
<1>1. Counted \subseteq Procs /\ Registering \subseteq Procs
  BY ProcsFacts DEF Counted, Registering
<1>2. IsFiniteSet(Counted) /\ IsFiniteSet(Registering)
  BY <1>1, ProcsFacts, FS_Subset
<1>3. QED
  BY <1>1, <1>2, FS_CardinalityType, FS_EmptySet

\* RecruitedCount in terms of the two sets.
LEMMA RecruitedFacts ==
    /\ RecruitedCount <=> numRecruited = Cardinality(Counted) + Cardinality(Registering)
    /\ RecruitedCount' <=> numRecruited' = Cardinality(Counted') + Cardinality(Registering')
BY DEF RecruitedCount, Counted, Registering

\* A step after which the count and what it counts are as they were.
Steady ==
    /\ OwnThreads' /\ Quiesced'
    /\ numRecruited' = numRecruited /\ Counted' = Counted /\ Registering' = Registering

\* A step that creates, takes out and frees nothing keeps the lives.
LEMMA SteadyKeeps == LifeInv /\ TypeOK' /\ Steady => LifeInv'
BY DEF LifeInv, Steady, RecruitedCount, Counted, Registering

\* All steps are steady but a registration, a schedule, a release and the end.
LEMMA SteadySteps ==
    ASSUME LifeInv, TypeOK',
           \/ \E p \in Procs : \/ EnsureStart(p) \/ EnsureScan(p) \/ EnsureExchange(p)
                               \/ TakeItem(p) \/ FinishItem(p) \/ LeaveWork(p)
                               \/ WrapLoad(p) \/ WrapFlip(p) \/ WrapAdd(p)
           \/ \E c \in Callers : \/ LockAndPrepare(c) \/ Publish(c) \/ AwaitDone(c)
                                 \/ Restore(c) \/ SwapExecutor(c) \/ SwapContext(c)
                                 \/ ApplicationStep(c)
           \/ \E w \in Workers : \/ EnsureCheck(w) \/ Start(w) \/ Reload(w) \/ Wait(w)
                                 \/ GiveBack(w) \/ TryJoin(w) \/ Admit(w) \/ SignalDone(w)
                                 \/ Leave(w) \/ Recheck(w) \/ Reacquire(w)
                                 \/ SignalRecruited(w)
           \/ UNCHANGED vars
    PROVE  Steady
<1> USE ProcsFacts, ExecutorsAssumption
<1> USE DEF LifeInv, TypeOK, Goto, Steady, OwnThreads, Quiesced, Counted, Registering,
            CallerPCs, WorkerPCs, EnsurePCs, RunPCs, WrapPCs,
            sizeVars, jobVars, execVars, sharedVars, scanVars, runVars, callVars,
            localVars, vars
<1>1. ASSUME NEW c \in Callers, NEW r \in Ranges, CallParallelize(c, r) PROVE Steady
  BY <1>1 DEF CallParallelize, Usable
<1>2. ASSUME NEW c \in Callers, LockAndPrepare(c) PROVE Steady
  BY <1>2 DEF LockAndPrepare
<1>3. ASSUME NEW c \in Callers, Publish(c) PROVE Steady
  BY <1>3 DEF Publish
<1>4. ASSUME NEW c \in Callers, AwaitDone(c) PROVE Steady
  BY <1>4 DEF AwaitDone
<1>5. ASSUME NEW c \in Callers, Restore(c) PROVE Steady
  BY <1>5 DEF Restore
<1>6. ASSUME NEW c \in Callers, SwapExecutor(c) PROVE Steady
  BY <1>6 DEF SwapExecutor
<1>7. ASSUME NEW c \in Callers, SwapContext(c) PROVE Steady
  BY <1>7 DEF SwapContext
<1>8. ASSUME NEW c \in Callers, ReleaseExecutorThreads(c) PROVE Steady
  BY <1>8 DEF ReleaseExecutorThreads, Usable
<1>9. ASSUME NEW c \in Callers, Destroy(c) PROVE Steady
  BY <1>9 DEF Destroy, Usable
<1>10. ASSUME NEW c \in Callers, NEW n \in 0 .. (MaxThreads + 1), SetThreadsCount(c, n) PROVE Steady
  BY <1>10 DEF SetThreadsCount, Usable
<1>11. ASSUME NEW c \in Callers, NEW e \in Executors, UpdateExecutor(c, e) PROVE Steady
  BY <1>11 DEF UpdateExecutor, Usable
<1>12. ASSUME NEW p \in Procs, EnsureStart(p) PROVE Steady
  BY <1>12 DEF EnsureStart, LeaveEnsure
<1>13. ASSUME NEW p \in Procs, EnsureScan(p) PROVE Steady
  BY <1>13 DEF EnsureScan, LeaveEnsure
<1>14. ASSUME NEW p \in Procs, EnsureExchange(p) PROVE Steady
  BY <1>14 DEF EnsureExchange
<1>15. ASSUME NEW p \in Procs, TakeItem(p) PROVE Steady
  BY <1>15 DEF TakeItem
<1>16. ASSUME NEW p \in Procs, FinishItem(p) PROVE Steady
  BY <1>16 DEF FinishItem
<1>17. ASSUME NEW p \in Procs, LeaveWork(p) PROVE Steady
  BY <1>17 DEF LeaveWork
<1>18. ASSUME NEW p \in Procs, WrapLoad(p) PROVE Steady
  BY <1>18 DEF WrapLoad
<1>19. ASSUME NEW p \in Procs, WrapFlip(p) PROVE Steady
  BY <1>19 DEF WrapFlip, AfterWrapUp, CallerGoesTo, WorkerGoesTo
<1>20. ASSUME NEW p \in Procs, WrapAdd(p) PROVE Steady
  BY <1>20 DEF WrapAdd, AfterWrapUp, CallerGoesTo, WorkerGoesTo
<1>21. ASSUME NEW w \in Workers, EnsureCheck(w) PROVE Steady
  <2>1. /\ pc[w] = "ensCheck" /\ UNCHANGED <<numRecruited, executor, target, freed>>
        /\ \E label \in {"reload", "ensExchange"} : pc' = [pc EXCEPT ![w] = label]
    BY <1>21 DEF EnsureCheck, LeaveEnsure
  <2>2. QED
    BY <2>1
<1>22. ASSUME NEW w \in Workers, Start(w) PROVE Steady
  BY <1>22 DEF Start
<1>23. ASSUME NEW w \in Workers, Reload(w) PROVE Steady
  BY <1>23 DEF Reload
<1>24. ASSUME NEW w \in Workers, Wait(w) PROVE Steady
  BY <1>24 DEF Wait
<1>25. ASSUME NEW w \in Workers, GiveBack(w) PROVE Steady
  BY <1>25 DEF GiveBack
<1>26. ASSUME NEW w \in Workers, TryJoin(w) PROVE Steady
  BY <1>26 DEF TryJoin
<1>27. ASSUME NEW w \in Workers, Admit(w) PROVE Steady
  BY <1>27 DEF Admit
<1>28. ASSUME NEW w \in Workers, SignalDone(w) PROVE Steady
  BY <1>28 DEF SignalDone
<1>29. ASSUME NEW w \in Workers, Leave(w) PROVE Steady
  BY <1>29 DEF Leave
<1>30. ASSUME NEW w \in Workers, Recheck(w) PROVE Steady
  BY <1>30 DEF Recheck
<1>31. ASSUME NEW w \in Workers, Reacquire(w) PROVE Steady
  BY <1>31 DEF Reacquire
<1>32. ASSUME NEW w \in Workers, SignalRecruited(w) PROVE Steady
  BY <1>32 DEF SignalRecruited
<1>33. CASE UNCHANGED vars
  BY <1>33
<1> HIDE DEF LifeInv, TypeOK, Steady, vars
<1>34. QED
  BY <1>1, <1>2, <1>3, <1>4, <1>5, <1>6, <1>7, <1>8, <1>9, <1>10,
     <1>11, <1>12, <1>13, <1>14, <1>15, <1>16, <1>17, <1>18, <1>19, <1>20,
     <1>21, <1>22, <1>23, <1>24, <1>25, <1>26, <1>27, <1>28, <1>29, <1>30,
     <1>31, <1>32, <1>33
     DEF ApplicationStep

\* The registration comes before the thread it announces ...
LEMMA RegisterStep ==
    ASSUME LifeInv, TypeOK', NEW p \in Procs, EnsureRegister(p)
    PROVE  LifeInv'
<1> USE ProcsFacts
<1>1. /\ pc[p] = "ensRegister" /\ pc' = [pc EXCEPT ![p] = "ensSchedule"]
      /\ numRecruited' = numRecruited + 1
      /\ UNCHANGED <<executor, target, freed>>
  BY DEF EnsureRegister, Registered, Goto, sizeVars, localVars, callVars
<1>2. Counted' = Counted
  BY <1>1 DEF LifeInv, TypeOK, Counted
<1>3. Registering' = Registering \cup {p} /\ p \notin Registering
  BY <1>1 DEF LifeInv, TypeOK, Registering
<1>4. Cardinality(Registering') = Cardinality(Registering) + 1
  BY <1>3, LifeSetsFacts, FS_AddElement
<1>5. RecruitedCount'
  BY <1>1, <1>2, <1>4, LifeSetsFacts, RecruitedFacts DEF LifeInv, TypeOK
<1>6. OwnThreads' /\ Quiesced'
  BY <1>1 DEF LifeInv, TypeOK, OwnThreads, Quiesced
<1>7. QED
  BY <1>5, <1>6 DEF LifeInv

\* ... which takes its place in the count.
LEMMA ScheduleStep ==
    ASSUME LifeInv, TypeOK', NEW p \in Procs, NEW w \in Workers, EnsureSchedule(p, w)
    PROVE  LifeInv'
<1> USE ProcsFacts
<1>1. /\ pc[p] = "ensSchedule" /\ pc[w] = "exited"
      /\ pc' = [pc EXCEPT ![p] = "ensScan", ![w] = "start"]
      /\ UNCHANGED <<numRecruited, executor, target, freed>>
  BY DEF EnsureSchedule, sizeVars, execVars, sharedVars, callVars
<1>2. Counted' = Counted \cup {w} /\ w \notin Counted
  BY <1>1 DEF LifeInv, TypeOK, Counted
<1>3. Registering' = Registering \ {p} /\ p \in Registering
  BY <1>1 DEF LifeInv, TypeOK, Registering
<1>4. /\ Cardinality(Counted') = Cardinality(Counted) + 1
      /\ Cardinality(Registering') = Cardinality(Registering) - 1
  BY <1>2, <1>3, LifeSetsFacts, FS_AddElement, FS_RemoveElement
<1>5. RecruitedCount'
  BY <1>1, <1>4, LifeSetsFacts, RecruitedFacts DEF LifeInv, TypeOK
<1>6. OwnThreads'
  BY <1>1 DEF LifeInv, TypeOK, OwnThreads
<1>7. Quiesced'
  <2>1. ~freed
    BY <1>1 DEF LifeInv, Quiesced, Procs
  <2>2. \A c \in Callers : /\ pc'[c] = "awaitThreads" => pc[c] = "awaitThreads"
                           /\ pc[c] = "idle" => pc'[c] = "idle"
    BY <1>1 DEF LifeInv, TypeOK
  <2>3. QED
    BY <1>1, <2>1, <2>2 DEF LifeInv, Quiesced
<1>8. QED
  BY <1>5, <1>6, <1>7 DEF LifeInv

\* A thread that takes itself out is counted no more.
LEMMA ReleaseStep ==
    ASSUME LifeInv, TypeOK', NEW w \in Workers, Release(w)
    PROVE  LifeInv'
<1> USE ProcsFacts
<1>1. /\ pc[w] = "release" /\ numRecruited' = numRecruited - 1
      /\ \A q \in Procs \ {w} : pc'[q] = pc[q]
      /\ pc'[w] \in {"exited", "signalRecruited"}
      /\ UNCHANGED <<executor, target, freed>>
  BY DEF Release, Released, Goto, LifeInv, TypeOK, sizeVars, callVars
<1>2. Counted' = Counted \ {w} /\ w \in Counted
  BY <1>1 DEF LifeInv, TypeOK, Counted
<1>3. Registering' = Registering
  BY <1>1 DEF LifeInv, TypeOK, Registering
<1>4. Cardinality(Counted') = Cardinality(Counted) - 1
  BY <1>2, LifeSetsFacts, FS_RemoveElement
<1>5. RecruitedCount'
  BY <1>1, <1>3, <1>4, LifeSetsFacts, RecruitedFacts DEF LifeInv, TypeOK
<1>6. OwnThreads'
  BY <1>1 DEF LifeInv, TypeOK, OwnThreads
<1>7. Quiesced'
  BY <1>1 DEF LifeInv, TypeOK, Quiesced
<1>8. QED
  BY <1>5, <1>6, <1>7 DEF LifeInv

\* What pthreadpool_destroy has waited for leaves no thread behind.
LEMMA FreeStep ==
    ASSUME LifeInv, TypeOK', NEW c \in Callers, Free(c)
    PROVE  LifeInv'
<1> USE ProcsFacts
<1>1. /\ pc[c] = "awaitThreads" /\ AllThreadsGone /\ freed' = TRUE
      /\ pc' = [pc EXCEPT ![c] = "idle"]
      /\ UNCHANGED <<numRecruited, executor, target>>
  BY DEF Free, Goto, execVars, localVars, callVars
<1>2. \A w \in Workers : pc[w] \in {"exited", "signalRecruited"}
  <2>1. CASE executor = NoExecutor
    <3>1. \A w \in Workers : w[2] # 1 => pc[w] = "exited"
      BY <2>1 DEF LifeInv, OwnThreads
    <3>2. \A t \in Tids : pc[<<t, 1>>] = "exited"
      BY <2>1, <1>1 DEF AllThreadsGone
    <3>3. \A w \in Workers : w[2] = 1 => pc[w] = "exited"
      BY <3>2 DEF Workers
    <3>4. QED
      BY <3>1, <3>3
  <2>2. CASE executor # NoExecutor
    <3>1. Cardinality(Counted) + Cardinality(Registering) = 0
      BY <2>2, <1>1 DEF AllThreadsGone, LifeInv, RecruitedCount, Counted, Registering
    <3>2. Counted = {}
      BY <3>1, LifeSetsFacts
    <3>3. QED
      BY <3>2 DEF Counted
  <2>3. QED
    BY <2>1, <2>2
<1>3. Counted' = Counted /\ Registering' = Registering
  BY <1>1 DEF LifeInv, TypeOK, Counted, Registering
<1>4. RecruitedCount'
  BY <1>1, <1>3 DEF LifeInv, RecruitedCount, Counted, Registering
<1>5. OwnThreads'
  BY <1>1 DEF LifeInv, TypeOK, OwnThreads
<1>6. Quiesced'
  BY <1>1, <1>2 DEF LifeInv, TypeOK, Quiesced
<1>7. QED
  BY <1>4, <1>5, <1>6 DEF LifeInv

\* Every step keeps the lives of the threads ...
LEMMA LifeInvStep == LifeInv /\ [Next]_vars => LifeInv'
<1> SUFFICES ASSUME LifeInv, [Next]_vars PROVE LifeInv'
  OBVIOUS
<1>1. TypeOK'
  BY TypeOKStep DEF LifeInv
<1>2. ASSUME NEW w \in Workers, WorkerStep(w) PROVE LifeInv'
  BY <1>1, <1>2, ProcsFacts, SteadySteps, SteadyKeeps, RegisterStep, ScheduleStep, ReleaseStep
     DEF WorkerStep, WorkerMove, SharedStep
<1>3. ASSUME NEW c \in Callers, CallerStep(c) PROVE LifeInv'
  BY <1>1, <1>3, ProcsFacts, SteadySteps, SteadyKeeps, RegisterStep, ScheduleStep, FreeStep
     DEF CallerStep, CallerMove, SharedStep
<1>4. ASSUME NEW c \in Callers, ApplicationStep(c) PROVE LifeInv'
  BY <1>1, <1>4, SteadySteps, SteadyKeeps
<1>5. CASE UNCHANGED vars
  BY <1>1, <1>5, SteadySteps, SteadyKeeps
<1>6. QED
  BY <1>2, <1>3, <1>4, <1>5 DEF Next, Terminated

\* pthreadpool_create_v2 counts the threads it starts.
LEMMA LifeInvInit == Init => LifeInv
<1> SUFFICES ASSUME Init PROVE LifeInv
  OBVIOUS
<1>1. TypeOK
  BY TypeOKInit
<1>2. \A c \in Callers : pc[c] = "idle"
  BY ProcsFacts DEF Init
<1>3. \A w \in Workers : pc[w] = IF executor = NoExecutor /\ w[2] = 1 THEN "start" ELSE "exited"
  BY ProcsFacts DEF Init
<1>4. Registering = {}
  BY <1>2, <1>3 DEF Registering, Procs
<1>5. OwnThreads
  BY <1>2, <1>3 DEF OwnThreads, Procs
<1>6. Quiesced
  BY <1>2 DEF Quiesced, Init
<1>7. numRecruited = Cardinality(Counted)
  <2>1. CASE executor = NoExecutor
    <3>1. Counted = Tids \X {1}
      BY <2>1, <1>3, SizesAssumption DEF Counted, Workers
    <3>2. IsFiniteSet(Tids) /\ Cardinality(Tids) = MaxThreads - 1
      BY FS_Interval, SizesAssumption DEF Tids
    <3>3. IsFiniteSet({1}) /\ Cardinality({1}) = 1
      BY FS_Singleton
    <3>4. Cardinality(Counted) = (MaxThreads - 1) * 1
      BY <3>1, <3>2, <3>3, FS_Product
    <3>5. QED
      BY <2>1, <3>4, SizesAssumption DEF Init
  <2>2. CASE executor # NoExecutor
    <3>1. Counted = {}
      BY <2>2, <1>3 DEF Counted
    <3>2. QED
      BY <2>2, <3>1, FS_EmptySet DEF Init
  <2>3. QED
    BY <2>1, <2>2
<1>8. RecruitedCount
  BY <1>4, <1>7, LifeSetsFacts DEF RecruitedCount, Counted, Registering
<1>9. QED
  BY <1>1, <1>5, <1>6, <1>8 DEF LifeInv

\* ... so they hold always.
LEMMA LifeInvariant == Spec => []LifeInv
BY LifeInvInit, LifeInvStep, PTL DEF Spec

\* num_recruited_threads counts the threads that may still touch the pool, in
\* every interleaving of ensure_num_threads and pthreadpool_release.
THEOREM RecruitsAreCounted == Spec => []RecruitedCount
BY LifeInvariant, PTL DEF LifeInv

\* pthreadpool_destroy never frees a pool that a thread could still join a job
\* of, schedule a thread for or look at.
THEOREM FreedIsUnused == Spec => []FreedWhenUnused
<1>1. LifeInv => FreedWhenUnused
  BY DEF LifeInv, Quiesced, FreedWhenUnused
<1>2. QED
  BY <1>1, LifeInvariant, PTL

-----------------------------------------------------------------------------
(* A pool with an executor runs at most one thread on a thread_info.       *)

\* ensure_num_threads looks only at threads after its own, up to the maximum.
FoundPCs == {"ensCheck", "ensExchange", "ensRegister", "ensSchedule"}

CursorInRange == \A p \in Procs :
    /\ pc[p] \in FoundPCs \cup {"ensScan"} => limit[p] <= MaxThreads /\ cursor[p] > SelfId(p)
    /\ pc[p] \in FoundPCs => cursor[p] < MaxThreads

HolderInv == executor \in Executors /\ CursorInRange /\ OneThreadPerInfo

\* The holders of a thread_info are finitely many.
LEMMA HoldersFacts == \A t \in Tids :
    Holders(t) \subseteq Procs /\ IsFiniteSet(Holders(t)) /\ Cardinality(Holders(t)) \in Nat
    /\ (Cardinality(Holders(t)) = 0 <=> Holders(t) = {})
<1> SUFFICES ASSUME NEW t \in Tids
             PROVE  Holders(t) \subseteq Procs /\ IsFiniteSet(Holders(t))
                    /\ Cardinality(Holders(t)) \in Nat
                    /\ (Cardinality(Holders(t)) = 0 <=> Holders(t) = {})
  OBVIOUS
<1>1. Holders(t) \subseteq Procs
  BY ProcsFacts DEF Holders
<1>2. QED
  BY <1>1, ProcsFacts, FS_Subset, FS_CardinalityType, FS_EmptySet

\* A process's tid is that of a thread of the pool.
LEMMA SelfIdFacts == \A p \in Procs : SelfId(p) \in 0 .. (MaxThreads - 1)
BY ProcsFacts, SizesAssumption DEF SelfId, Procs, Tids

\* A step after which every thread_info has the threads it had.
SameHolders ==
    /\ executor' \in Executors
    /\ CursorInRange'
    /\ isActive' = isActive
    /\ \A t \in Tids : Holders(t)' = Holders(t)

\* A step that changes no holder keeps the holders apart.
LEMMA SameHoldersKeep == HolderInv /\ SameHolders => HolderInv'
BY DEF HolderInv, OneThreadPerInfo, SameHolders

\* Most steps change no holder.
LEMMA SameHolderSteps ==
    ASSUME TypeOK, TypeOK', LifeInv, HolderInv,
           \/ \E p \in Procs : \/ EnsureStart(p) \/ EnsureScan(p) \/ EnsureRegister(p)
                               \/ TakeItem(p) \/ FinishItem(p) \/ LeaveWork(p)
                               \/ WrapLoad(p) \/ WrapFlip(p) \/ WrapAdd(p)
           \/ \E c \in Callers : \/ LockAndPrepare(c) \/ Publish(c) \/ AwaitDone(c)
                                 \/ Restore(c) \/ SwapExecutor(c) \/ SwapContext(c)
                                 \/ Free(c) \/ ApplicationStep(c)
           \/ \E w \in Workers : \/ EnsureCheck(w) \/ Start(w) \/ Reload(w) \/ Wait(w)
                                 \/ GiveBack(w) \/ TryJoin(w) \/ Admit(w) \/ SignalDone(w)
                                 \/ Recheck(w) \/ Release(w) \/ SignalRecruited(w)
           \/ UNCHANGED vars
    PROVE  SameHolders
<1> USE ProcsFacts
<1> USE DEF LifeInv, OwnThreads, HolderInv, TypeOK, Goto, SameHolders, Holders, CursorInRange, FoundPCs,
            SelfId, CallerPCs, WorkerPCs, EnsurePCs, RunPCs, WrapPCs,
            sizeVars, jobVars, execVars, sharedVars, scanVars, runVars, callVars,
            localVars, vars
<1>1. ASSUME NEW c \in Callers, NEW r \in Ranges, CallParallelize(c, r) PROVE SameHolders
  BY <1>1 DEF CallParallelize
<1>2. ASSUME NEW c \in Callers, LockAndPrepare(c) PROVE SameHolders
  BY <1>2 DEF LockAndPrepare
<1>3. ASSUME NEW c \in Callers, Publish(c) PROVE SameHolders
  BY <1>3 DEF Publish
<1>4. ASSUME NEW c \in Callers, AwaitDone(c) PROVE SameHolders
  BY <1>4 DEF AwaitDone
<1>5. ASSUME NEW c \in Callers, Restore(c) PROVE SameHolders
  BY <1>5 DEF Restore
<1>6. ASSUME NEW c \in Callers, SwapExecutor(c) PROVE SameHolders
  BY <1>6 DEF SwapExecutor
<1>7. ASSUME NEW c \in Callers, SwapContext(c) PROVE SameHolders
  BY <1>7 DEF SwapContext
<1>8. ASSUME NEW c \in Callers, ReleaseExecutorThreads(c) PROVE SameHolders
  BY <1>8 DEF ReleaseExecutorThreads
<1>9. ASSUME NEW c \in Callers, Destroy(c) PROVE SameHolders
  BY <1>9 DEF Destroy
<1>10. ASSUME NEW c \in Callers, NEW n \in 0 .. (MaxThreads + 1), SetThreadsCount(c, n) PROVE SameHolders
  BY <1>10 DEF SetThreadsCount
<1>11. ASSUME NEW c \in Callers, NEW e \in Executors, UpdateExecutor(c, e) PROVE SameHolders
  BY <1>11 DEF UpdateExecutor
<1>12. ASSUME NEW c \in Callers, Free(c) PROVE SameHolders
  BY <1>12 DEF Free
<1>13. ASSUME NEW p \in Procs, EnsureStart(p) PROVE SameHolders
  <2>1. /\ pc[p] = "ensStart" /\ isActive' = isActive /\ executor' = executor
        /\ \A q \in Procs \ {p} : pc'[q] = pc[q] /\ cursor'[q] = cursor[q] /\ limit'[q] = limit[q]
        /\ \/ pc'[p] \in {"work", "reload"}
           \/ pc'[p] = "ensScan" /\ limit'[p] = threadsCount /\ cursor'[p] = SelfId(p) + 1
    BY <1>13 DEF EnsureStart, LeaveEnsure
  <2>2. SelfId(p) \in Nat /\ threadsCount <= MaxThreads
    BY SelfIdFacts, SizesAssumption
  <2>3. CursorInRange'
    <3> SUFFICES ASSUME NEW q \in Procs, pc'[q] \in FoundPCs \cup {"ensScan"}
                 PROVE  /\ limit'[q] <= MaxThreads /\ cursor'[q] > SelfId(q)
                        /\ pc'[q] \in FoundPCs => cursor'[q] < MaxThreads
      OBVIOUS
    <3>1. CASE q = p
      BY <2>1, <2>2, <3>1
    <3>2. CASE q # p
      BY <2>1, <3>2
    <3>3. QED
      BY <3>1, <3>2
  <2>4. QED
    BY <2>1, <2>3
<1>14. ASSUME NEW p \in Procs, EnsureScan(p) PROVE SameHolders
  <2>1. /\ pc[p] = "ensScan" /\ isActive' = isActive /\ executor' = executor
        /\ \A q \in Procs \ {p} : pc'[q] = pc[q] /\ cursor'[q] = cursor[q] /\ limit'[q] = limit[q]
        /\ \/ pc'[p] \in {"work", "reload"}
           \/ pc'[p] = "ensScan" /\ limit'[p] = limit[p] /\ cursor'[p] = cursor[p] + 1
           \/ /\ pc'[p] \in {"ensExchange", "ensCheck"} /\ limit'[p] = limit[p]
              /\ cursor'[p] = cursor[p] /\ cursor[p] < limit[p]
    BY <1>14 DEF EnsureScan, ScanOver, LeaveEnsure
  <2>2. SelfId(p) \in Nat
    BY SelfIdFacts
  <2>3. CursorInRange'
    <3> SUFFICES ASSUME NEW q \in Procs, pc'[q] \in FoundPCs \cup {"ensScan"}
                 PROVE  /\ limit'[q] <= MaxThreads /\ cursor'[q] > SelfId(q)
                        /\ pc'[q] \in FoundPCs => cursor'[q] < MaxThreads
      OBVIOUS
    <3>1. CASE q = p
      <4>1. /\ limit[p] <= MaxThreads /\ cursor[p] > SelfId(p)
            /\ limit[p] \in Nat /\ cursor[p] \in Nat
        BY <2>1
      <4>2. QED
        BY <2>1, <2>2, <3>1, <4>1, SizesAssumption
    <3>2. CASE q # p
      BY <2>1, <3>2
    <3>3. QED
      BY <3>1, <3>2
  <2>4. QED
    BY <2>1, <2>3
<1>15. ASSUME NEW p \in Procs, EnsureRegister(p) PROVE SameHolders
  BY <1>15 DEF EnsureRegister
<1>16. ASSUME NEW p \in Procs, TakeItem(p) PROVE SameHolders
  BY <1>16 DEF TakeItem
<1>17. ASSUME NEW p \in Procs, FinishItem(p) PROVE SameHolders
  BY <1>17 DEF FinishItem
<1>18. ASSUME NEW p \in Procs, LeaveWork(p) PROVE SameHolders
  BY <1>18 DEF LeaveWork
<1>19. ASSUME NEW p \in Procs, WrapLoad(p) PROVE SameHolders
  BY <1>19 DEF WrapLoad
<1>20. ASSUME NEW p \in Procs, WrapFlip(p) PROVE SameHolders
  BY <1>20 DEF WrapFlip, AfterWrapUp, CallerGoesTo, WorkerGoesTo
<1>21. ASSUME NEW p \in Procs, WrapAdd(p) PROVE SameHolders
  BY <1>21 DEF WrapAdd, AfterWrapUp, CallerGoesTo, WorkerGoesTo
<1>22. ASSUME NEW w \in Workers, EnsureCheck(w) PROVE SameHolders
  BY <1>22 DEF EnsureCheck, LeaveEnsure
<1>23. ASSUME NEW w \in Workers, Start(w) PROVE SameHolders
  <2>1. /\ pc[w] = "start" /\ pc'[w] \in {"ensStart", "loop"}
        /\ \A q \in Procs \ {w} : pc'[q] = pc[q]
        /\ UNCHANGED <<executor, isActive, cursor, limit>>
    BY <1>23 DEF Start
  <2>2. QED
    BY <2>1
<1>24. ASSUME NEW w \in Workers, Reload(w) PROVE SameHolders
  BY <1>24 DEF Reload
<1>25. ASSUME NEW w \in Workers, Wait(w) PROVE SameHolders
  BY <1>25 DEF Wait
<1>26. ASSUME NEW w \in Workers, GiveBack(w) PROVE SameHolders
  BY <1>26 DEF GiveBack
<1>27. ASSUME NEW w \in Workers, TryJoin(w) PROVE SameHolders
  BY <1>27 DEF TryJoin
<1>28. ASSUME NEW w \in Workers, Admit(w) PROVE SameHolders
  BY <1>28 DEF Admit
<1>29. ASSUME NEW w \in Workers, SignalDone(w) PROVE SameHolders
  BY <1>29 DEF SignalDone
<1>30. ASSUME NEW w \in Workers, Recheck(w) PROVE SameHolders
  BY <1>30 DEF Recheck
<1>31. ASSUME NEW w \in Workers, Release(w) PROVE SameHolders
  BY <1>31 DEF Release
<1>32. ASSUME NEW w \in Workers, SignalRecruited(w) PROVE SameHolders
  BY <1>32 DEF SignalRecruited
<1>33. CASE UNCHANGED vars
  BY <1>33
<1> HIDE DEF LifeInv, HolderInv, TypeOK, SameHolders, vars
<1>34. QED
  BY <1>1, <1>2, <1>3, <1>4, <1>5, <1>6, <1>7, <1>8, <1>9, <1>10,
     <1>11, <1>12, <1>13, <1>14, <1>15, <1>16, <1>17, <1>18, <1>19, <1>20,
     <1>21, <1>22, <1>23, <1>24, <1>25, <1>26, <1>27, <1>28, <1>29, <1>30,
     <1>31, <1>32, <1>33
     DEF ApplicationStep

\* The exchange that finds is_active clear gives the thread_info its thread ...
LEMMA ExchangeStep ==
    ASSUME TypeOK, TypeOK', HolderInv, NEW p \in Procs, EnsureExchange(p)
    PROVE  HolderInv'
<1> USE ProcsFacts
<1> DEFINE t == cursor[p]
<1>1. /\ pc[p] = "ensExchange" /\ executor' = executor
      /\ \A q \in Procs \ {p} : pc'[q] = pc[q] /\ cursor'[q] = cursor[q]
      /\ \A q \in Procs : limit'[q] = limit[q]
  BY DEF EnsureExchange, Goto, TypeOK
<1>2. t \in Tids /\ t > SelfId(p) /\ t \in Nat /\ limit[p] <= MaxThreads
  <2>1. t > SelfId(p) /\ t < MaxThreads /\ limit[p] <= MaxThreads /\ t \in Nat
    BY <1>1 DEF HolderInv, CursorInRange, FoundPCs, TypeOK
  <2>2. QED
    BY <2>1, SelfIdFacts, SizesAssumption DEF Tids
<1>3. CASE isActive[t] = 0
  <2>1. pc'[p] = "ensRegister" /\ cursor' = cursor /\ isActive' = [isActive EXCEPT ![t] = 1]
    BY <1>3 DEF EnsureExchange, Goto, TypeOK
  <2>2. CursorInRange'
    BY <1>1, <2>1 DEF HolderInv, CursorInRange, FoundPCs, SelfId
  <2>3. Holders(t) = {}
    BY <1>2, <1>3, HoldersFacts DEF HolderInv, OneThreadPerInfo
  <2>4. Holders(t)' = Holders(t) \cup {p}
    BY <1>1, <1>2, <2>1 DEF Holders, SelfId
  <2>5. \A u \in Tids \ {t} : Holders(u)' = Holders(u)
    BY <1>1, <2>1 DEF Holders
  <2>6. Cardinality(Holders(t)') = 1
    BY <2>3, <2>4, FS_Singleton
  <2>7. OneThreadPerInfo'
    BY <1>2, <2>1, <2>5, <2>6 DEF HolderInv, OneThreadPerInfo, TypeOK
  <2>8. QED
    BY <1>1, <2>2, <2>7 DEF HolderInv
<1>4. CASE isActive[t] # 0
  <2>1. isActive[t] = 1
    BY <1>2, <1>4 DEF TypeOK
  <2>2. pc'[p] = "ensScan" /\ cursor'[p] = t + 1 /\ isActive' = isActive
    BY <1>2, <2>1 DEF EnsureExchange, Goto, TypeOK
  <2>3. CursorInRange'
    BY <1>1, <1>2, <2>2, SelfIdFacts DEF HolderInv, CursorInRange, FoundPCs, SelfId
  <2>4. \A u \in Tids : Holders(u)' = Holders(u)
    BY <1>1, <2>2 DEF Holders
  <2>5. QED
    BY <1>1, <2>2, <2>3, <2>4, SameHoldersKeep DEF HolderInv, SameHolders
<1>5. QED
  BY <1>3, <1>4

\* ... which the schedule hands over to the new activation of thread_main.
LEMMA HandOverStep ==
    ASSUME TypeOK, TypeOK', HolderInv, NEW p \in Procs, NEW w \in Workers, EnsureSchedule(p, w)
    PROVE  HolderInv'
<1> USE ProcsFacts
<1>0. PICK t \in Nat : t = cursor[p]
  BY DEF TypeOK
<1>1. /\ pc[p] = "ensSchedule" /\ pc[w] = "exited" /\ TidOf(w) = t
      /\ pc'[p] = "ensScan" /\ pc'[w] = "start" /\ cursor'[p] = t + 1
      /\ \A q \in Procs \ {p, w} : pc'[q] = pc[q]
      /\ \A q \in Procs \ {p} : cursor'[q] = cursor[q]
      /\ UNCHANGED <<executor, isActive, limit>>
  BY <1>0 DEF EnsureSchedule, TypeOK, sharedVars, execVars
<1>2. t \in Tids /\ t > SelfId(p) /\ SelfId(p) \in Nat /\ limit[p] <= MaxThreads
  BY <1>0, <1>1, SelfIdFacts DEF HolderInv, CursorInRange, FoundPCs
<1>3. p \in Workers => TidOf(p) # t
  BY <1>2 DEF SelfId
<1>4. CursorInRange'
  BY <1>0, <1>1, <1>2 DEF HolderInv, CursorInRange, FoundPCs, SelfId
<1>5. \A u \in Tids \ {t} : Holders(u)' = Holders(u)
  BY <1>0, <1>1 DEF Holders
<1>6. p \in Holders(t) /\ Holders(t)' = (Holders(t) \ {p}) \cup {w} /\ w \notin Holders(t)
  <2>1. p \in Holders(t) /\ w \notin Holders(t) /\ w \in Holders(t)'
    BY <1>0, <1>1 DEF Holders
  <2>2. p \notin Holders(t)'
    BY <1>0, <1>1, <1>3 DEF Holders
  <2>3. \A q \in Procs \ {p, w} : q \in Holders(t)' <=> q \in Holders(t)
    BY <1>0, <1>1 DEF Holders
  <2>4. Holders(t) \subseteq Procs /\ Holders(t)' \subseteq Procs
    BY DEF Holders
  <2>5. QED
    BY <2>1, <2>2, <2>3, <2>4
<1>7. Cardinality(Holders(t)') = Cardinality(Holders(t))
  <2>1. IsFiniteSet(Holders(t)) /\ Cardinality(Holders(t)) \in Nat
    BY <1>2, HoldersFacts
  <2>2. /\ IsFiniteSet(Holders(t) \ {p})
        /\ Cardinality(Holders(t) \ {p}) = Cardinality(Holders(t)) - 1
    BY <1>6, <2>1, FS_RemoveElement
  <2>3. Cardinality((Holders(t) \ {p}) \cup {w}) = Cardinality(Holders(t) \ {p}) + 1
    BY <1>6, <2>2, FS_AddElement
  <2>4. QED
    BY <1>6, <2>1, <2>2, <2>3
<1>8. OneThreadPerInfo'
  <2>1. \A u \in Tids : Cardinality(Holders(u)') = Cardinality(Holders(u))
    BY <1>5, <1>7
  <2>2. QED
    BY <1>1, <2>1 DEF HolderInv, OneThreadPerInfo
<1>9. QED
  BY <1>1, <1>4, <1>8 DEF HolderInv

\* A thread that leaves clears is_active of the thread_info it alone holds; if
\* it comes back it takes a thread_info that nobody holds.
LEMMA LeaveReturnStep ==
    ASSUME TypeOK, TypeOK', HolderInv, NEW w \in Workers, Leave(w) \/ Reacquire(w)
    PROVE  HolderInv'
<1> USE ProcsFacts
<1> DEFINE t == TidOf(w)
<1>1. /\ executor' = executor /\ cursor' = cursor /\ limit' = limit
      /\ \A q \in Procs \ {w} : pc'[q] = pc[q]
      /\ pc'[w] \in {"recheck", "loop", "release"} /\ pc[w] \in {"loop", "reacquire"}
  BY DEF Leave, Reacquire, Goto, TypeOK, localVars, scanVars
<1>2. CursorInRange'
  BY <1>1 DEF HolderInv, CursorInRange, FoundPCs, SelfId
<1>3. \A u \in Tids \ {t} : Holders(u)' = Holders(u)
  BY <1>1 DEF Holders
<1>4. t \in Tids /\ isActive[t] \in {0, 1} /\ Cardinality(Holders(t)) = isActive[t]
  BY DEF HolderInv, OneThreadPerInfo, TypeOK
<1>5. CASE Leave(w)
  <2>1. pc[w] = "loop" /\ pc'[w] = "recheck" /\ isActive' = [isActive EXCEPT ![t] = 0]
    BY <1>5 DEF Leave, Goto, TypeOK
  <2>2. w \in Holders(t) /\ Holders(t)' = Holders(t) \ {w}
    BY <1>1, <2>1 DEF Holders
  <2>3. Cardinality(Holders(t)') = Cardinality(Holders(t)) - 1 /\ Cardinality(Holders(t)) # 0
    BY <1>4, <2>2, HoldersFacts, FS_RemoveElement
  <2>4. Cardinality(Holders(t)') = 0
    BY <1>4, <2>3
  <2>5. OneThreadPerInfo'
    BY <1>3, <1>4, <2>1, <2>4 DEF HolderInv, OneThreadPerInfo, TypeOK
  <2>6. QED
    BY <1>1, <1>2, <2>5 DEF HolderInv
<1>6. CASE Reacquire(w) /\ isActive[t] = 0
  <2>1. pc[w] = "reacquire" /\ pc'[w] = "loop" /\ isActive' = [isActive EXCEPT ![t] = 1]
    BY <1>6 DEF Reacquire, InfoFree, Goto, TypeOK
  <2>2. Holders(t) = {}
    BY <1>4, <1>6, HoldersFacts
  <2>3. Holders(t)' = Holders(t) \cup {w}
    BY <1>1, <2>1 DEF Holders
  <2>4. Cardinality(Holders(t)') = 1
    BY <2>2, <2>3, FS_Singleton
  <2>5. OneThreadPerInfo'
    BY <1>3, <1>4, <2>1, <2>4 DEF HolderInv, OneThreadPerInfo, TypeOK
  <2>6. QED
    BY <1>1, <1>2, <2>5 DEF HolderInv
<1>7. CASE Reacquire(w) /\ isActive[t] = 1
  <2>1. pc[w] = "reacquire" /\ pc'[w] = "release" /\ isActive' = isActive
    BY <1>4, <1>7 DEF Reacquire, InfoFree, Goto, TypeOK
  <2>2. Holders(t)' = Holders(t)
    BY <1>1, <2>1 DEF Holders
  <2>3. OneThreadPerInfo'
    BY <1>3, <2>1, <2>2 DEF HolderInv, OneThreadPerInfo
  <2>4. QED
    BY <1>1, <1>2, <2>3 DEF HolderInv
<1>8. QED
  BY <1>4, <1>5, <1>6, <1>7

\* Every step keeps the holders apart ...
LEMMA HolderInvStep ==
    TypeOK /\ TypeOK' /\ LifeInv /\ HolderInv /\ [Next]_vars => HolderInv'
<1> SUFFICES ASSUME TypeOK, TypeOK', LifeInv, HolderInv, [Next]_vars PROVE HolderInv'
  OBVIOUS
<1>1. ASSUME NEW w \in Workers, WorkerStep(w) PROVE HolderInv'
  BY <1>1, ProcsFacts, SameHolderSteps, SameHoldersKeep, ExchangeStep, HandOverStep, LeaveReturnStep
     DEF WorkerStep, WorkerMove, SharedStep
<1>2. ASSUME NEW c \in Callers, CallerStep(c) PROVE HolderInv'
  BY <1>2, ProcsFacts, SameHolderSteps, SameHoldersKeep, ExchangeStep, HandOverStep
     DEF CallerStep, CallerMove, SharedStep
<1>3. ASSUME NEW c \in Callers, ApplicationStep(c) PROVE HolderInv'
  BY <1>3, SameHolderSteps, SameHoldersKeep
<1>4. CASE UNCHANGED vars
  BY <1>4, SameHolderSteps, SameHoldersKeep
<1>5. QED
  BY <1>1, <1>2, <1>3, <1>4 DEF Next, Terminated

\* A pool that was created with an executor has no thread to begin with.
LEMMA HolderInvInit == Init /\ FirstExecutors \subseteq Executors => HolderInv
<1> SUFFICES ASSUME Init, FirstExecutors \subseteq Executors PROVE HolderInv
  OBVIOUS
<1>1. executor \in Executors /\ executor # NoExecutor
  BY ExecutorsAssumption DEF Init
<1>2. \A p \in Procs : pc[p] \in {"idle", "exited"}
  BY <1>1 DEF Init
<1>3. CursorInRange
  BY <1>2 DEF CursorInRange, FoundPCs
<1>4. \A w \in Workers : pc[w] = "exited"
  BY <1>1, ProcsFacts DEF Init
<1>5. \A t \in Tids : Holders(t) = {} /\ isActive[t] = 0
  BY <1>2, <1>4 DEF Holders, Init
<1>6. OneThreadPerInfo
  BY <1>5, FS_EmptySet DEF OneThreadPerInfo
<1>7. QED
  BY <1>1, <1>3, <1>6 DEF HolderInv

\* ... so they are always apart.
LEMMA HolderInvariant == FirstExecutors \subseteq Executors => (Spec => []HolderInv)
<1>1. Spec => [](TypeOK /\ LifeInv)
  BY TypeCorrect, LifeInvariant, PTL
<1>2. QED
  BY <1>1, HolderInvInit, HolderInvStep, PTL DEF Spec

\* In a pool that is created with an executor a thread_info never has two
\* threads, and is_active says whether it has one: neither two threads that
\* scan for one to start, nor a departing thread that finds new work and one
\* that would replace it, both win.
THEOREM InfoHasOneThread ==
    ASSUME FirstExecutors \subseteq Executors
    PROVE  Spec => []OneThreadPerInfo
BY HolderInvariant, PTL DEF HolderInv

-----------------------------------------------------------------------------
(* What the steps leave alone.                                             *)

\* num_recruited_threads is never negative.
LEMMA RecruitedNat == TypeOK /\ RecruitedCount => numRecruited \in Nat
BY RecruitedFacts, LifeSetsFacts

\* The last thread out is on its way to say so, and nobody overtakes it there.
LEMMA StepOfWorker ==
    ASSUME TypeOK, RecruitedCount, NEW w \in Workers, WorkerMove(w) \/ Wait(w)
    PROVE  /\ \A c \in Callers : pc'[c] = pc[c]
           /\ workIsDone' = workIsDone
           /\ numRecruited' = 0 => numRecruited = 0 \/ pc'[w] = "signalRecruited"
           /\ \A v \in Workers : pc[v] = "signalRecruited" => pc'[v] = "signalRecruited"
<1> USE ProcsFacts, RecruitedNat
<1> USE DEF TypeOK, Goto, LeaveEnsure, AfterWrapUp, sizeVars, jobVars, execVars, sharedVars,
            scanVars, runVars, callVars, localVars
<1>1. CASE EnsureStart(w) \/ EnsureScan(w) \/ EnsureExchange(w) \/ EnsureCheck(w)
  BY <1>1 DEF EnsureStart, EnsureScan, EnsureExchange, EnsureCheck
<1>2. CASE EnsureRegister(w)
  BY <1>2 DEF EnsureRegister, Registered
<1>3. CASE \E v \in Workers : EnsureSchedule(w, v)
  BY <1>3 DEF EnsureSchedule
<1>4. CASE TakeItem(w) \/ FinishItem(w) \/ LeaveWork(w)
  BY <1>4 DEF TakeItem, FinishItem, LeaveWork
<1>5. CASE WrapLoad(w) \/ WrapFlip(w) \/ WrapAdd(w)
  BY <1>5 DEF WrapLoad, WrapFlip, WrapAdd
<1>6. CASE Start(w) \/ Reload(w) \/ GiveBack(w) \/ TryJoin(w) \/ Admit(w) \/ Wait(w)
  BY <1>6 DEF Start, Reload, GiveBack, TryJoin, Admit, Wait
<1>7. CASE Leave(w) \/ Recheck(w) \/ Reacquire(w)
  BY <1>7 DEF Leave, Recheck, Reacquire
<1>8. CASE Release(w)
  BY <1>8 DEF Release, Released
<1>9. QED
  BY <1>1, <1>2, <1>3, <1>4, <1>5, <1>6, <1>7, <1>8 DEF WorkerMove, SharedStep

CallerAction(c) ==
    \/ CallerMove(c) \/ AwaitDone(c) \/ Free(c) \/ Publish(c) \/ ApplicationStep(c)

\* A step of a caller leaves the other callers and the threads that only have to signal.
LEMMA StepOfCaller ==
    ASSUME TypeOK, RecruitedCount, NEW c \in Callers, CallerAction(c)
    PROVE  /\ \A d \in Callers \ {c} : pc'[d] = pc[d]
           /\ workIsDone' = 1 => workIsDone = 1
           /\ numRecruited' = 0 => numRecruited = 0
           /\ \A v \in Workers : pc[v] = "signalRecruited" => pc'[v] = "signalRecruited"
<1> USE ProcsFacts, RecruitedNat
<1> USE DEF TypeOK, Goto, LeaveEnsure, AfterWrapUp, sizeVars, jobVars, execVars, sharedVars,
            scanVars, runVars, callVars, localVars
<1>1. CASE EnsureStart(c) \/ EnsureScan(c) \/ EnsureExchange(c)
  BY <1>1 DEF EnsureStart, EnsureScan, EnsureExchange
<1>2. CASE EnsureRegister(c)
  BY <1>2 DEF EnsureRegister, Registered
<1>3. CASE \E v \in Workers : EnsureSchedule(c, v)
  BY <1>3 DEF EnsureSchedule
<1>4. CASE TakeItem(c) \/ FinishItem(c) \/ LeaveWork(c)
  BY <1>4 DEF TakeItem, FinishItem, LeaveWork
<1>5. CASE WrapLoad(c) \/ WrapFlip(c) \/ WrapAdd(c)
  BY <1>5 DEF WrapLoad, WrapFlip, WrapAdd
<1>6. CASE LockAndPrepare(c) \/ Restore(c) \/ SwapExecutor(c) \/ SwapContext(c)
  BY <1>6 DEF LockAndPrepare, Restore, SwapExecutor, SwapContext
<1>7. CASE AwaitDone(c) \/ Free(c) \/ Publish(c)
  BY <1>7 DEF AwaitDone, TakenDown, Free, Publish
<1>8. CASE ApplicationStep(c)
  BY <1>8 DEF ApplicationStep, CallParallelize, SetThreadsCount, ReleaseExecutorThreads,
              UpdateExecutor, Destroy
<1>9. QED
  BY <1>1, <1>2, <1>3, <1>4, <1>5, <1>6, <1>7, <1>8 DEF CallerAction, CallerMove, SharedStep

\* A step moves its own thread, and perhaps one that has just been scheduled.
LEMMA OthersStay ==
    ASSUME TypeOK, NEW p \in Procs,
           (p \in Workers /\ WorkerStep(p)) \/ (p \in Callers /\ CallerAction(p))
    PROVE  \A q \in Procs \ {p} : /\ curr'[q] = curr[q]
                                  /\ pc[q] # "exited" => pc'[q] = pc[q]
<1> USE DEF TypeOK, Goto, LeaveEnsure, AfterWrapUp, localVars
<1>1. CASE EnsureStart(p) \/ EnsureScan(p) \/ EnsureExchange(p) \/ EnsureRegister(p)
  BY <1>1 DEF EnsureStart, EnsureScan, EnsureExchange, EnsureRegister
<1>2. CASE \E w \in Workers : EnsureSchedule(p, w)
  BY <1>2, ProcsFacts DEF EnsureSchedule
<1>3. CASE TakeItem(p) \/ FinishItem(p) \/ LeaveWork(p)
  BY <1>3 DEF TakeItem, FinishItem, LeaveWork
<1>4. CASE WrapLoad(p) \/ WrapFlip(p) \/ WrapAdd(p)
  BY <1>4 DEF WrapLoad, WrapFlip, WrapAdd
<1>5. CASE Start(p) \/ EnsureCheck(p) \/ Reload(p) \/ GiveBack(p) \/ TryJoin(p) \/ Admit(p)
  BY <1>5 DEF Start, EnsureCheck, Reload, GiveBack, TryJoin, Admit
<1>6. CASE Leave(p) \/ Recheck(p) \/ Reacquire(p) \/ Release(p)
  BY <1>6 DEF Leave, Recheck, Reacquire, Release
<1>7. CASE Wait(p) \/ SignalDone(p) \/ SignalRecruited(p)
  BY <1>7 DEF Wait, SignalDone, SignalRecruited
<1>8. CASE LockAndPrepare(p) \/ Restore(p) \/ SwapExecutor(p) \/ SwapContext(p)
  BY <1>8 DEF LockAndPrepare, Restore, SwapExecutor, SwapContext
<1>9. CASE AwaitDone(p) \/ Free(p) \/ Publish(p)
  BY <1>9 DEF AwaitDone, Free, Publish
<1>10. CASE ApplicationStep(p)
  BY <1>10 DEF ApplicationStep, CallParallelize, SetThreadsCount, ReleaseExecutorThreads,
               UpdateExecutor, Destroy
<1>11. QED
  BY <1>1, <1>2, <1>3, <1>4, <1>5, <1>6, <1>7, <1>8, <1>9, <1>10
     DEF WorkerStep, WorkerMove, CallerAction, CallerMove, SharedStep
=============================================================================
