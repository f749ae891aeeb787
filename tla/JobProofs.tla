------------------------------- MODULE JobProofs -------------------------------
(***************************************************************************)
(* What a job is promised by the threads that run it: the protocol is an   *)
(* implementation of PoolContract, the threads of a job have different     *)
(* ids, and job_id grows.  What each result asks of the constants is in    *)
(* its hypotheses, and where the code needs them a run shows the property  *)
(* violated without them.                                                  *)
(***************************************************************************)
EXTENDS ThreadPoolProofs

-----------------------------------------------------------------------------
(* A job has no more threads at work than threads_count, and its items are *)
(* gone when the first of them leaves.                                     *)

\* The threads that run the job's function or are on their way to it ...
Working == {p \in Procs : \/ pc[p] \in RunPCs
                          \/ p \in Callers /\ pc[p] \in EnsurePCs}
\* ... and those that have joined with a place in it.
Placed == {w \in Workers : pc[w] = "joined" /\ HasPlace(w)}

CrowdFits == Cardinality(Working \cup Placed) <= threadsCount

\* Where a caller is once it has found no item left.
EndPCs == WrapPCs \cup {"awaitDone", "restore"}

\* What a call of pthreadpool_parallelize relies on from step to step.
JobKept ==
    /\ threadsCount >= 1
    /\ \A c \in Callers : /\ pc[c] = "lock" => range[c] \in Ranges
                          /\ InJob(c) => threadsCount <= prevThreads[c]
                          /\ pc[c] \in EndPCs => remaining = 0

JobInv == CrowdFits /\ JobKept

Busy == {p \in Procs : pc[p] = "item"}

LEMMA CrowdFacts ==
    /\ Working \cup Placed \subseteq Participants
    /\ IsFiniteSet(Working \cup Placed)
    /\ Cardinality(Working \cup Placed) \in Nat
    /\ Cardinality(Working \cup Placed) <= Cardinality(Participants)
    /\ \A S : S \subseteq Working \cup Placed =>
          IsFiniteSet(S) /\ Cardinality(S) \in Nat
          /\ Cardinality(S) <= Cardinality(Working \cup Placed)
<1>1. Working \cup Placed \subseteq Participants
  BY ProcsFacts DEF Working, Placed, Participants
<1>2. QED
  BY <1>1, ParticipantsFacts, FS_Subset, FS_CardinalityType

\* Nobody but the holder of execution_mutex is in a job.
LEMMA InJobHolds ==
    ASSUME MutexHeld, NEW c \in Callers, InJob(c)
    PROVE  executionMutex = c /\ \A d \in Callers : InJob(d) => d = c
BY DEF MutexHeld, OwnsMutex

\* A step that makes the job's crowd no larger and leaves its data alone.
Plain ==
    /\ UNCHANGED <<threadsCount, remaining, prevThreads, freed>>
    /\ \A c \in Callers : /\ InJob(c)' <=> InJob(c)
                          /\ pc'[c] = "lock" => range'[c] \in Ranges
                          /\ pc'[c] \in EndPCs => pc[c] \in EndPCs \/ remaining = 0
    /\ Working' \subseteq Working
    /\ Placed' \subseteq Placed
    /\ Busy' = Busy
    /\ executionMutex' = executionMutex \/ \A c \in Callers : ~InJob(c)

LEMMA FewerFit ==
    ASSUME TypeOK, CrowdFits, threadsCount' = threadsCount,
           Working' \cup Placed' \subseteq Working \cup Placed
    PROVE  CrowdFits'
<1>1. /\ Cardinality(Working' \cup Placed') \in Nat
      /\ Cardinality(Working' \cup Placed') <= Cardinality(Working \cup Placed)
  BY CrowdFacts
<1>2. threadsCount \in Nat
  BY SizesAssumption DEF TypeOK
<1>3. QED
  BY <1>1, <1>2, CrowdFacts DEF CrowdFits

LEMMA NobodyFits ==
    ASSUME Working' \cup Placed' = {}, threadsCount' \in Nat
    PROVE  CrowdFits'
<1>1. Cardinality(Working' \cup Placed') = 0
  BY FS_EmptySet
<1>2. QED
  BY <1>1 DEF CrowdFits

LEMMA PlainKeeps == JobInv /\ TypeOK /\ TypeOK' /\ Plain => JobInv'
<1> SUFFICES ASSUME JobInv, TypeOK, TypeOK', Plain PROVE JobInv'
  OBVIOUS
<1>1. CrowdFits'
  BY FewerFit DEF JobInv, Plain
<1>2. JobKept'
  BY DEF JobInv, JobKept, Plain
<1>3. QED
  BY <1>1, <1>2 DEF JobInv

\* Most steps are plain.
LEMMA PlainSteps ==
    ASSUME CountInv, TypeOK', JobInv,
           \/ \E p \in Procs : \/ EnsureStart(p) \/ EnsureScan(p) \/ EnsureExchange(p)
                               \/ EnsureRegister(p) \/ LeaveWork(p)
                               \/ WrapLoad(p) \/ WrapFlip(p) \/ WrapAdd(p)
                               \/ \E w \in Workers : EnsureSchedule(p, w)
           \/ \E c \in Callers : \/ AwaitDone(c) \/ SwapExecutor(c) \/ SwapContext(c)
                                 \/ ReleaseExecutorThreads(c) \/ Destroy(c)
                                 \/ \E r \in Ranges : CallParallelize(c, r)
                                 \/ \E e \in Executors : UpdateExecutor(c, e)
           \/ \E w \in Workers : \/ EnsureCheck(w) \/ Start(w) \/ Reload(w) \/ Wait(w)
                                 \/ GiveBack(w) \/ SignalDone(w) \/ Leave(w)
                                 \/ Recheck(w) \/ Reacquire(w) \/ Release(w)
                                 \/ SignalRecruited(w)
           \/ UNCHANGED vars
    PROVE  Plain
<1> USE ProcsFacts
<1> USE DEF CountInv, TypeOK, Goto, Plain, JobInv, JobKept, InJob, Working, Placed, HasPlace,
            Busy, EndPCs, CallerPCs, WorkerPCs, EnsurePCs, RunPCs, WrapPCs,
            sizeVars, jobVars, execVars, sharedVars, scanVars, runVars, callVars,
            localVars, vars
<1>1. ASSUME NEW c \in Callers, NEW r \in Ranges, CallParallelize(c, r) PROVE Plain
  BY <1>1 DEF CallParallelize
<1>2. ASSUME NEW p \in Procs, EnsureStart(p) PROVE Plain
  BY <1>2 DEF EnsureStart, LeaveEnsure
<1>3. ASSUME NEW p \in Procs, EnsureScan(p) PROVE Plain
  BY <1>3 DEF EnsureScan, LeaveEnsure
<1>4. ASSUME NEW p \in Procs, EnsureExchange(p) PROVE Plain
  BY <1>4 DEF EnsureExchange
<1>5. ASSUME NEW p \in Procs, EnsureRegister(p) PROVE Plain
  BY <1>5 DEF EnsureRegister
<1>6. ASSUME NEW p \in Procs, NEW w \in Workers, EnsureSchedule(p, w) PROVE Plain
  BY <1>6 DEF EnsureSchedule
<1>7. ASSUME NEW p \in Procs, LeaveWork(p) PROVE Plain
  BY <1>7 DEF LeaveWork
<1>8. ASSUME NEW p \in Procs, WrapLoad(p) PROVE Plain
  BY <1>8 DEF WrapLoad
<1>9. ASSUME NEW p \in Procs, WrapFlip(p) PROVE Plain
  BY <1>9 DEF WrapFlip, AfterWrapUp, CallerGoesTo, WorkerGoesTo
<1>10. ASSUME NEW p \in Procs, WrapAdd(p) PROVE Plain
  BY <1>10 DEF WrapAdd, AfterWrapUp, CallerGoesTo, WorkerGoesTo
<1>11. ASSUME NEW c \in Callers, AwaitDone(c) PROVE Plain
  BY <1>11 DEF AwaitDone
<1>12. ASSUME NEW c \in Callers, SwapExecutor(c) PROVE Plain
  BY <1>12 DEF SwapExecutor
<1>13. ASSUME NEW c \in Callers, SwapContext(c) PROVE Plain
  BY <1>13 DEF SwapContext, MutexHeld, OwnsMutex
<1>14. ASSUME NEW c \in Callers, ReleaseExecutorThreads(c) PROVE Plain
  BY <1>14 DEF ReleaseExecutorThreads
<1>15. ASSUME NEW c \in Callers, Destroy(c) PROVE Plain
  BY <1>15 DEF Destroy
<1>16. ASSUME NEW c \in Callers, NEW e \in Executors, UpdateExecutor(c, e) PROVE Plain
  BY <1>16, CallersAssumption DEF UpdateExecutor, MutexHeld, OwnsMutex
<1>17. ASSUME NEW w \in Workers, EnsureCheck(w) PROVE Plain
  <2>1. /\ pc[w] = "ensCheck"
        /\ UNCHANGED <<curr, threadsCount, remaining, prevThreads, freed, range, executionMutex>>
        /\ \E label \in {"reload", "ensExchange"} : pc' = [pc EXCEPT ![w] = label]
    BY <1>17 DEF EnsureCheck, LeaveEnsure
  <2>2. QED
    BY <2>1
<1>18. ASSUME NEW w \in Workers, Start(w) PROVE Plain
  BY <1>18 DEF Start
<1>19. ASSUME NEW w \in Workers, Reload(w) PROVE Plain
  BY <1>19 DEF Reload
<1>20. ASSUME NEW w \in Workers, Wait(w) PROVE Plain
  BY <1>20 DEF Wait
<1>21. ASSUME NEW w \in Workers, GiveBack(w) PROVE Plain
  BY <1>21 DEF GiveBack
<1>22. ASSUME NEW w \in Workers, SignalDone(w) PROVE Plain
  BY <1>22 DEF SignalDone
<1>23. ASSUME NEW w \in Workers, Leave(w) PROVE Plain
  BY <1>23 DEF Leave
<1>24. ASSUME NEW w \in Workers, Recheck(w) PROVE Plain
  BY <1>24 DEF Recheck
<1>25. ASSUME NEW w \in Workers, Reacquire(w) PROVE Plain
  BY <1>25 DEF Reacquire
<1>26. ASSUME NEW w \in Workers, Release(w) PROVE Plain
  BY <1>26 DEF Release
<1>27. ASSUME NEW w \in Workers, SignalRecruited(w) PROVE Plain
  BY <1>27 DEF SignalRecruited
<1>28. CASE UNCHANGED vars
  BY <1>28
<1> HIDE DEF CountInv, TypeOK, JobInv, Plain, vars
<1>29. QED
  BY <1>1, <1>2, <1>3, <1>4, <1>5, <1>6, <1>7, <1>8, <1>9, <1>10,
     <1>11, <1>12, <1>13, <1>14, <1>15, <1>16, <1>17, <1>18, <1>19, <1>20,
     <1>21, <1>22, <1>23, <1>24, <1>25, <1>26, <1>27, <1>28

\* Calls are numbered and prepared, and threads_count is changed, while no job
\* has a thread.
LEMMA IdleSteps ==
    ASSUME CountInv, TypeOK', JobInv, NEW c \in Callers,
           \/ LockAndPrepare(c) \/ Restore(c)
           \/ \E n \in 0 .. (MaxThreads + 1) : SetThreadsCount(c, n)
    PROVE  /\ JobInv'
           /\ Participants = {} /\ Busy = {} /\ Busy' = {}
<1> USE ProcsFacts
<1>1. executionMutex = Nobody \/ (executionMutex = c /\ ~Waits(c))
  BY DEF LockAndPrepare, Restore, SetThreadsCount, CountInv, MutexHeld, OwnsMutex, InJob,
         Waits, Participants, EnsurePCs, RunPCs, WrapPCs
<1>2. Participants = {}
  BY <1>1, OwnerAlone, NobodyWaits
<1>3. \A p \in Procs : pc'[p] = pc[p] \/ (p = c /\ pc'[c] \in {"publish", "idle"})
  BY DEF LockAndPrepare, Restore, SetThreadsCount, Goto, CountInv, TypeOK
<1>4. Working' \cup Placed' = {} /\ Busy = {} /\ Busy' = {}
  BY <1>2, <1>3 DEF Working, Placed, Busy, Participants, EnsurePCs, RunPCs
<1>5. \A d \in Callers \ {c} : ~InJob(d) /\ pc'[d] = pc[d]
  BY <1>1, <1>3, CallersAssumption DEF CountInv, MutexHeld, OwnsMutex
<1>6. CASE LockAndPrepare(c)
  <2>1. /\ threadsCount' = Smaller(range[c], threadsCount) /\ pc' = [pc EXCEPT ![c] = "publish"]
        /\ prevThreads' = [prevThreads EXCEPT ![c] = threadsCount]
        /\ range' = [range EXCEPT ![c] = 0] /\ pc[c] = "lock"
    BY <1>6 DEF LockAndPrepare, Goto
  <2>2. /\ threadsCount \in Nat /\ threadsCount >= 1 /\ range[c] \in Ranges
    BY <2>1, SizesAssumption DEF JobInv, JobKept, CountInv, TypeOK
  <2>3. threadsCount' \in Nat /\ threadsCount' >= 1 /\ threadsCount' <= threadsCount
    <3>1. \A r \in Ranges : r \in Nat /\ r # 0
      BY JobsAssumption
    <3>2. QED
      BY <2>1, <2>2, <3>1 DEF Smaller
  <2>4. prevThreads'[c] = threadsCount /\ \A d \in Callers \ {c} : range'[d] = range[d]
    BY <2>1 DEF CountInv, TypeOK
  <2>5. pc'[c] = "publish"
    BY <2>1 DEF CountInv, TypeOK
  <2>6. JobKept'
    <3>1. \A d \in Callers \ {c} : ~InJob(d)'
      BY <1>5 DEF InJob
    <3>2. \A d \in Callers \ {c} : pc'[d] = "lock" => range'[d] \in Ranges
      BY <1>5, <2>4 DEF JobInv, JobKept
    <3>3. \A d \in Callers : pc'[d] \in EndPCs => d # c /\ InJob(d)'
      BY <2>5 DEF InJob, EndPCs, WrapPCs
    <3>4. QED
      BY <2>3, <2>4, <2>5, <3>1, <3>2, <3>3 DEF JobKept
  <2>7. CrowdFits'
    BY <1>4, <2>3, NobodyFits
  <2>8. QED
    BY <1>2, <1>4, <2>6, <2>7 DEF JobInv
<1>7. CASE Restore(c)
  <2>1. /\ threadsCount' = prevThreads[c] /\ pc' = [pc EXCEPT ![c] = "idle"]
        /\ range' = range /\ pc[c] = "restore"
    BY <1>7 DEF Restore, CountAfterJob, Goto
  <2>2. /\ threadsCount \in Nat /\ threadsCount >= 1 /\ prevThreads[c] \in Nat
        /\ threadsCount <= prevThreads[c]
    BY <2>1, SizesAssumption DEF JobInv, JobKept, InJob, CountInv, TypeOK
  <2>3. threadsCount' >= 1 /\ threadsCount' \in Nat
    BY <2>1, <2>2
  <2>4. pc'[c] = "idle"
    BY <2>1 DEF CountInv, TypeOK
  <2>5. JobKept'
    BY <1>5, <2>1, <2>3, <2>4
       DEF JobInv, JobKept, InJob, EndPCs, EnsurePCs, RunPCs, WrapPCs
  <2>6. CrowdFits'
    BY <1>4, <2>3, NobodyFits
  <2>7. QED
    BY <1>2, <1>4, <2>5, <2>6 DEF JobInv
<1>8. ASSUME NEW n \in 0 .. (MaxThreads + 1), SetThreadsCount(c, n)
      PROVE  JobInv' /\ Participants = {} /\ Busy = {} /\ Busy' = {}
  <2>1. /\ threadsCount' = Feasible(n) /\ pc' = pc /\ range' = range /\ pc[c] = "idle"
        /\ remaining' = remaining
    BY <1>8 DEF SetThreadsCount, localVars, callVars, jobVars
  <2>2. threadsCount' >= 1 /\ threadsCount' \in Nat
    BY <2>1, SizesAssumption DEF Feasible, Smaller
  <2>3. JobKept'
    BY <1>5, <2>1, <2>2 DEF JobInv, JobKept, InJob, EndPCs, EnsurePCs, RunPCs, WrapPCs
  <2>4. CrowdFits'
    BY <1>4, <2>2, NobodyFits
  <2>5. QED
    BY <1>2, <1>4, <2>3, <2>4 DEF JobInv
<1>9. QED
  BY <1>6, <1>7, <1>8

\* The steps of the crowd itself: a job begins with its caller at work, grows
\* by the threads that join with a place, and gives out its items.
LEMMA CrowdSteps ==
    ASSUME CountInv, CountInv', JobInv,
           \/ \E c \in Callers : Publish(c) \/ Free(c)
           \/ \E p \in Procs : TakeItem(p) \/ FinishItem(p)
           \/ \E w \in Workers : TryJoin(w) \/ Admit(w)
    PROVE  JobInv'
<1> USE ProcsFacts
<1>1. TypeOK /\ TypeOK' /\ threadsCount \in Nat
  BY SizesAssumption DEF CountInv, TypeOK
<1>2. ASSUME NEW c \in Callers, Publish(c) PROVE JobInv'
  <2>1. /\ pc[c] = "publish" /\ pc' = [pc EXCEPT ![c] = "ensStart"]
        /\ UNCHANGED <<threadsCount, remaining, range, prevThreads, curr>>
    BY <1>2 DEF Publish, Goto, sharedVars, sizeVars, jobVars, localVars, callVars
  <2>2. executionMutex = c /\ ~Waits(c)
    BY <2>1 DEF CountInv, MutexHeld, OwnsMutex, InJob, Waits, Participants, EnsurePCs,
                RunPCs, WrapPCs
  <2>3. Participants = {}
    BY <2>2, OwnerAlone, NobodyWaits
  <2>4. \A p \in Procs \ {c} : pc'[p] = pc[p]
    BY <1>1, <2>1 DEF TypeOK
  <2>5. Working' \cup Placed' \subseteq {c}
    BY <2>3, <2>4, <1>1 DEF Working, Placed, Participants
  <2>6. Cardinality(Working' \cup Placed') <= 1 /\ Cardinality(Working' \cup Placed') \in Nat
    <3>1. IsFiniteSet({c}) /\ Cardinality({c}) = 1
      BY FS_Singleton
    <3>2. QED
      BY <2>5, <3>1, FS_Subset, FS_CardinalityType
  <2>7. CrowdFits'
    BY <1>1, <2>1, <2>6 DEF CrowdFits, JobInv, JobKept
  <2>8. JobKept'
    BY <1>1, <2>1 DEF JobInv, JobKept, InJob, EndPCs, EnsurePCs, WrapPCs, TypeOK
  <2>9. QED
    BY <2>7, <2>8 DEF JobInv
<1>3. ASSUME NEW c \in Callers, Free(c) PROVE JobInv'
  <2>1. /\ pc[c] = "awaitThreads" /\ pc' = [pc EXCEPT ![c] = "idle"]
        /\ UNCHANGED <<threadsCount, remaining, range, prevThreads, curr>>
    BY <1>3 DEF Free, Goto, jobVars, localVars, callVars
  <2>2. Working' \subseteq Working /\ Placed' \subseteq Placed
    BY <1>1, <2>1 DEF Working, Placed, HasPlace, TypeOK, RunPCs, EnsurePCs
  <2>3. CrowdFits'
    BY <1>1, <2>1, <2>2, FewerFit DEF JobInv
  <2>4. JobKept'
    BY <1>1, <2>1 DEF JobInv, JobKept, InJob, EndPCs, EnsurePCs, RunPCs, WrapPCs, TypeOK
  <2>5. QED
    BY <2>3, <2>4 DEF JobInv
<1>4. ASSUME NEW p \in Procs, TakeItem(p) \/ FinishItem(p) PROVE JobInv'
  <2>1. /\ pc[p] \in RunPCs /\ \E label \in RunPCs : pc' = [pc EXCEPT ![p] = label]
        /\ UNCHANGED <<threadsCount, range, prevThreads, curr>>
        /\ remaining' = remaining \/ remaining > 0
    BY <1>4 DEF TakeItem, FinishItem, Goto, RunPCs, sharedVars, sizeVars, jobVars, localVars, callVars
  <2>2. Working' \subseteq Working /\ Placed' \subseteq Placed
    BY <1>1, <2>1 DEF Working, Placed, HasPlace, TypeOK, RunPCs, EnsurePCs
  <2>3. CrowdFits'
    BY <1>1, <2>1, <2>2, FewerFit DEF JobInv
  <2>4. \A c \in Callers : pc'[c] = pc[c] \/ (c = p /\ pc'[c] \in RunPCs)
    BY <1>1, <2>1 DEF TypeOK
  <2>5. JobKept'
    BY <1>1, <2>1, <2>4 DEF JobInv, JobKept, InJob, EndPCs, RunPCs, WrapPCs, TypeOK
  <2>6. QED
    BY <2>3, <2>5 DEF JobInv
<1>5. ASSUME NEW w \in Workers, TryJoin(w) PROVE JobInv'
  <2>1. /\ \A c \in Callers : pc'[c] = pc[c]
        /\ UNCHANGED <<threadsCount, remaining, range, prevThreads>>
    BY <1>1, <1>5 DEF TryJoin, Goto, TypeOK, sharedVars, sizeVars, jobVars, localVars, callVars
  <2>2. JobKept'
    BY <2>1 DEF JobInv, JobKept, InJob
  <2>3. CASE numActive = curr[w]
    <3>1. /\ pc[w] = "loop" /\ pc' = [pc EXCEPT ![w] = "joined"] /\ curr' = curr
          /\ Running(numActive)
      BY <1>5, <2>3 DEF TryJoin, Goto
    <3>2. numActive = Cardinality(Participants)
      BY <1>1, <3>1 DEF CountInv, ActiveCount, Running, TypeOK
    <3>3. CASE HasPlace(w)
      <4>1. w \notin Working \cup Placed /\ Working' \cup Placed' \subseteq (Working \cup Placed) \cup {w}
        BY <1>1, <2>1, <3>1 DEF Working, Placed, HasPlace, TypeOK, RunPCs, EnsurePCs
      <4>2. /\ IsFiniteSet((Working \cup Placed) \cup {w})
            /\ Cardinality((Working \cup Placed) \cup {w}) = Cardinality(Working \cup Placed) + 1
        BY <4>1, CrowdFacts, FS_AddElement
      <4>3. /\ Cardinality(Working' \cup Placed') <= Cardinality(Working \cup Placed) + 1
            /\ Cardinality(Working' \cup Placed') \in Nat
        BY <4>1, <4>2, FS_Subset, FS_CardinalityType
      <4>4. Cardinality(Working \cup Placed) < threadsCount
        BY <1>1, <2>3, <3>2, <3>3, CrowdFacts, ParticipantsFacts DEF HasPlace
      <4>5. CrowdFits'
        BY <1>1, <2>1, <4>3, <4>4, CrowdFacts DEF CrowdFits
      <4>6. QED
        BY <2>2, <4>5 DEF JobInv
    <3>4. CASE ~HasPlace(w)
      <4>1. Working' \subseteq Working /\ Placed' \subseteq Placed
        BY <1>1, <2>1, <3>1, <3>4 DEF Working, Placed, HasPlace, TypeOK, RunPCs, EnsurePCs
      <4>2. QED
        BY <1>1, <2>1, <2>2, <4>1, FewerFit DEF JobInv
    <3>5. QED
      BY <3>3, <3>4
  <2>4. CASE numActive # curr[w]
    <3>1. pc' = pc /\ pc[w] = "loop" /\ \A v \in Workers \ {w} : curr'[v] = curr[v]
      BY <1>1, <1>5, <2>4 DEF TryJoin, TypeOK
    <3>2. Working' \subseteq Working /\ Placed' \subseteq Placed
      BY <2>1, <3>1 DEF Working, Placed, HasPlace
    <3>3. QED
      BY <1>1, <2>1, <2>2, <3>2, FewerFit DEF JobInv
  <2>5. QED
    BY <2>3, <2>4
<1>6. ASSUME NEW w \in Workers, Admit(w) PROVE JobInv'
  <2>1. /\ UNCHANGED <<threadsCount, remaining, range, prevThreads>>
        /\ pc[w] = "joined" /\ pc' = [pc EXCEPT ![w] = IF HasPlace(w) THEN "work" ELSE "wrapLoad"]
        /\ \A v \in Workers \ {w} : curr'[v] = curr[v]
    BY <1>1, <1>6 DEF Admit, Goto, TypeOK, sharedVars, sizeVars, jobVars, callVars
  <2>2. Working' \cup Placed' \subseteq Working \cup Placed
    BY <1>1, <2>1 DEF Working, Placed, HasPlace, TypeOK, RunPCs, EnsurePCs
  <2>3. CrowdFits'
    BY <1>1, <2>1, <2>2, FewerFit DEF JobInv
  <2>4. \A c \in Callers : pc'[c] = pc[c]
    BY <1>1, <2>1 DEF TypeOK
  <2>5. JobKept'
    BY <2>1, <2>4 DEF JobInv, JobKept, InJob
  <2>6. QED
    BY <2>3, <2>5 DEF JobInv
<1>7. QED
  BY <1>2, <1>3, <1>4, <1>5, <1>6

LEMMA JobInvStep == CountInv /\ CountInv' /\ JobInv /\ [Next]_vars => JobInv'
<1> SUFFICES ASSUME CountInv, CountInv', JobInv, [Next]_vars PROVE JobInv'
  OBVIOUS
<1>1. TypeOK /\ TypeOK'
  BY DEF CountInv
<1>2. ASSUME NEW w \in Workers, WorkerStep(w) PROVE JobInv'
  BY <1>1, <1>2, ProcsFacts, PlainSteps, PlainKeeps, CrowdSteps
     DEF WorkerStep, WorkerMove, SharedStep
<1>3. ASSUME NEW c \in Callers, CallerStep(c) PROVE JobInv'
  BY <1>1, <1>3, ProcsFacts, PlainSteps, PlainKeeps, CrowdSteps, IdleSteps
     DEF CallerStep, CallerMove, SharedStep
<1>4. ASSUME NEW c \in Callers, ApplicationStep(c) PROVE JobInv'
  BY <1>1, <1>4, PlainSteps, PlainKeeps, IdleSteps DEF ApplicationStep
<1>5. CASE UNCHANGED vars
  BY <1>1, <1>5, PlainSteps, PlainKeeps
<1>6. QED
  BY <1>2, <1>3, <1>4, <1>5 DEF Next, Terminated

LEMMA JobInvInit == Init => JobInv
<1> SUFFICES ASSUME Init PROVE JobInv
  OBVIOUS
<1>1. \A p \in Procs : pc[p] \in {"idle", "start", "exited"}
  BY DEF Init
<1>2. Working \cup Placed = {}
  BY <1>1, ProcsFacts DEF Working, Placed, EnsurePCs, RunPCs
<1>3. threadsCount \in Nat /\ threadsCount >= 1
  BY SizesAssumption DEF Init
<1>4. CrowdFits
  BY <1>2, <1>3, FS_EmptySet DEF CrowdFits
<1>5. JobKept
  BY <1>1, <1>3, ProcsFacts DEF JobKept, InJob, EndPCs, EnsurePCs, RunPCs, WrapPCs
<1>6. QED
  BY <1>4, <1>5 DEF JobInv

LEMMA JobInvariant == Spec => []JobInv
BY CountInvariant, JobInvInit, JobInvStep, PTL DEF Spec

-----------------------------------------------------------------------------
(* The refinement of PoolContract, step by step.                           *)

\* The contract's owner and size.
PoolOwner == IF \E c \in Callers : InJob(c) THEN executionMutex ELSE Nobody
PoolSize ==
    IF \E c \in Callers : InJob(c)
    THEN prevThreads[CHOOSE c \in Callers : InJob(c)] ELSE threadsCount

LEMMA OwnerInJob ==
    ASSUME MutexHeld, NEW c \in Callers, InJob(c)
    PROVE  PoolOwner = c /\ PoolSize = prevThreads[c]
<1>1. executionMutex = c /\ \A d \in Callers : InJob(d) => d = c
  BY InJobHolds
<1>2. (CHOOSE d \in Callers : InJob(d)) = c
  BY <1>1
<1>3. QED
  BY <1>1, <1>2 DEF PoolOwner, PoolSize

LEMMA OwnerOutside ==
    ASSUME \A c \in Callers : ~InJob(c)
    PROVE  PoolOwner = Nobody /\ PoolSize = threadsCount
BY DEF PoolOwner, PoolSize

\* What the contract sees of a step, in the protocol's own terms.
LEMMA ContractStutters ==
    ASSUME UNCHANGED <<PoolOwner, remaining, Busy, PoolSize, freed>>
    PROVE  UNCHANGED Contract!contractVars
BY DEF Contract!contractVars, PoolOwner, PoolSize, Busy

LEMMA ContractBegins ==
    ASSUME NEW c \in Callers, NEW n \in Ranges, ~freed,
           PoolOwner = Nobody, PoolOwner' = c, remaining' = n,
           UNCHANGED <<Busy, PoolSize, freed>>
    PROVE  Contract!ContractNext
<1>1. Contract!Begin(c, n)
  BY DEF Contract!Begin, PoolOwner, PoolSize, Busy
<1>2. QED
  BY <1>1 DEF Contract!ContractNext

\* The contract's instance counts with an operator of its own.
LEMMA SameCount == \A S : Contract!Cardinality(S) = Cardinality(S)
BY DEF Contract!Cardinality, Cardinality

LEMMA ContractTakes ==
    ASSUME NEW p \in Procs, PoolOwner # Nobody, remaining > 0,
           p \in {PoolOwner} \cup Workers, p \notin Busy, Cardinality(Busy) < PoolSize,
           remaining' = remaining - 1, Busy' = Busy \cup {p},
           UNCHANGED <<PoolOwner, PoolSize, freed>>
    PROVE  Contract!ContractNext
<1>1. Contract!Take(p)
  BY SameCount DEF Contract!Take, PoolOwner, PoolSize, Busy
<1>2. QED
  BY <1>1 DEF Contract!ContractNext, Procs

LEMMA ContractFinishes ==
    ASSUME NEW p \in Procs, p \in Busy, Busy' = Busy \ {p},
           UNCHANGED <<PoolOwner, remaining, PoolSize, freed>>
    PROVE  Contract!ContractNext
<1>1. Contract!Finish(p)
  BY DEF Contract!Finish, PoolOwner, PoolSize, Busy
<1>2. QED
  BY <1>1 DEF Contract!ContractNext, Procs

LEMMA ContractEnds ==
    ASSUME PoolOwner # Nobody, remaining = 0, Busy = {}, PoolOwner' = Nobody,
           UNCHANGED <<remaining, Busy, PoolSize, freed>>
    PROVE  Contract!ContractNext
<1>1. Contract!End
  BY DEF Contract!End, PoolOwner, PoolSize, Busy
<1>2. QED
  BY <1>1 DEF Contract!ContractNext

LEMMA ContractResizes ==
    ASSUME NEW n \in 1 .. MaxThreads, ~freed, PoolOwner = Nobody, PoolSize' = n,
           UNCHANGED <<PoolOwner, remaining, Busy, freed>>
    PROVE  Contract!ContractNext
<1>1. Contract!Resize(n)
  BY DEF Contract!Resize, PoolOwner, PoolSize, Busy
<1>2. QED
  BY <1>1 DEF Contract!ContractNext

LEMMA ContractCloses ==
    ASSUME ~freed, freed' = TRUE, PoolOwner = Nobody,
           UNCHANGED <<PoolOwner, remaining, Busy, PoolSize>>
    PROVE  Contract!ContractNext
<1>1. Contract!Close
  BY DEF Contract!Close, PoolOwner, PoolSize, Busy
<1>2. QED
  BY <1>1 DEF Contract!ContractNext

\* Nobody begins or ends a call.
OwnerKept ==
    /\ UNCHANGED <<threadsCount, prevThreads>>
    /\ \A c \in Callers : InJob(c)' <=> InJob(c)
    /\ executionMutex' = executionMutex \/ \A c \in Callers : ~InJob(c)

LEMMA OwnerStays ==
    ASSUME MutexHeld, OwnerKept
    PROVE  UNCHANGED <<PoolOwner, PoolSize>>
<1>1. ASSUME NEW c \in Callers, InJob(c) PROVE UNCHANGED <<PoolOwner, PoolSize>>
  <2>1. PoolOwner = c /\ PoolSize = prevThreads[c]
    BY <1>1, OwnerInJob
  <2>2. InJob(c)' /\ \A d \in Callers : InJob(d)' <=> InJob(d)
    BY <1>1 DEF OwnerKept
  <2>3. executionMutex' = c /\ prevThreads' = prevThreads
    BY <1>1, <2>2, InJobHolds DEF OwnerKept
  <2>4. \A d \in Callers : InJob(d)' => d = c
    BY <1>1, <2>2, InJobHolds
  <2>5. (CHOOSE d \in Callers : InJob(d))' = c
    BY <2>2, <2>4
  <2>6. QED
    BY <2>1, <2>2, <2>3, <2>5 DEF PoolOwner, PoolSize
<1>2. CASE \A c \in Callers : ~InJob(c)
  <2>1. \A c \in Callers : ~InJob(c)'
    BY <1>2 DEF OwnerKept
  <2>2. PoolOwner = Nobody /\ PoolSize = threadsCount
    BY <1>2, OwnerOutside
  <2>3. PoolOwner' = Nobody /\ PoolSize' = threadsCount'
    BY <2>1 DEF PoolOwner, PoolSize
  <2>4. QED
    BY <2>2, <2>3 DEF OwnerKept
<1>3. QED
  BY <1>1, <1>2

LEMMA PlainStutters ==
    ASSUME MutexHeld, Plain
    PROVE  UNCHANGED Contract!contractVars
<1>1. OwnerKept
  BY DEF Plain, OwnerKept
<1>2. QED
  BY <1>1, OwnerStays, ContractStutters DEF Plain

\* The steps that are plain but for the crowd's size.
LEMMA UnseenSteps ==
    ASSUME CountInv,
           \/ \E c \in Callers : Publish(c)
           \/ \E w \in Workers : TryJoin(w) \/ Admit(w)
    PROVE  UNCHANGED Contract!contractVars
<1> USE ProcsFacts
<1>1. PICK p \in Procs :
          /\ \/ p \in Callers /\ pc[p] = "publish" /\ pc'[p] = "ensStart"
             \/ p \in Workers /\ pc[p] # "item" /\ pc'[p] # "item"
          /\ \A q \in Procs \ {p} : pc'[q] = pc[q]
          /\ UNCHANGED <<executionMutex, threadsCount, remaining, prevThreads, freed>>
  BY DEF Publish, TryJoin, Admit, Goto, CountInv, TypeOK,
         sharedVars, sizeVars, jobVars, localVars, callVars
<1>2. OwnerKept
  BY <1>1 DEF OwnerKept, InJob, EnsurePCs
<1>3. Busy' = Busy
  BY <1>1 DEF Busy
<1>4. QED
  BY <1>1, <1>2, <1>3, OwnerStays, ContractStutters DEF CountInv

\* Whoever claims an item does so in a call, for which there is a thread spare.
LEMMA ItemSteps ==
    ASSUME CountInv, JobInv, NEW p \in Procs, TakeItem(p) \/ FinishItem(p)
    PROVE  Contract!ContractNext
<1> USE ProcsFacts
<1>1. /\ pc[p] \in RunPCs /\ pc'[p] \in RunPCs
      /\ \A q \in Procs \ {p} : pc'[q] = pc[q]
      /\ UNCHANGED <<executionMutex, threadsCount, prevThreads, freed>>
  BY DEF TakeItem, FinishItem, Goto, CountInv, TypeOK, RunPCs,
         sharedVars, sizeVars, jobVars, localVars, callVars
<1>2. p \in Participants
  BY <1>1 DEF Participants
<1>3. PICK c \in Callers : Waits(c)
  BY <1>2 DEF CountInv, JobHasCaller
<1>4. InJob(c)
  BY <1>3 DEF Waits, Participants, InJob, CountInv, TypeOK, WorkerPCs
<1>5. PoolOwner = c /\ PoolSize = prevThreads[c] /\ c # Nobody
  BY <1>4, OwnerInJob, CallersAssumption DEF CountInv
<1>6. p \in {c} \cup Workers
  <2>1. p \in Callers => InJob(p)
    BY <1>1 DEF InJob
  <2>2. QED
    BY <2>1, <1>4, InJobHolds DEF Procs, CountInv
<1>7. UNCHANGED <<PoolOwner, PoolSize>>
  <2>1. OwnerKept
    BY <1>1 DEF OwnerKept, InJob
  <2>2. QED
    BY <2>1, OwnerStays DEF CountInv
<1>8. CASE TakeItem(p)
  <2>1. pc[p] = "work" /\ pc'[p] = "item" /\ remaining > 0 /\ remaining' = remaining - 1
    BY <1>8 DEF TakeItem, Goto, CountInv, TypeOK
  <2>2. p \notin Busy /\ Busy' = Busy \cup {p}
    BY <1>1, <2>1 DEF Busy
  <2>3. Cardinality(Busy) < prevThreads[c]
    <3>1. Busy \cup {p} \subseteq Working \cup Placed
      BY <2>1 DEF Busy, Working, RunPCs
    <3>2. /\ IsFiniteSet(Busy) /\ Cardinality(Busy) \in Nat
          /\ Cardinality(Busy \cup {p}) = Cardinality(Busy) + 1
      BY <3>1, <2>2, CrowdFacts, FS_AddElement
    <3>3. Cardinality(Busy) + 1 <= Cardinality(Working \cup Placed)
      BY <3>1, <3>2, CrowdFacts
    <3>4. Cardinality(Working \cup Placed) <= threadsCount /\ threadsCount <= prevThreads[c]
      BY <1>4 DEF JobInv, CrowdFits, JobKept
    <3>5. threadsCount \in Nat /\ prevThreads[c] \in Nat
      BY SizesAssumption DEF CountInv, TypeOK
    <3>6. QED
      BY <3>2, <3>3, <3>4, <3>5, CrowdFacts
  <2>4. QED
    BY <1>1, <1>5, <1>6, <1>7, <2>1, <2>2, <2>3, ContractTakes
<1>9. CASE FinishItem(p)
  <2>1. pc[p] = "item" /\ pc'[p] = "work" /\ remaining' = remaining
    BY <1>9 DEF FinishItem, Goto, CountInv, TypeOK, sharedVars, jobVars
  <2>2. p \in Busy /\ Busy' = Busy \ {p}
    BY <1>1, <2>1 DEF Busy
  <2>3. QED
    BY <1>1, <1>7, <2>1, <2>2, ContractFinishes
<1>10. QED
  BY <1>8, <1>9

\* A call begins when execution_mutex is taken and ends when it is dropped.
LEMMA CallSteps ==
    ASSUME CountInv, CountInv', JobInv, LifeInv, NEW c \in Callers,
           LockAndPrepare(c) \/ Restore(c)
    PROVE  Contract!ContractNext
<1> USE ProcsFacts
<1>1. Busy = {} /\ Busy' = {}
  BY IdleSteps DEF CountInv
<1>2. ~freed /\ freed' = freed /\ c # Nobody
  BY CallersAssumption DEF LockAndPrepare, Restore, LifeInv, Quiesced
<1>3. CASE LockAndPrepare(c)
  <2>1. /\ pc[c] = "lock" /\ pc'[c] = "publish" /\ executionMutex = Nobody
        /\ remaining' = range[c] /\ prevThreads'[c] = threadsCount
    BY <1>3 DEF LockAndPrepare, Goto, CountInv, TypeOK
  <2>2. PoolOwner = Nobody /\ PoolSize = threadsCount
    <3>1. \A d \in Callers : ~InJob(d)
      BY <2>1, CallersAssumption DEF CountInv, MutexHeld, OwnsMutex
    <3>2. QED
      BY <3>1, OwnerOutside
  <2>3. PoolOwner' = c /\ PoolSize' = prevThreads'[c]
    <3>1. InJob(c)'
      BY <2>1 DEF InJob
    <3>2. executionMutex' = c /\ \A d \in Callers : InJob(d)' => d = c
      BY <1>3, <3>1 DEF LockAndPrepare, CountInv, MutexHeld, OwnsMutex
    <3>3. (CHOOSE d \in Callers : InJob(d))' = c
      BY <3>1, <3>2
    <3>4. QED
      BY <3>1, <3>2, <3>3 DEF PoolOwner, PoolSize
  <2>4. range[c] \in Ranges
    BY <2>1 DEF JobInv, JobKept
  <2>5. QED
    BY <1>1, <1>2, <2>1, <2>2, <2>3, <2>4, ContractBegins
<1>4. CASE Restore(c)
  <2>1. /\ pc[c] = "restore" /\ pc'[c] = "idle" /\ threadsCount' = prevThreads[c]
        /\ remaining' = remaining /\ \A d \in Callers \ {c} : pc'[d] = pc[d]
    BY <1>4 DEF Restore, CountAfterJob, Goto, CountInv, TypeOK, jobVars
  <2>2. InJob(c) /\ remaining = 0
    BY <2>1 DEF InJob, JobInv, JobKept, EndPCs
  <2>3. PoolOwner = c /\ PoolSize = prevThreads[c]
    BY <2>2, OwnerInJob DEF CountInv
  <2>4. \A d \in Callers : ~InJob(d)'
    BY <2>1, <2>2, InJobHolds DEF InJob, CountInv, EnsurePCs, RunPCs, WrapPCs
  <2>5. PoolOwner' = Nobody /\ PoolSize' = threadsCount'
    BY <2>4 DEF PoolOwner, PoolSize
  <2>6. QED
    BY <1>1, <1>2, <2>1, <2>2, <2>3, <2>5, ContractEnds
<1>5. QED
  BY <1>3, <1>4

\* The pool is resized, and closed, between calls.
LEMMA BetweenCalls ==
    ASSUME CountInv, CountInv', JobInv, LifeInv, NEW c \in Callers,
           Free(c) \/ \E n \in 0 .. (MaxThreads + 1) : SetThreadsCount(c, n)
    PROVE  Contract!ContractNext
<1> USE ProcsFacts
<1>1. /\ \A d \in Callers : pc'[d] = pc[d] \/ pc'[d] = "idle"
      /\ remaining' = remaining /\ ~freed
  BY DEF Free, SetThreadsCount, Goto, CountInv, TypeOK, LifeInv, Quiesced, Usable, jobVars
<1>2. \A d \in Callers : ~InJob(d)
  <2>1. CASE Free(c)
    BY <2>1 DEF Free, LifeInv, Quiesced, InJob, EnsurePCs, RunPCs, WrapPCs
  <2>2. CASE executionMutex = Nobody
    BY <2>2, CallersAssumption DEF CountInv, MutexHeld, OwnsMutex
  <2>3. QED
    BY <2>1, <2>2 DEF SetThreadsCount
<1>3. \A d \in Callers : ~InJob(d)'
  BY <1>1, <1>2 DEF InJob, EnsurePCs, RunPCs, WrapPCs
<1>4. PoolOwner = Nobody /\ PoolSize = threadsCount
  BY <1>2, OwnerOutside
<1>5. PoolOwner' = Nobody /\ PoolSize' = threadsCount'
  BY <1>3 DEF PoolOwner, PoolSize
<1>6. Busy' = Busy
  BY DEF Free, SetThreadsCount, Goto, Busy, CountInv, TypeOK
<1>7. CASE Free(c)
  <2>1. freed' = TRUE /\ threadsCount' = threadsCount
    BY <1>7 DEF Free
  <2>2. QED
    BY <1>1, <1>4, <1>5, <1>6, <2>1, ContractCloses
<1>8. ASSUME NEW n \in 0 .. (MaxThreads + 1), SetThreadsCount(c, n)
      PROVE  Contract!ContractNext
  <2>1. threadsCount' = Feasible(n) /\ freed' = freed
    BY <1>8 DEF SetThreadsCount
  <2>2. Feasible(n) \in 1 .. MaxThreads
    BY SizesAssumption DEF Feasible, Smaller
  <2>3. QED
    BY <1>1, <1>4, <1>5, <1>6, <2>1, <2>2, ContractResizes
<1>9. QED
  BY <1>7, <1>8

LEMMA ContractStep ==
    CountInv /\ CountInv' /\ JobInv /\ LifeInv /\ [Next]_vars
        => [Contract!ContractNext]_(Contract!contractVars)
<1> DEFINE Goal == [Contract!ContractNext]_(Contract!contractVars)
<1> SUFFICES ASSUME CountInv, CountInv', JobInv, LifeInv, [Next]_vars
             PROVE  Goal
  OBVIOUS
<1>1. TypeOK /\ TypeOK' /\ MutexHeld
  BY DEF CountInv
<1>2. Contract!ContractNext \/ UNCHANGED Contract!contractVars => Goal
  OBVIOUS
<1> HIDE DEF Goal
<1>3. ASSUME NEW w \in Workers, WorkerStep(w) PROVE Goal
  BY <1>1, <1>2, <1>3, ProcsFacts, PlainSteps, PlainStutters, UnseenSteps, ItemSteps
     DEF WorkerStep, WorkerMove, SharedStep
<1>4. ASSUME NEW c \in Callers, CallerStep(c) PROVE Goal
  BY <1>1, <1>2, <1>4, ProcsFacts, PlainSteps, PlainStutters, UnseenSteps, ItemSteps, CallSteps,
     BetweenCalls
     DEF CallerStep, CallerMove, SharedStep
<1>5. ASSUME NEW c \in Callers, ApplicationStep(c) PROVE Goal
  BY <1>1, <1>2, <1>5, PlainSteps, PlainStutters, BetweenCalls DEF ApplicationStep
<1>6. CASE UNCHANGED vars
  BY <1>1, <1>2, <1>6, PlainSteps, PlainStutters
<1>7. Goal
  BY <1>3, <1>4, <1>5, <1>6 DEF Next, Terminated
<1>8. QED
  BY <1>7

LEMMA ContractStart == Init => Contract!ContractInit
<1> SUFFICES ASSUME Init PROVE Contract!ContractInit
  OBVIOUS
<1>1. \A p \in Procs : pc[p] \in {"idle", "start", "exited"}
  BY DEF Init
<1>2. \A c \in Callers : ~InJob(c)
  BY <1>1, ProcsFacts DEF InJob, EnsurePCs, RunPCs, WrapPCs
<1>3. PoolOwner = Nobody /\ PoolSize = threadsCount
  BY <1>2, OwnerOutside
<1>4. Busy = {} /\ remaining = 0 /\ freed = FALSE /\ threadsCount \in 1 .. MaxThreads
  BY <1>1, SizesAssumption DEF Busy, Init
<1>5. QED
  BY <1>3, <1>4 DEF Contract!ContractInit, PoolOwner, PoolSize, Busy

\* The protocol implements what the header promises, whatever the number of
\* callers and threads and whatever the executor: calls exclude one another,
\* claim each item once, never have more items in progress than the pool has
\* threads, end only when all are done, and leave the size as they found it.
THEOREM PoolImplementsContract == Spec => ImplementsContract
<1>1. Spec => [](CountInv /\ JobInv /\ LifeInv)
  BY CountInvariant, JobInvariant, LifeInvariant, PTL
<1>2. QED
  BY <1>1, ContractStart, ContractStep, PTL DEF Spec, ImplementsContract, Contract!ContractSpec

-----------------------------------------------------------------------------
(* What the threads of a job are called, and what the job is.              *)

\* The callers that are about to number a job.
Locking == {c \in Callers : pc[c] = "lock"}

\* A step that neither begins a job nor lets a thread into one.
SameJob ==
    /\ threadsCount' = threadsCount /\ jobId' = jobId
    /\ \A p \in Procs :
          /\ p \in Working' => p \in Working /\ threadId'[p] = threadId[p]
          /\ pc'[p] = "joined" => pc[p] = "joined" /\ curr'[p] = curr[p]
          /\ pc'[p] \in RunPCs => pc[p] \in RunPCs \/ p \in Callers
    /\ \A c \in Callers : /\ threadId'[c] \in {0, threadId[c]}
                          /\ pc'[c] = "publish" => pc[c] = "publish"
    /\ \A w \in Workers : lastJobId'[w] \in {0, lastJobId[w]}
    /\ Locking' \subseteq Locking \/ jobId < MaxJobs

\* All steps but the ones that begin, end and join a job.
JobGoesOn ==
    \/ \E p \in Procs : \/ EnsureStart(p) \/ EnsureScan(p) \/ EnsureExchange(p)
                        \/ EnsureRegister(p) \/ TakeItem(p) \/ FinishItem(p)
                        \/ LeaveWork(p) \/ WrapLoad(p) \/ WrapFlip(p) \/ WrapAdd(p)
                        \/ \E w \in Workers : EnsureSchedule(p, w)
    \/ \E c \in Callers : \/ AwaitDone(c) \/ SwapExecutor(c) \/ SwapContext(c)
                          \/ ReleaseExecutorThreads(c) \/ Destroy(c) \/ Free(c)
                          \/ \E r \in Ranges : CallParallelize(c, r)
                          \/ \E e \in Executors : UpdateExecutor(c, e)
    \/ \E w \in Workers : \/ EnsureCheck(w) \/ Start(w) \/ Reload(w) \/ Wait(w)
                          \/ GiveBack(w) \/ SignalDone(w) \/ Leave(w)
                          \/ Recheck(w) \/ Reacquire(w) \/ Release(w)
                          \/ SignalRecruited(w)
    \/ UNCHANGED vars

LEMMA SameJobSteps ==
    ASSUME TypeOK, TypeOK', JobGoesOn
    PROVE  SameJob
<1> USE ProcsFacts
<1> USE DEF TypeOK, Goto, SameJob, Working, Locking,
            CallerPCs, WorkerPCs, EnsurePCs, RunPCs, WrapPCs,
            sizeVars, jobVars, execVars, sharedVars, scanVars, runVars, callVars,
            localVars, vars
<1>1. ASSUME NEW c \in Callers, NEW r \in Ranges, CallParallelize(c, r) PROVE SameJob
  BY <1>1 DEF CallParallelize
<1>2. ASSUME NEW p \in Procs, EnsureStart(p) PROVE SameJob
  BY <1>2 DEF EnsureStart, LeaveEnsure
<1>3. ASSUME NEW p \in Procs, EnsureScan(p) PROVE SameJob
  BY <1>3 DEF EnsureScan, LeaveEnsure
<1>4. ASSUME NEW p \in Procs, EnsureExchange(p) PROVE SameJob
  BY <1>4 DEF EnsureExchange
<1>5. ASSUME NEW p \in Procs, EnsureRegister(p) PROVE SameJob
  BY <1>5 DEF EnsureRegister
<1>6. ASSUME NEW p \in Procs, NEW w \in Workers, EnsureSchedule(p, w) PROVE SameJob
  BY <1>6 DEF EnsureSchedule
<1>7. ASSUME NEW p \in Procs, TakeItem(p) PROVE SameJob
  BY <1>7 DEF TakeItem
<1>8. ASSUME NEW p \in Procs, FinishItem(p) PROVE SameJob
  BY <1>8 DEF FinishItem
<1>9. ASSUME NEW p \in Procs, LeaveWork(p) PROVE SameJob
  BY <1>9 DEF LeaveWork
<1>10. ASSUME NEW p \in Procs, WrapLoad(p) PROVE SameJob
  BY <1>10 DEF WrapLoad
<1>11. ASSUME NEW p \in Procs, WrapFlip(p) PROVE SameJob
  BY <1>11 DEF WrapFlip, AfterWrapUp, CallerGoesTo, WorkerGoesTo
<1>12. ASSUME NEW p \in Procs, WrapAdd(p) PROVE SameJob
  BY <1>12 DEF WrapAdd, AfterWrapUp, CallerGoesTo, WorkerGoesTo
<1>13. ASSUME NEW c \in Callers, AwaitDone(c) PROVE SameJob
  BY <1>13 DEF AwaitDone
<1>14. ASSUME NEW c \in Callers, SwapExecutor(c) PROVE SameJob
  BY <1>14 DEF SwapExecutor
<1>15. ASSUME NEW c \in Callers, SwapContext(c) PROVE SameJob
  BY <1>15 DEF SwapContext
<1>16. ASSUME NEW c \in Callers, ReleaseExecutorThreads(c) PROVE SameJob
  BY <1>16 DEF ReleaseExecutorThreads
<1>17. ASSUME NEW c \in Callers, Destroy(c) PROVE SameJob
  BY <1>17 DEF Destroy
<1>18. ASSUME NEW c \in Callers, Free(c) PROVE SameJob
  BY <1>18 DEF Free
<1>19. ASSUME NEW c \in Callers, NEW e \in Executors, UpdateExecutor(c, e) PROVE SameJob
  BY <1>19 DEF UpdateExecutor
<1>20. ASSUME NEW w \in Workers, EnsureCheck(w) PROVE SameJob
  BY <1>20 DEF EnsureCheck, LeaveEnsure
<1>21. ASSUME NEW w \in Workers, Start(w) PROVE SameJob
  BY <1>21 DEF Start
<1>22. ASSUME NEW w \in Workers, Reload(w) PROVE SameJob
  BY <1>22 DEF Reload
<1>23. ASSUME NEW w \in Workers, Wait(w) PROVE SameJob
  BY <1>23 DEF Wait
<1>24. ASSUME NEW w \in Workers, GiveBack(w) PROVE SameJob
  BY <1>24 DEF GiveBack
<1>25. ASSUME NEW w \in Workers, SignalDone(w) PROVE SameJob
  BY <1>25 DEF SignalDone
<1>26. ASSUME NEW w \in Workers, Leave(w) PROVE SameJob
  BY <1>26 DEF Leave
<1>27. ASSUME NEW w \in Workers, Recheck(w) PROVE SameJob
  BY <1>27 DEF Recheck
<1>28. ASSUME NEW w \in Workers, Reacquire(w) PROVE SameJob
  BY <1>28 DEF Reacquire
<1>29. ASSUME NEW w \in Workers, Release(w) PROVE SameJob
  BY <1>29 DEF Release
<1>30. ASSUME NEW w \in Workers, SignalRecruited(w) PROVE SameJob
  BY <1>30 DEF SignalRecruited
<1>31. CASE UNCHANGED vars
  BY <1>31
<1> HIDE DEF TypeOK, SameJob, vars
<1>32. QED
  BY <1>1, <1>2, <1>3, <1>4, <1>5, <1>6, <1>7, <1>8, <1>9, <1>10,
     <1>11, <1>12, <1>13, <1>14, <1>15, <1>16, <1>17, <1>18, <1>19, <1>20,
     <1>21, <1>22, <1>23, <1>24, <1>25, <1>26, <1>27, <1>28, <1>29, <1>30,
     <1>31
     DEF JobGoesOn

\* A job that threads may join after a step is one they could join before it,
\* and the threads it had are still in it.
SameRun ==
    Running(numActive)' => /\ Running(numActive) /\ numActive' >= numActive
                           /\ Participants \subseteq Participants'

LEMMA SameRunSteps ==
    ASSUME CountInv, TypeOK', JobGoesOn
    PROVE  SameRun
<1> USE ProcsFacts
<1>1. TypeOK /\ (Quiet => SameRun)
  BY DEF CountInv, TypeOK, Quiet, SameRun
<1>2. ASSUME NEW c \in Callers, AwaitDone(c) \/ SwapContext(c) PROVE SameRun
  <2>1. numActive' = numActive /\ Participants' = Participants
    BY <1>1, <1>2 DEF AwaitDone, SwapContext, Goto, Participants, TypeOK, EnsurePCs, RunPCs, WrapPCs
  <2>2. QED
    BY <1>1, <2>1 DEF SameRun, TypeOK
<1>3. ASSUME NEW c \in Callers,
             \/ ReleaseExecutorThreads(c) \/ Destroy(c)
             \/ \E e \in Executors : UpdateExecutor(c, e)
      PROVE  SameRun
  <2>1. numActive' = DONE \/ (numActive' = numActive /\ Participants' = Participants)
    BY <1>1, <1>3 DEF ReleaseExecutorThreads, Destroy, UpdateExecutor, Goto, Participants, TypeOK,
                      EnsurePCs, RunPCs, WrapPCs
  <2>2. QED
    BY <1>1, <2>1 DEF SameRun, TypeOK, Running
<1>4. ASSUME NEW w \in Workers, SignalDone(w) PROVE SameRun
  <2>1. numActive' = numActive /\ Participants' = Participants
    BY <1>1, <1>4 DEF SignalDone, Goto, Participants, TypeOK, EnsurePCs, RunPCs, WrapPCs
  <2>2. QED
    BY <1>1, <2>1 DEF SameRun, TypeOK
<1>5. ASSUME NEW p \in Procs, WrapLoad(p) \/ (WrapFlip(p) /\ numActive # curr[p]) PROVE SameRun
  <2>1. numActive' = numActive /\ Participants' = Participants
    BY <1>1, <1>5 DEF WrapLoad, WrapFlip, Goto, Participants, TypeOK, EnsurePCs, RunPCs, WrapPCs
  <2>2. QED
    BY <1>1, <2>1 DEF SameRun, TypeOK
<1>6. ASSUME NEW p \in Procs, WrapAdd(p) \/ (WrapFlip(p) /\ numActive = curr[p]) PROVE SameRun
  <2>1. p \in Participants
    BY <1>6 DEF WrapAdd, WrapFlip, Participants, WrapPCs
  <2>2. CASE WrapAdd(p)
    <3>1. numActive <= 0 /\ numActive # DONE
      BY <2>2, DoneFacts DEF WrapAdd, CountInv, WrapUpSeen
    <3>2. numActive = -Cardinality(Participants) /\ Cardinality(Participants) # 0
      BY <2>1, <3>1, ParticipantsFacts DEF CountInv, ActiveCount
    <3>3. numActive' <= 0
      BY <2>2, <3>2, ParticipantsFacts DEF WrapAdd
    <3>4. QED
      BY <3>3 DEF SameRun, Running, TypeOK
  <2>3. CASE WrapFlip(p) /\ numActive = curr[p]
    <3>1. curr[p] > 0 /\ curr[p] \in Int
      BY <1>1, <2>3 DEF WrapFlip, CountInv, WrapUpSeen, TypeOK
    <3>2. numActive' <= 0
      BY <2>3, <3>1 DEF WrapFlip, FirstOut
    <3>3. QED
      BY <3>2 DEF SameRun, Running, TypeOK
  <2>4. QED
    BY <1>6, <2>2, <2>3
<1>7. QED
  BY <1>1, <1>2, <1>3, <1>4, <1>5, <1>6, QuietSteps DEF JobGoesOn

-----------------------------------------------------------------------------
(* Thread ids.                                                             *)

\* The threads that have, or on joining were given, a rank in the job: the
\* caller's is zero, a worker's the count it found when it joined.
Ranked == {p \in Procs : p \in Working \/ pc[p] = "joined"}
Rank(p) == IF pc[p] = "joined" THEN curr[p] ELSE threadId[p]

RanksDiffer ==
    threadsCount < MaxThreads => \A p, q \in Ranked : p # q => Rank(p) # Rank(q)

RanksBelow == \A p \in Ranked :
    /\ Rank(p) >= 0
    /\ pc[p] = "joined" => Rank(p) >= 1
    /\ threadsCount < MaxThreads /\ Running(numActive) => Rank(p) < numActive

IdsInRange == \A p \in Procs : pc[p] \in RunPCs => threadId[p] \in 0 .. (threadsCount - 1)

\* In a job of all the pool's threads every worker runs under its own id.
OwnIds ==
    threadsCount = MaxThreads =>
        \A w \in Workers : pc[w] \in RunPCs => threadId[w] = TidOf(w)

CallerIds == \A c \in Callers : threadId[c] = 0

IdInv == RanksDiffer /\ RanksBelow /\ IdsInRange /\ OwnIds /\ CallerIds

LEMMA RankedFacts ==
    /\ Ranked \subseteq Participants
    /\ TypeOK => \A p \in Ranked : Rank(p) \in Int
BY ProcsFacts DEF Ranked, Rank, Working, Participants, TypeOK

LEMMA SameJobKeepsIds ==
    ASSUME TypeOK, TypeOK', JobInv, IdInv, SameJob, SameRun
    PROVE  IdInv'
<1> USE ProcsFacts
<1>1. threadsCount \in Nat /\ threadsCount >= 1 /\ numActive \in Int /\ numActive' \in Int
  BY SizesAssumption DEF TypeOK, JobInv, JobKept
<1>2. ASSUME NEW p \in Procs, p \in Ranked'
      PROVE  p \in Ranked /\ Rank(p)' = Rank(p) /\ (pc'[p] = "joined" => pc[p] = "joined")
  <2>1. CASE pc'[p] = "joined"
    BY <2>1 DEF SameJob, Ranked, Rank
  <2>2. CASE pc'[p] # "joined"
    <3>1. p \in Working'
      BY <1>2, <2>2 DEF Ranked
    <3>2. p \in Working /\ threadId'[p] = threadId[p] /\ pc[p] # "joined"
      BY <3>1 DEF SameJob, Working, RunPCs, EnsurePCs
    <3>3. QED
      BY <2>2, <3>2 DEF Ranked, Rank
  <2>3. QED
    BY <2>1, <2>2
<1>3. Ranked' \subseteq Procs
  BY DEF Ranked
<1>4. RanksDiffer'
  BY <1>2, <1>3 DEF IdInv, RanksDiffer, SameJob
<1>5. RanksBelow'
  <2> SUFFICES ASSUME NEW p \in Procs, p \in Ranked'
               PROVE  /\ Rank(p)' >= 0
                      /\ pc'[p] = "joined" => Rank(p)' >= 1
                      /\ threadsCount' < MaxThreads /\ Running(numActive)' => Rank(p)' < numActive'
    BY <1>3 DEF RanksBelow
  <2>1. p \in Ranked /\ Rank(p)' = Rank(p) /\ (pc'[p] = "joined" => pc[p] = "joined")
    BY <1>2
  <2>2. Rank(p) \in Int
    BY <2>1, RankedFacts
  <2>3. threadsCount' < MaxThreads /\ Running(numActive)' => Rank(p) < numActive'
    BY <1>1, <2>1, <2>2 DEF IdInv, RanksBelow, SameJob, SameRun
  <2>4. QED
    BY <2>1, <2>3 DEF IdInv, RanksBelow
<1>6. IdsInRange'
  <2> SUFFICES ASSUME NEW p \in Procs, pc'[p] \in RunPCs
               PROVE  threadId'[p] \in 0 .. (threadsCount' - 1)
    BY DEF IdsInRange
  <2>1. p \in Working' /\ threadId'[p] = threadId[p] /\ threadsCount' = threadsCount
    BY DEF SameJob, Working
  <2>2. CASE pc[p] \in RunPCs
    BY <2>1, <2>2 DEF IdInv, IdsInRange
  <2>3. CASE p \in Callers
    BY <1>1, <2>1, <2>3 DEF IdInv, CallerIds
  <2>4. QED
    BY <2>2, <2>3 DEF SameJob
<1>7. OwnIds'
  BY DEF IdInv, OwnIds, SameJob, Working
<1>8. CallerIds'
  BY DEF IdInv, CallerIds, SameJob
<1>9. QED
  BY <1>4, <1>5, <1>6, <1>7, <1>8 DEF IdInv

\* Nobody is in a job while it is prepared, and its caller is rank zero in it.
LEMMA BeginKeepsIds ==
    ASSUME CountInv, TypeOK', JobInv, IdInv, NEW c \in Callers,
           \/ LockAndPrepare(c) \/ Restore(c) \/ Publish(c)
           \/ \E n \in 0 .. (MaxThreads + 1) : SetThreadsCount(c, n)
    PROVE  IdInv'
<1> USE ProcsFacts
<1>1. executionMutex = Nobody \/ (executionMutex = c /\ ~Waits(c))
  BY DEF LockAndPrepare, Restore, Publish, SetThreadsCount, CountInv, MutexHeld, OwnsMutex, InJob,
         Waits, Participants, EnsurePCs, RunPCs, WrapPCs
<1>2. Participants = {}
  BY <1>1, OwnerAlone, NobodyWaits
<1>3. /\ threadId' = threadId
      /\ \A p \in Procs \ {c} : pc'[p] = pc[p]
      /\ \/ pc'[c] \in {"publish", "idle"}
         \/ pc'[c] = "ensStart" /\ numActive' = 1
  BY DEF LockAndPrepare, Restore, Publish, SetThreadsCount, Goto, CountInv, TypeOK, localVars,
         runVars
<1>4. Ranked' \subseteq {c} /\ (c \in Ranked' => pc'[c] = "ensStart" /\ numActive' = 1)
  BY <1>2, <1>3 DEF Ranked, Working, Participants, RunPCs, EnsurePCs
<1>5. threadId'[c] = 0
  BY <1>3 DEF IdInv, CallerIds
<1>6. RanksDiffer'
  BY <1>4 DEF RanksDiffer
<1>7. RanksBelow'
  <2>1. \A p \in Procs : p \in Ranked' => Rank(p)' = 0 /\ pc'[p] # "joined" /\ numActive' = 1
    BY <1>4, <1>5 DEF Rank
  <2>2. Ranked' \subseteq Procs
    BY <1>4
  <2>3. QED
    BY <2>1, <2>2 DEF RanksBelow
<1>8. IdsInRange' /\ OwnIds'
  <2>1. \A p \in Procs : pc'[p] \notin RunPCs
    BY <1>2, <1>3 DEF Participants, RunPCs
  <2>2. QED
    BY <2>1 DEF IdsInRange, OwnIds
<1>9. CallerIds'
  BY <1>3 DEF IdInv, CallerIds
<1>10. QED
  BY <1>6, <1>7, <1>8, <1>9 DEF IdInv

\* A worker's rank is the count it raises, which is above every rank given out.
LEMMA JoinKeepsIds ==
    ASSUME CountInv, CountInv', JobInv, IdInv, NEW w \in Workers, TryJoin(w)
    PROVE  IdInv'
<1> USE ProcsFacts
<1>0. TypeOK /\ TypeOK' /\ numActive \in Int
  BY DEF CountInv, TypeOK
<1>1. CASE numActive # curr[w]
  <2>1. pc' = pc /\ threadId' = threadId /\ threadsCount' = threadsCount /\ numActive' = numActive
        /\ pc[w] = "loop" /\ \A p \in Procs \ {w} : curr'[p] = curr[p]
    BY <1>0, <1>1 DEF TryJoin, TypeOK, localVars, runVars, sharedVars, sizeVars
  <2>2. Ranked' = Ranked /\ \A p \in Ranked : Rank(p)' = Rank(p)
    BY <1>0, <2>1 DEF Ranked, Rank, Working, TypeOK, EnsurePCs, RunPCs
  <2>3. RanksDiffer' /\ RanksBelow'
    BY <2>1, <2>2 DEF IdInv, RanksDiffer, RanksBelow
  <2>4. IdsInRange' /\ OwnIds' /\ CallerIds'
    BY <2>1 DEF IdInv, IdsInRange, OwnIds, CallerIds
  <2>5. QED
    BY <2>3, <2>4 DEF IdInv
<1>2. CASE numActive = curr[w]
  <2>1. /\ pc[w] = "loop" /\ pc'[w] = "joined" /\ curr' = curr /\ threadId' = threadId
        /\ threadsCount' = threadsCount /\ numActive' = numActive + 1 /\ Running(numActive)
        /\ \A p \in Procs \ {w} : pc'[p] = pc[p]
    BY <1>0, <1>2 DEF TryJoin, Goto, TypeOK, localVars, runVars, sharedVars, sizeVars
  <2>2. w \notin Ranked /\ Ranked' = Ranked \cup {w}
    BY <1>0, <2>1 DEF Ranked, Working, TypeOK, EnsurePCs, RunPCs
  <2>3. Rank(w)' = numActive /\ \A p \in Ranked : Rank(p)' = Rank(p) /\ Rank(p) \in Int
    <3>1. \A p \in Ranked : p # w /\ p \in Procs
      BY <2>2 DEF Ranked
    <3>2. QED
      BY <1>0, <1>2, <2>1, <3>1, RankedFacts DEF Rank
  <2>4. threadsCount < MaxThreads => \A p \in Ranked : Rank(p) < numActive
    BY <2>1 DEF IdInv, RanksBelow
  <2>5. RanksDiffer'
    BY <1>0, <2>1, <2>2, <2>3, <2>4 DEF IdInv, RanksDiffer
  <2>6. RanksBelow'
    <3>1. numActive >= 1
      BY <1>0, <2>1 DEF Running
    <3>2. \A p \in Ranked : pc'[p] = pc[p]
      BY <2>1, <2>2 DEF Ranked
    <3>3. QED
      BY <1>0, <2>1, <2>2, <2>3, <2>4, <3>1, <3>2 DEF IdInv, RanksBelow
  <2>7. IdsInRange' /\ OwnIds' /\ CallerIds'
    BY <2>1 DEF IdInv, IdsInRange, OwnIds, CallerIds, RunPCs
  <2>8. QED
    BY <2>5, <2>6, <2>7 DEF IdInv
<1>3. QED
  BY <1>1, <1>2

\* A worker that is admitted keeps its rank in a job of fewer threads, and goes
\* by its own id in a job of all of them.
LEMMA AdmitKeepsIds ==
    ASSUME CountInv, CountInv', JobInv, IdInv, NEW w \in Workers, Admit(w)
    PROVE  IdInv'
<1> USE ProcsFacts
<1>0. TypeOK /\ TypeOK' /\ threadsCount \in 0 .. MaxThreads /\ MaxThreads \in Nat
  BY SizesAssumption DEF CountInv, TypeOK
<1>1. /\ pc[w] = "joined" /\ threadsCount' = threadsCount /\ numActive' = numActive
      /\ \A p \in Procs \ {w} : pc'[p] = pc[p] /\ curr'[p] = curr[p] /\ threadId'[p] = threadId[p]
      /\ \/ HasPlace(w) /\ pc'[w] = "work" /\ threadId'[w] = IdInJob(w)
         \/ pc'[w] = "wrapLoad" /\ threadId'[w] = threadId[w]
  BY <1>0 DEF Admit, Goto, TypeOK, sharedVars, sizeVars
<1>2. w \in Ranked /\ Rank(w) = curr[w] /\ curr[w] \in Int /\ curr[w] >= 1
  BY <1>0, <1>1 DEF Ranked, Rank, IdInv, RanksBelow, TypeOK
<1>3. TidOf(w) \in 1 .. (MaxThreads - 1)
  BY DEF Tids
<1>4. \A p \in Procs \ {w} : /\ p \in Ranked' <=> p \in Ranked
                             /\ Rank(p)' = Rank(p)
  BY <1>1 DEF Ranked, Working, Rank
<1>5. w \in Ranked' => /\ pc'[w] = "work" /\ HasPlace(w)
                       /\ Rank(w)' = IF threadsCount < MaxThreads THEN curr[w] ELSE TidOf(w)
  BY <1>1 DEF Ranked, Working, Rank, RunPCs, IdInJob
<1>6. Ranked' \subseteq Procs /\ Ranked \subseteq Procs
  BY DEF Ranked
<1>7. RanksDiffer'
  <2> SUFFICES ASSUME threadsCount < MaxThreads, NEW p \in Procs, NEW q \in Procs, p # q,
                      p \in Ranked', q \in Ranked'
               PROVE  Rank(p)' # Rank(q)'
    BY <1>1, <1>6 DEF RanksDiffer
  <2>1. \A o \in {p, q} : o \in Ranked /\ Rank(o)' = Rank(o)
    BY <1>2, <1>4, <1>5
  <2>2. QED
    BY <2>1 DEF IdInv, RanksDiffer
<1>8. RanksBelow'
  <2> SUFFICES ASSUME NEW p \in Procs, p \in Ranked'
               PROVE  /\ Rank(p)' >= 0
                      /\ pc'[p] = "joined" => Rank(p)' >= 1
                      /\ threadsCount' < MaxThreads /\ Running(numActive)' => Rank(p)' < numActive'
    BY <1>6 DEF RanksBelow
  <2>1. CASE p # w
    BY <1>1, <1>4, <2>1 DEF IdInv, RanksBelow
  <2>2. CASE p = w
    <3>1. Rank(w)' >= 0 /\ pc'[w] # "joined"
      BY <1>2, <1>3, <1>5, <2>2
    <3>2. threadsCount < MaxThreads /\ Running(numActive) => Rank(w)' < numActive
      BY <1>2, <1>5, <2>2 DEF IdInv, RanksBelow
    <3>3. QED
      BY <1>1, <2>2, <3>1, <3>2
  <2>3. QED
    BY <2>1, <2>2
<1>9. IdsInRange'
  <2>1. pc'[w] = "work" => threadId'[w] \in 0 .. (threadsCount - 1)
    BY <1>0, <1>1, <1>2, <1>3 DEF HasPlace, IdInJob
  <2>2. QED
    BY <1>1, <2>1 DEF IdInv, IdsInRange, RunPCs
<1>10. OwnIds'
  BY <1>0, <1>1 DEF IdInv, OwnIds, IdInJob, RunPCs
<1>11. CallerIds'
  BY <1>1 DEF IdInv, CallerIds
<1>12. QED
  BY <1>7, <1>8, <1>9, <1>10, <1>11 DEF IdInv

LEMMA IdInvStep == CountInv /\ CountInv' /\ JobInv /\ IdInv /\ [Next]_vars => IdInv'
<1> SUFFICES ASSUME CountInv, CountInv', JobInv, IdInv, [Next]_vars PROVE IdInv'
  OBVIOUS
<1>1. TypeOK /\ TypeOK'
  BY DEF CountInv
<1>2. JobGoesOn => IdInv'
  BY <1>1, SameJobSteps, SameRunSteps, SameJobKeepsIds
<1>3. ASSUME NEW w \in Workers, WorkerStep(w) PROVE IdInv'
  BY <1>1, <1>2, <1>3, ProcsFacts, JoinKeepsIds, AdmitKeepsIds
     DEF JobGoesOn, WorkerStep, WorkerMove, SharedStep
<1>4. ASSUME NEW c \in Callers, CallerStep(c) PROVE IdInv'
  BY <1>1, <1>2, <1>4, ProcsFacts, BeginKeepsIds
     DEF JobGoesOn, CallerStep, CallerMove, SharedStep
<1>5. ASSUME NEW c \in Callers, ApplicationStep(c) PROVE IdInv'
  BY <1>1, <1>2, <1>5, BeginKeepsIds DEF JobGoesOn, ApplicationStep
<1>6. CASE UNCHANGED vars
  BY <1>2, <1>6 DEF JobGoesOn
<1>7. QED
  BY <1>3, <1>4, <1>5, <1>6 DEF Next, Terminated

LEMMA IdInvInit == Init => IdInv
<1> SUFFICES ASSUME Init PROVE IdInv
  OBVIOUS
<1>1. \A p \in Procs : pc[p] \in {"idle", "start", "exited"}
  BY DEF Init
<1>2. Ranked = {}
  BY <1>1 DEF Ranked, Working, RunPCs, EnsurePCs
<1>3. RanksDiffer /\ RanksBelow
  BY <1>2 DEF RanksDiffer, RanksBelow
<1>4. IdsInRange /\ OwnIds
  BY <1>1, ProcsFacts DEF IdsInRange, OwnIds, RunPCs
<1>5. CallerIds
  BY ProcsFacts DEF CallerIds, Init
<1>6. QED
  BY <1>3, <1>4, <1>5 DEF IdInv

LEMMA IdInvariant == Spec => []IdInv
<1>1. Spec => [](CountInv /\ JobInv)
  BY CountInvariant, JobInvariant, PTL
<1>2. QED
  BY <1>1, IdInvInit, IdInvStep, PTL DEF Spec

\* No two threads run on one thread_info.
OneOnEach ==
    \A v, w \in Workers :
        pc[v] \in RunPCs /\ pc[w] \in RunPCs /\ TidOf(v) = TidOf(w) => v = w

LEMMA OneOfOwn == LifeInv /\ executor = NoExecutor => OneOnEach
<1> SUFFICES ASSUME LifeInv, executor = NoExecutor, NEW v \in Workers, NEW w \in Workers,
                    pc[v] \in RunPCs, pc[w] \in RunPCs, TidOf(v) = TidOf(w)
             PROVE  v = w
  BY DEF OneOnEach
<1>1. v[2] = 1 /\ w[2] = 1
  BY DEF LifeInv, OwnThreads, RunPCs
<1>2. QED
  BY <1>1 DEF Workers, TidOf

LEMMA OneOfBorrowed == TypeOK /\ OneThreadPerInfo => OneOnEach
<1> SUFFICES ASSUME TypeOK, OneThreadPerInfo, NEW v \in Workers, NEW w \in Workers,
                    pc[v] \in RunPCs, pc[w] \in RunPCs, TidOf(v) = TidOf(w), v # w
             PROVE  FALSE
  BY DEF OneOnEach
<1>1. PICK t \in Tids : t = TidOf(v)
  BY ProcsFacts
<1>2. v \in Holders(t) /\ w \in Holders(t)
  BY <1>1 DEF Holders, RunPCs
<1>3. IsFiniteSet(Holders(t)) /\ Cardinality(Holders(t)) \in {0, 1}
  BY HoldersFacts DEF OneThreadPerInfo, TypeOK
<1>4. IsFiniteSet(Holders(t) \ {v}) /\ Cardinality(Holders(t) \ {v}) = Cardinality(Holders(t)) - 1
  BY <1>2, <1>3, FS_RemoveElement
<1>5. Holders(t) \ {v} # {}
  BY <1>2
<1>6. Cardinality(Holders(t) \ {v}) # 0
  BY <1>4, <1>5, FS_EmptySet
<1>7. Cardinality(Holders(t) \ {v}) \in Nat
  BY <1>4, FS_CardinalityType
<1>8. QED
  BY <1>3, <1>4, <1>6, <1>7

LEMMA IdsAreUnique == CountInv /\ IdInv /\ OneOnEach => UniqueThreadIds
<1> SUFFICES ASSUME CountInv, IdInv, OneOnEach, NEW p \in Procs, pc[p] \in RunPCs
             PROVE  /\ threadId[p] < threadsCount
                    /\ \A q \in Procs \ {p} : pc[q] \in RunPCs => threadId[q] # threadId[p]
  BY DEF UniqueThreadIds
<1>1. TypeOK /\ threadsCount \in 0 .. MaxThreads /\ MaxThreads \in Nat
  BY SizesAssumption DEF CountInv, TypeOK
<1>2. threadId[p] < threadsCount
  BY <1>1 DEF IdInv, IdsInRange
<1>3. ASSUME NEW q \in Procs \ {p}, pc[q] \in RunPCs PROVE threadId[q] # threadId[p]
  <2>1. CASE threadsCount < MaxThreads
    <3>1. /\ p \in Ranked /\ Rank(p) = threadId[p]
          /\ q \in Ranked /\ Rank(q) = threadId[q]
      BY <1>3 DEF Ranked, Working, Rank, RunPCs
    <3>2. QED
      BY <2>1, <3>1 DEF IdInv, RanksDiffer
  <2>2. CASE threadsCount = MaxThreads
    <3>1. \A w \in Workers : pc[w] \in RunPCs => threadId[w] = TidOf(w) /\ TidOf(w) # 0
      BY <2>2, ProcsFacts DEF IdInv, OwnIds, Tids
    <3>2. \A c \in Callers : pc[c] \in RunPCs => threadId[c] = 0 /\ executionMutex = c
      BY DEF IdInv, CallerIds, CountInv, MutexHeld, OwnsMutex, InJob
    <3>3. QED
      BY <1>3, <3>1, <3>2 DEF OneOnEach, Procs
  <2>3. QED
    BY <1>1, <2>1, <2>2
<1>4. QED
  BY <1>2, <1>3

\* The threads that run a job's function at one time have different ids, each
\* below threads_count, in a pool that runs threads of its own or borrows them
\* from executors, for every order of joins, departures, resizes and changes
\* of executor.  A pool that begins with the one kind and goes over to the
\* other has two threads on one thread_info, and a run shows the ids collide.
THEOREM ThreadIdsAreUnique ==
    ASSUME Executors = {} \/ FirstExecutors \subseteq Executors
    PROVE  Spec => []UniqueThreadIds
<1>1. Spec => [](TypeOK /\ LifeInv /\ CountInv /\ IdInv)
  BY TypeCorrect, LifeInvariant, CountInvariant, IdInvariant, PTL
<1>2. CASE Executors = {}
  <2>1. LifeInv => OneOnEach
    BY <1>2, OneOfOwn DEF LifeInv, TypeOK
  <2>2. QED
    BY <1>1, <2>1, IdsAreUnique, PTL
<1>3. CASE FirstExecutors \subseteq Executors
  <2>1. Spec => []HolderInv
    BY <1>3, HolderInvariant
  <2>2. TypeOK /\ HolderInv => OneOnEach
    BY OneOfBorrowed DEF HolderInv
  <2>3. QED
    BY <1>1, <2>1, <2>2, IdsAreUnique, PTL
<1>4. QED
  BY <1>2, <1>3

-----------------------------------------------------------------------------
(* job_id: numbered under execution_mutex, read by the threads that join.  *)

\* Every call that was let through has a number left before job_id wraps.
NumbersLeft == jobId + Cardinality(Locking) <= MaxJobs + Cardinality(Callers)

\* A job that is about to be published has a number no thread has seen ...
FreshNumber ==
    \A c \in Callers : pc[c] = "publish" =>
        jobId >= 1 /\ \A w \in Workers : lastJobId[w] < jobId

\* ... and while it runs, only threads that are in it have.
SeenNumbers ==
    /\ Running(numActive) => jobId >= 1
    /\ \A w \in Workers :
          /\ lastJobId[w] <= jobId
          /\ pc[w] = "joined" => lastJobId[w] < jobId
          /\ Running(numActive) /\ lastJobId[w] = jobId => w \in Participants

NumberInv == NumbersLeft /\ FreshNumber /\ SeenNumbers

LEMMA LockingFacts ==
    /\ IsFiniteSet(Callers) /\ IsFiniteSet(Locking)
    /\ Cardinality(Locking) \in Nat /\ Cardinality(Callers) \in Nat
    /\ Cardinality(Locking) <= Cardinality(Callers)
<1>1. IsFiniteSet(Callers) /\ Locking \subseteq Callers
  BY CallersAssumption DEF Locking
<1>2. QED
  BY <1>1, FS_Subset, FS_CardinalityType

LEMMA LockingNext ==
    /\ Cardinality(Locking') \in Nat
    /\ Cardinality(Locking') <= Cardinality(Callers)
    /\ Locking' \subseteq Locking => Cardinality(Locking') <= Cardinality(Locking)
    /\ \A c \in Locking : Locking' \subseteq Locking \ {c} =>
          Cardinality(Locking') <= Cardinality(Locking) - 1
<1>1. IsFiniteSet(Callers) /\ Locking' \subseteq Callers
  BY CallersAssumption DEF Locking
<1>2. Cardinality(Locking') \in Nat /\ Cardinality(Locking') <= Cardinality(Callers)
  BY <1>1, FS_Subset, FS_CardinalityType
<1>3. ASSUME Locking' \subseteq Locking PROVE Cardinality(Locking') <= Cardinality(Locking)
  BY <1>3, LockingFacts, FS_Subset
<1>4. ASSUME NEW c \in Locking, Locking' \subseteq Locking \ {c}
      PROVE  Cardinality(Locking') <= Cardinality(Locking) - 1
  <2>1. IsFiniteSet(Locking \ {c}) /\ Cardinality(Locking \ {c}) = Cardinality(Locking) - 1
    BY LockingFacts, FS_RemoveElement
  <2>2. Cardinality(Locking') <= Cardinality(Locking \ {c})
    BY <1>4, <2>1, FS_Subset
  <2>3. QED
    BY <2>1, <2>2
<1>5. QED
  BY <1>2, <1>3, <1>4

LEMMA SameJobKeepsNumbers ==
    ASSUME TypeOK, NumberInv, SameJob, SameRun
    PROVE  NumberInv'
<1>1. /\ jobId' = jobId /\ jobId \in Nat
      /\ \A w \in Workers : lastJobId[w] \in Nat /\ lastJobId'[w] \in {0, lastJobId[w]}
  BY JobsAssumption DEF TypeOK, SameJob
<1>2. NumbersLeft'
  <2>1. jobId + Cardinality(Locking') <= MaxJobs + Cardinality(Callers)
    BY <1>1, LockingFacts, LockingNext, JobsAssumption DEF NumberInv, NumbersLeft, SameJob
  <2>2. QED
    BY <1>1, <2>1 DEF NumbersLeft
<1>3. FreshNumber'
  BY <1>1 DEF NumberInv, FreshNumber, SameJob
<1>4. SeenNumbers'
  <2>1. Running(numActive)' => jobId' >= 1
    BY <1>1 DEF NumberInv, SeenNumbers, SameRun
  <2>2. ASSUME NEW w \in Workers
        PROVE  /\ lastJobId'[w] <= jobId'
               /\ pc'[w] = "joined" => lastJobId'[w] < jobId'
    BY <1>1, <2>2, ProcsFacts DEF NumberInv, SeenNumbers, SameJob
  <2>3. ASSUME NEW w \in Workers, Running(numActive)', lastJobId'[w] = jobId'
        PROVE  w \in Participants'
    <3>1. Running(numActive) /\ jobId >= 1 /\ Participants \subseteq Participants'
      BY <2>3 DEF SameRun, NumberInv, SeenNumbers
    <3>2. lastJobId[w] = jobId
      BY <1>1, <2>3, <3>1
    <3>3. QED
      BY <3>1, <3>2 DEF NumberInv, SeenNumbers
  <2>4. QED
    BY <2>1, <2>2, <2>3 DEF SeenNumbers
<1>5. QED
  BY <1>2, <1>3, <1>4 DEF NumberInv

\* Nobody is in a job when the next one gets its number.
LEMMA NumberedAlone ==
    ASSUME CountInv, NEW c \in Callers, executionMutex = Nobody \/ pc[c] \in {"publish", "restore"}
    PROVE  /\ ~Running(numActive) /\ Participants = {}
           /\ \A w \in Workers : pc[w] # "joined"
<1>1. executionMutex = Nobody \/ (executionMutex = c /\ ~Waits(c))
  BY ProcsFacts DEF CountInv, MutexHeld, OwnsMutex, InJob, Waits, Participants, EnsurePCs, RunPCs,
                    WrapPCs
<1>2. Participants = {} /\ numActive \in {0, DONE}
  BY <1>1, OwnerAlone, NobodyWaits
<1>3. ~Running(numActive)
  BY <1>2, DoneFacts DEF Running
<1>4. \A w \in Workers : pc[w] # "joined"
  BY <1>2, ProcsFacts DEF Participants
<1>5. QED
  BY <1>2, <1>3, <1>4

LEMMA PrepareKeepsNumbers ==
    ASSUME MaxJobs + Cardinality(Callers) < JobIdModulus,
           CountInv, NumberInv, NEW c \in Callers, LockAndPrepare(c)
    PROVE  NumberInv'
<1> USE ProcsFacts
<1>1. /\ jobId \in Nat /\ JobIdModulus \in Nat /\ MaxJobs \in Nat
      /\ \A w \in Workers : lastJobId[w] \in Nat
  BY JobsAssumption DEF CountInv, TypeOK
<1>2. ~Running(numActive) /\ \A w \in Workers : pc[w] # "joined"
  BY NumberedAlone DEF LockAndPrepare
<1>3. /\ pc[c] = "lock" /\ pc'[c] = "publish" /\ \A p \in Procs \ {c} : pc'[p] = pc[p]
      /\ numActive' = numActive /\ lastJobId' = lastJobId
      /\ jobId' = (jobId + 1) % JobIdModulus
  BY DEF LockAndPrepare, Goto, CountInv, TypeOK, runVars
<1>4. c \in Locking /\ Locking' \subseteq Locking \ {c}
  BY <1>3 DEF Locking
<1>5. Cardinality(Locking) >= 1 /\ Cardinality(Locking') <= Cardinality(Locking) - 1
  BY <1>4, LockingFacts, LockingNext
<1>6. jobId + 1 < JobIdModulus
  BY <1>1, <1>5, LockingFacts DEF NumberInv, NumbersLeft
<1>7. jobId' = jobId + 1
  BY <1>1, <1>3, <1>6
<1>8. NumbersLeft'
  <2>1. jobId' + Cardinality(Locking') <= MaxJobs + Cardinality(Callers)
    BY <1>1, <1>5, <1>7, LockingFacts, LockingNext DEF NumberInv, NumbersLeft
  <2>2. QED
    BY <2>1 DEF NumbersLeft
<1>9. \A w \in Workers : lastJobId'[w] < jobId' /\ pc'[w] # "joined"
  BY <1>1, <1>2, <1>3, <1>7 DEF NumberInv, SeenNumbers
<1>10. FreshNumber'
  BY <1>1, <1>7, <1>9 DEF FreshNumber
<1>11. SeenNumbers'
  <2>1. ~Running(numActive)'
    BY <1>2, <1>3
  <2>2. \A w \in Workers : lastJobId'[w] <= jobId'
    BY <1>1, <1>2, <1>3, <1>7 DEF NumberInv, SeenNumbers
  <2>3. QED
    BY <1>9, <2>1, <2>2 DEF SeenNumbers
<1>12. QED
  BY <1>8, <1>10, <1>11 DEF NumberInv

LEMMA PublishKeepsNumbers ==
    ASSUME CountInv, TypeOK', NumberInv, NEW c \in Callers,
           \/ Publish(c) \/ Restore(c)
           \/ \E n \in 0 .. (MaxThreads + 1) : SetThreadsCount(c, n)
    PROVE  NumberInv'
<1> USE ProcsFacts
<1>1. ~Running(numActive) /\ \A w \in Workers : pc[w] # "joined"
  BY NumberedAlone DEF Publish, Restore, SetThreadsCount
<1>2. /\ jobId' = jobId /\ lastJobId' = lastJobId /\ \A p \in Procs \ {c} : pc'[p] = pc[p]
      /\ \/ pc[c] = "publish" /\ pc'[c] = "ensStart"
         \/ numActive' = numActive /\ pc'[c] = "idle"
  BY DEF Publish, Restore, SetThreadsCount, Goto, CountInv, TypeOK, sharedVars, jobVars, localVars,
         runVars
<1>3. jobId \in Nat /\ \A w \in Workers : lastJobId[w] \in Nat
  BY JobsAssumption DEF CountInv, TypeOK
<1>4. NumbersLeft'
  <2>1. Locking' \subseteq Locking
    BY <1>2 DEF Locking
  <2>2. jobId' + Cardinality(Locking') <= MaxJobs + Cardinality(Callers)
    BY <1>2, <1>3, <2>1, LockingFacts, LockingNext, JobsAssumption DEF NumberInv, NumbersLeft
  <2>3. QED
    BY <2>2 DEF NumbersLeft
<1>5. FreshNumber'
  BY <1>2 DEF NumberInv, FreshNumber
<1>6. SeenNumbers'
  <2>1. Running(numActive)' => jobId >= 1 /\ \A w \in Workers : lastJobId[w] < jobId
    BY <1>1, <1>2 DEF NumberInv, FreshNumber
  <2>2. \A w \in Workers : lastJobId'[w] <= jobId' /\ pc'[w] # "joined"
    BY <1>1, <1>2 DEF NumberInv, SeenNumbers
  <2>3. QED
    BY <1>2, <1>3, <2>1, <2>2 DEF SeenNumbers
<1>7. QED
  BY <1>4, <1>5, <1>6 DEF NumberInv

LEMMA JoinKeepsNumbers ==
    ASSUME CountInv, CountInv', NumberInv, NEW w \in Workers, TryJoin(w) \/ Admit(w)
    PROVE  NumberInv'
<1> USE ProcsFacts
<1>1. /\ jobId' = jobId /\ jobId \in Nat /\ TypeOK /\ TypeOK'
      /\ \A v \in Workers : lastJobId[v] \in Nat
  BY JobsAssumption DEF TryJoin, Admit, CountInv, TypeOK, sharedVars, jobVars
<1>2. \A p \in Procs \ {w} : pc'[p] = pc[p]
  BY <1>1 DEF TryJoin, Admit, Goto, TypeOK
<1>3. \A c \in Callers : pc'[c] = pc[c]
  BY <1>2
<1>4. NumbersLeft'
  <2>1. Locking' = Locking
    BY <1>3 DEF Locking
  <2>2. Cardinality(Locking)' = Cardinality(Locking)
    BY <2>1
  <2>3. QED
    BY <1>1, <2>2 DEF NumberInv, NumbersLeft
<1>5. CASE TryJoin(w)
  <2>1. lastJobId' = lastJobId /\ Participants \subseteq Participants'
    BY <1>1, <1>5 DEF TryJoin, Goto, Participants, TypeOK, EnsurePCs, RunPCs, WrapPCs, localVars,
                      runVars
  <2>2. /\ Running(numActive)' => Running(numActive)
        /\ pc'[w] = "joined" => Running(numActive)
    BY <1>1, <1>5 DEF TryJoin, Goto, TypeOK
  <2>3. w \notin Participants
    BY <1>5 DEF TryJoin, Participants, EnsurePCs, RunPCs, WrapPCs
  <2>4. pc'[w] = "joined" => lastJobId[w] < jobId
    BY <1>1, <2>2, <2>3 DEF NumberInv, SeenNumbers
  <2>5. SeenNumbers'
    BY <1>1, <1>2, <2>1, <2>2, <2>4 DEF NumberInv, SeenNumbers
  <2>6. FreshNumber'
    BY <1>1, <1>3, <2>1 DEF NumberInv, FreshNumber
  <2>7. QED
    BY <1>4, <2>5, <2>6 DEF NumberInv
<1>6. CASE Admit(w)
  <2>1. /\ pc[w] = "joined" /\ pc'[w] \in {"work", "wrapLoad"} /\ numActive' = numActive
        /\ lastJobId'[w] = jobId /\ \A v \in Workers \ {w} : lastJobId'[v] = lastJobId[v]
    BY <1>1, <1>6 DEF Admit, Goto, TypeOK
  <2>2. w \in Participants' /\ Participants \subseteq Participants'
    BY <1>2, <2>1 DEF Participants, RunPCs, WrapPCs
  <2>3. \A c \in Callers : pc[c] # "publish"
    BY <2>1, NumberedAlone
  <2>4. FreshNumber'
    BY <1>3, <2>3 DEF FreshNumber
  <2>5. SeenNumbers'
    BY <1>1, <1>2, <2>1, <2>2 DEF NumberInv, SeenNumbers
  <2>6. QED
    BY <1>4, <2>4, <2>5 DEF NumberInv
<1>7. QED
  BY <1>5, <1>6

LEMMA NumberInvStep ==
    ASSUME MaxJobs + Cardinality(Callers) < JobIdModulus
    PROVE  CountInv /\ CountInv' /\ NumberInv /\ [Next]_vars => NumberInv'
<1> SUFFICES ASSUME CountInv, CountInv', NumberInv, [Next]_vars PROVE NumberInv'
  OBVIOUS
<1>1. TypeOK /\ TypeOK'
  BY DEF CountInv
<1>2. JobGoesOn => NumberInv'
  BY <1>1, SameJobSteps, SameRunSteps, SameJobKeepsNumbers
<1>3. ASSUME NEW w \in Workers, WorkerStep(w) PROVE NumberInv'
  BY <1>1, <1>2, <1>3, ProcsFacts, JoinKeepsNumbers
     DEF JobGoesOn, WorkerStep, WorkerMove, SharedStep
<1>4. ASSUME NEW c \in Callers, CallerStep(c) PROVE NumberInv'
  BY <1>1, <1>2, <1>4, ProcsFacts, PrepareKeepsNumbers, PublishKeepsNumbers
     DEF JobGoesOn, CallerStep, CallerMove, SharedStep
<1>5. ASSUME NEW c \in Callers, ApplicationStep(c) PROVE NumberInv'
  BY <1>1, <1>2, <1>5, PublishKeepsNumbers DEF JobGoesOn, ApplicationStep
<1>6. CASE UNCHANGED vars
  BY <1>2, <1>6 DEF JobGoesOn
<1>7. QED
  BY <1>3, <1>4, <1>5, <1>6 DEF Next, Terminated

LEMMA NumberInvInit == Init => NumberInv
<1> SUFFICES ASSUME Init PROVE NumberInv
  OBVIOUS
<1>1. \A p \in Procs : pc[p] \in {"idle", "start", "exited"}
  BY DEF Init
<1>2. numActive = 0 /\ jobId = 0 /\ \A w \in Workers : lastJobId[w] = 0
  BY DEF Init
<1>3. NumbersLeft
  BY <1>2, LockingFacts, JobsAssumption DEF NumbersLeft
<1>4. FreshNumber
  BY <1>1, ProcsFacts DEF FreshNumber
<1>5. SeenNumbers
  BY <1>1, <1>2, ProcsFacts DEF SeenNumbers, Running
<1>6. QED
  BY <1>3, <1>4, <1>5 DEF NumberInv

\* A thread never joins a job whose number it has seen, as the assertion of the
\* workers says, as long as job_id does not come round: a call in progress may
\* still add one to the numbers of the jobs the model bounds.  With fewer
\* numbers than jobs the assertion fails.
THEOREM JobIdsNeverRepeat ==
    ASSUME MaxJobs + Cardinality(Callers) < JobIdModulus
    PROVE  Spec => []JobIdsGrow
<1>1. NumberInv => JobIdsGrow
  BY DEF NumberInv, SeenNumbers, JobIdsGrow
<1>2. Spec => []CountInv
  BY CountInvariant
<1>3. QED
  BY <1>1, <1>2, NumberInvInit, NumberInvStep, PTL DEF Spec
================================================================================
