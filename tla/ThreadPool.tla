----------------------------- MODULE ThreadPool -----------------------------
(***************************************************************************)
(* The thread protocol of src/src/pthreads.c: how a call to                *)
(* pthreadpool_parallelize publishes a job, how worker threads join it,    *)
(* leave it, and report that the last of them is out; how threads borrowed *)
(* from an executor are scheduled, given back and counted; and how the     *)
(* pool is resized, moved to another executor and destroyed.               *)
(*                                                                         *)
(* Every access to a variable that several threads touch is a step of its  *)
(* own, in the order of the code; accesses to variables only the holder of *)
(* execution_mutex can see are folded into the neighbouring step.  Memory  *)
(* is sequentially consistent.  A wait is modelled as the reload loop it   *)
(* is: sleeping in the kernel is added by modules that extend this one.    *)
(* The items of a job are anonymous here (remaining counts the unclaimed   *)
(* ones); WorkStealing models how they are claimed.                        *)
(***************************************************************************)
EXTENDS Integers, FiniteSets

CONSTANTS
    Callers,        \* application threads that use the pool
    MaxThreads,     \* max_num_threads, the caller's thread included
    Generations,    \* bound: thread_main activations of one thread_info at once
    Ranges,         \* the values of linear_range jobs are started with
    MaxJobs,        \* bound: no job is started once job_id has reached it
    JobIdModulus,   \* job_id is an unsigned integer modulo this (2^32 in the code)
    Executors,      \* executor objects, each with its own context
    NoExecutor,     \* a NULL executor: the pool runs threads of its own
    FirstExecutors, \* what pthreadpool_create_v2 may be given
    Nobody          \* execution_mutex is not held

DONE == 2147483647  \* PTHREADPOOL_NUM_ACTIVE_THREADS_DONE, INT_MAX

Tids    == 1 .. (MaxThreads - 1)
Workers == Tids \X (1 .. Generations)
Procs   == Callers \cup Workers
TidOf(w) == w[1]

ASSUME CallersAssumption ==
    /\ IsFiniteSet(Callers)
    /\ Callers \cap Workers = {}
    /\ Nobody \notin Callers
ASSUME SizesAssumption ==
    /\ MaxThreads \in Nat \ {0, 1}
    /\ Generations \in Nat \ {0}
    /\ Cardinality(Procs) < DONE
    /\ MaxThreads < DONE
ASSUME JobsAssumption ==
    /\ Ranges \subseteq Nat \ {0, 1}
    /\ MaxJobs \in Nat
    /\ JobIdModulus \in Nat \ {0}
ASSUME ExecutorsAssumption ==
    /\ NoExecutor \notin Executors
    /\ FirstExecutors \subseteq Executors \cup {NoExecutor}

VARIABLES
    numActive,        \* num_active_threads: > 0 running, < 0 wrapping up, 0 idle, DONE
    workIsDone,       \* work_is_done
    threadsCount,     \* threads_count
    jobId,            \* job_id
    remaining,        \* items of the current job that no thread has claimed yet
    executor,         \* the executor member, NoExecutor when it is zeroed
    executorContext,  \* whose context executor_context is
    isActive,         \* is_active of every thread_info
    numRecruited,     \* num_recruited_threads
    executionMutex,   \* the caller that holds execution_mutex, or Nobody
    freed,            \* pthreadpool_deallocate has run
    pc,               \* where every thread is
    curr,             \* its local curr_active_threads
    threadId,         \* the thread_id it runs thread_function with
    lastJobId,        \* a worker's last_job_id
    cursor,           \* ensure_num_threads: tid
    limit,            \* ensure_num_threads: max_num_threads
    toStart,          \* ensure_num_threads: num_threads_to_start
    range,            \* a caller's linear_range
    prevThreads,      \* a caller's prev_num_threads
    target            \* pthreadpool_update_executor's argument

sizeVars   == <<threadsCount, executionMutex, freed>>
jobVars    == <<workIsDone, jobId, remaining>>
execVars   == <<executor, executorContext, isActive, numRecruited>>
sharedVars == <<sizeVars, jobVars, execVars>>
scanVars   == <<cursor, limit, toStart>>
runVars    == <<threadId, lastJobId>>
callVars   == <<range, prevThreads, target>>
localVars  == <<scanVars, runVars, callVars>>
vars       == <<numActive, pc, curr, sharedVars, localVars>>

CallerPCs == {"idle", "lock", "publish", "awaitDone", "restore",
              "swapExecutor", "swapContext", "awaitThreads"}
WorkerPCs == {"exited", "start", "reload", "loop", "joined", "signalDone",
              "recheck", "reacquire", "release", "signalRecruited", "ensCheck"}
EnsurePCs == {"ensStart", "ensScan", "ensExchange", "ensRegister", "ensSchedule"}
RunPCs    == {"work", "item"}
WrapPCs   == {"wrapLoad", "wrapFlip", "wrapAdd"}

TypeOK ==
    /\ numActive \in Int
    /\ workIsDone \in {0, 1}
    /\ threadsCount \in 0 .. MaxThreads
    /\ jobId \in 0 .. (JobIdModulus - 1)
    /\ remaining \in Nat
    /\ executor \in Executors \cup {NoExecutor}
    /\ executorContext \in Executors \cup {NoExecutor}
    /\ isActive \in [Tids -> {0, 1}]
    /\ numRecruited \in Int
    /\ executionMutex \in Callers \cup {Nobody}
    /\ freed \in BOOLEAN
    /\ pc \in [Procs -> CallerPCs \cup WorkerPCs \cup EnsurePCs \cup RunPCs \cup WrapPCs]
    /\ \A c \in Callers : pc[c] \notin WorkerPCs
    /\ \A w \in Workers : pc[w] \notin CallerPCs
    /\ curr \in [Procs -> Int]
    /\ threadId \in [Procs -> Int]
    /\ lastJobId \in [Workers -> 0 .. (JobIdModulus - 1)]
    /\ cursor \in [Procs -> Nat]
    /\ limit \in [Procs -> Nat]
    /\ toStart \in [Procs -> Int]
    /\ range \in [Callers -> Ranges \cup {0}]
    /\ prevThreads \in [Callers -> 0 .. MaxThreads]
    /\ target \in [Callers -> Executors \cup {NoExecutor}]

\* pthreadpool_create_v2: with an executor no thread exists until a job asks
\* for it; without one the pool has started and counted a thread per tid.
Init ==
    /\ numActive = 0
    /\ workIsDone = 0
    /\ threadsCount = MaxThreads
    /\ jobId = 0
    /\ remaining = 0
    /\ executor \in FirstExecutors
    /\ executorContext = executor
    /\ isActive = [t \in Tids |-> 0]
    /\ numRecruited = IF executor = NoExecutor THEN MaxThreads - 1 ELSE 0
    /\ executionMutex = Nobody
    /\ freed = FALSE
    /\ pc = [p \in Procs |->
                IF p \in Callers THEN "idle"
                ELSE IF executor = NoExecutor /\ p[2] = 1 THEN "start"
                ELSE "exited"]
    /\ curr = [p \in Procs |-> 0]
    /\ threadId = [p \in Procs |-> 0]
    /\ lastJobId = [w \in Workers |-> 0]
    /\ cursor = [p \in Procs |-> 0]
    /\ limit = [p \in Procs |-> 0]
    /\ toStart = [p \in Procs |-> 0]
    /\ range = [c \in Callers |-> 0]
    /\ prevThreads = [c \in Callers |-> 0]
    /\ target = [c \in Callers |-> NoExecutor]

Smaller(a, b) == IF a < b THEN a ELSE b
Goto(p, label) == pc' = [pc EXCEPT ![p] = label]

\* The states of num_active_threads in which a worker may join the job.
NonzeroMutant(n) == n # 0 /\ n # DONE  \* of Running: "wrapping up" as well
Running(n) == n > 0 /\ n # DONE

\* The application may use the pool: nobody has begun to destroy it.
Usable == ~freed /\ \A c \in Callers : pc[c] # "awaitThreads"

-----------------------------------------------------------------------------
(* A call of pthreadpool_parallelize, up to the job's publication.         *)

\* A wrapper such as pthreadpool_parallelize_1d takes the parallel path after
\* an unlocked look at threads_count.
CallParallelize(c, r) ==
    /\ pc[c] = "idle"
    /\ Usable
    /\ jobId < MaxJobs
    /\ threadsCount > 1
    /\ range' = [range EXCEPT ![c] = r]
    /\ Goto(c, "lock")
    /\ UNCHANGED <<numActive, curr, sharedVars, scanVars, runVars, prevThreads,
                   target>>

\* Lock, number the job, reduce threads_count to the range, deal out the items.
LockAndPrepare(c) ==
    /\ pc[c] = "lock"
    /\ executionMutex = Nobody
    /\ executionMutex' = c
    /\ jobId' = (jobId + 1) % JobIdModulus
    /\ prevThreads' = [prevThreads EXCEPT ![c] = threadsCount]
    /\ threadsCount' = Smaller(range[c], threadsCount)
    /\ remaining' = range[c]
    /\ range' = [range EXCEPT ![c] = 0]
    /\ Goto(c, "publish")
    /\ UNCHANGED <<numActive, curr, freed, workIsDone, execVars, scanVars, runVars,
                   target>>

Publish(c) ==
    /\ pc[c] = "publish"
    /\ numActive' = 1
    /\ Goto(c, "ensStart")
    /\ UNCHANGED <<curr, sharedVars, localVars>>

-----------------------------------------------------------------------------
(* ensure_num_threads, run by the caller as thread 0 and by every thread   *)
(* that starts while a job is running.                                     *)

SelfId(p) == IF p \in Callers THEN 0 ELSE TidOf(p)

LeaveEnsure(p) ==
    /\ Goto(p, IF p \in Callers THEN "work" ELSE "reload")
    /\ cursor' = [cursor EXCEPT ![p] = 0]
    /\ limit' = [limit EXCEPT ![p] = 0]
    /\ toStart' = [toStart EXCEPT ![p] = 0]

EnsureStart(p) ==
    /\ pc[p] = "ensStart"
    /\ \/ /\ executor = NoExecutor
          /\ LeaveEnsure(p)
       \/ /\ executor # NoExecutor
          /\ limit' = [limit EXCEPT ![p] = threadsCount]
          /\ cursor' = [cursor EXCEPT ![p] = SelfId(p) + 1]
          /\ toStart' = [toStart EXCEPT ![p] = 2]
          /\ Goto(p, "ensScan")
    /\ UNCHANGED <<numActive, curr, sharedVars, runVars, callVars>>

ScanOver(p) == toStart[p] = 0 \/ cursor[p] >= limit[p]

\* Look at is_active of the next thread; only a worker then checks for work.
EnsureScan(p) ==
    /\ pc[p] = "ensScan"
    /\ \/ /\ ScanOver(p)
          /\ LeaveEnsure(p)
       \/ /\ ~ScanOver(p)
          /\ isActive[cursor[p]] = 1
          /\ cursor' = [cursor EXCEPT ![p] = @ + 1]
          /\ UNCHANGED <<pc, limit, toStart>>
       \/ /\ ~ScanOver(p)
          /\ isActive[cursor[p]] = 0
          /\ Goto(p, IF p \in Callers THEN "ensExchange" ELSE "ensCheck")
          /\ UNCHANGED scanVars
    /\ UNCHANGED <<numActive, curr, sharedVars, runVars, callVars>>

\* The check as written: it stops on "wrapping up" and DONE, not on idle.
EnsureCheck(p) ==
    /\ pc[p] = "ensCheck"
    /\ \/ /\ numActive < 0 \/ numActive = DONE
          /\ LeaveEnsure(p)
       \/ /\ numActive >= 0 /\ numActive # DONE
          /\ Goto(p, "ensExchange")
          /\ UNCHANGED scanVars
    /\ UNCHANGED <<numActive, curr, sharedVars, runVars, callVars>>

EnsureExchange(p) ==
    /\ pc[p] = "ensExchange"
    /\ isActive' = [isActive EXCEPT ![cursor[p]] = 1]
    /\ \/ /\ isActive[cursor[p]] = 0
          /\ Goto(p, "ensRegister")
          /\ UNCHANGED cursor
       \/ /\ isActive[cursor[p]] = 1
          /\ cursor' = [cursor EXCEPT ![p] = @ + 1]
          /\ Goto(p, "ensScan")
    /\ UNCHANGED <<numActive, curr, sizeVars, jobVars, executor, executorContext,
                   numRecruited, limit, toStart, runVars, callVars>>

UncountedMutant(n) == numRecruited  \* of Registered: the thread is not counted
Registered(n) == numRecruited + n

\* pthreadpool_register_threads
EnsureRegister(p) ==
    /\ pc[p] = "ensRegister"
    /\ numRecruited' = Registered(1)
    /\ Goto(p, "ensSchedule")
    /\ UNCHANGED <<numActive, curr, sizeVars, jobVars, executor, executorContext,
                   isActive, localVars>>

\* executor->schedule(executor_context, thread, thread_main): an activation of
\* thread_main exists from here on.  It takes the first free slot, slots having
\* no meaning in the code; Generations bounds how many are in use at once.
EnsureSchedule(p, w) ==
    /\ pc[p] = "ensSchedule"
    /\ TidOf(w) = cursor[p]
    /\ pc[w] = "exited"
    /\ \A g \in 1 .. (w[2] - 1) : pc[<<TidOf(w), g>>] # "exited"
    /\ pc' = [pc EXCEPT ![p] = "ensScan", ![w] = "start"]
    /\ cursor' = [cursor EXCEPT ![p] = @ + 1]
    /\ toStart' = [toStart EXCEPT ![p] = @ - 1]
    /\ UNCHANGED <<numActive, curr, sharedVars, limit, runVars, callVars>>

-----------------------------------------------------------------------------
(* run_thread_function: claim items until none is left.                    *)

TakeItem(p) ==
    /\ pc[p] = "work"
    /\ remaining > 0
    /\ remaining' = remaining - 1
    /\ Goto(p, "item")
    /\ UNCHANGED <<numActive, curr, sizeVars, workIsDone, jobId, execVars,
                   localVars>>

FinishItem(p) ==
    /\ pc[p] = "item"
    /\ Goto(p, "work")
    /\ UNCHANGED <<numActive, curr, sharedVars, localVars>>

LeaveWork(p) ==
    /\ pc[p] = "work"
    /\ remaining = 0
    /\ Goto(p, "wrapLoad")
    /\ threadId' = [threadId EXCEPT ![p] = 0]
    /\ UNCHANGED <<numActive, curr, sharedVars, scanVars, lastJobId, callVars>>

-----------------------------------------------------------------------------
(* thread_wrap_up: the first thread out turns n into -(n-1), the others    *)
(* count up, and whoever reaches zero was the last.                        *)

WrapLoad(p) ==
    /\ pc[p] = "wrapLoad"
    /\ curr' = [curr EXCEPT ![p] = numActive]
    /\ Goto(p, IF numActive > 0 THEN "wrapFlip" ELSE "wrapAdd")
    /\ UNCHANGED <<numActive, sharedVars, localVars>>

NoWaitMutant(n)   == "restore"  \* of CallerGoesTo: returns before the others are out
CallerGoesTo(n)   == IF n = 0 THEN "restore" ELSE "awaitDone"
NoSignalMutant(n) == "loop"     \* of WorkerGoesTo: the last worker does not say so
WorkerGoesTo(n)   == IF n = 0 THEN "signalDone" ELSE "loop"

\* What a thread does with the value n that it left in num_active_threads.
AfterWrapUp(p, n) ==
    /\ curr' = [curr EXCEPT ![p] = IF p \in Callers THEN 0 ELSE n]
    /\ Goto(p, IF p \in Callers THEN CallerGoesTo(n) ELSE WorkerGoesTo(n))

StillInMutant(n) == -n  \* of FirstOut: the thread does not take itself out
FirstOut(n) == -(n - 1)

WrapFlip(p) ==
    /\ pc[p] = "wrapFlip"
    /\ \/ /\ numActive = curr[p]
          /\ numActive' = FirstOut(curr[p])
          /\ AfterWrapUp(p, FirstOut(curr[p]))
       \/ /\ numActive # curr[p]
          /\ curr' = [curr EXCEPT ![p] = numActive]
          /\ Goto(p, IF numActive > 0 THEN "wrapFlip" ELSE "wrapAdd")
          /\ UNCHANGED numActive
    /\ UNCHANGED <<sharedVars, localVars>>

WrapAdd(p) ==
    /\ pc[p] = "wrapAdd"
    /\ numActive' = numActive + 1
    /\ AfterWrapUp(p, numActive + 1)
    /\ UNCHANGED <<sharedVars, localVars>>

-----------------------------------------------------------------------------
(* The rest of a call of pthreadpool_parallelize.                          *)

LeftUpMutant == 1  \* of TakenDown: a load in place of the exchange
TakenDown == 0

\* wait_on_work_is_done: the exchange that finds the flag raised lowers it.
AwaitDone(c) ==
    /\ pc[c] = "awaitDone"
    /\ workIsDone = 1
    /\ workIsDone' = TakenDown
    /\ Goto(c, "restore")
    /\ UNCHANGED <<numActive, curr, sizeVars, jobId, remaining, execVars,
                   localVars>>

ReducedCountMutant(c) == threadsCount  \* of CountAfterJob: nothing is restored
CountAfterJob(c) == prevThreads[c]

Restore(c) ==
    /\ pc[c] = "restore"
    /\ threadsCount' = CountAfterJob(c)
    /\ prevThreads' = [prevThreads EXCEPT ![c] = 0]
    /\ executionMutex' = Nobody
    /\ Goto(c, "idle")
    /\ UNCHANGED <<numActive, curr, freed, jobVars, execVars, scanVars, runVars,
                   range, target>>

-----------------------------------------------------------------------------
(* The other calls of the application.                                     *)

UnlimitedMutant(n) == IF n = 0 THEN MaxThreads ELSE n  \* of Feasible: no maximum
Feasible(n) == IF n = 0 THEN MaxThreads ELSE Smaller(n, MaxThreads)

\* pthreadpool_set_threads_count, under execution_mutex.
SetThreadsCount(c, n) ==
    /\ pc[c] = "idle"
    /\ Usable
    /\ executionMutex = Nobody
    /\ threadsCount' = Feasible(n)
    /\ UNCHANGED <<numActive, pc, curr, executionMutex, freed, jobVars, execVars,
                   localVars>>

\* pthreadpool_release_executor_threads takes no lock: the application keeps it
\* apart from its other calls.
ReleaseExecutorThreads(c) ==
    /\ Usable
    /\ \A d \in Callers : pc[d] = "idle"
    /\ executor # NoExecutor
    /\ numActive' = DONE
    /\ UNCHANGED <<pc, curr, sharedVars, localVars>>

\* pthreadpool_update_executor: lock, release the old executor's threads ...
UpdateExecutor(c, e) ==
    /\ pc[c] = "idle"
    /\ Usable
    /\ executionMutex = Nobody
    /\ e # executor
    /\ executionMutex' = c
    /\ numActive' = IF executor = NoExecutor THEN numActive ELSE DONE
    /\ target' = [target EXCEPT ![c] = e]
    /\ Goto(c, "swapExecutor")
    /\ UNCHANGED <<curr, threadsCount, freed, jobVars, execVars, scanVars, runVars,
                   range, prevThreads>>

\* ... then store the executor, and after it the executor's context.
SwapExecutor(c) ==
    /\ pc[c] = "swapExecutor"
    /\ executor' = target[c]
    /\ Goto(c, "swapContext")
    /\ UNCHANGED <<numActive, curr, sizeVars, jobVars, executorContext, isActive,
                   numRecruited, localVars>>

SwapContext(c) ==
    /\ pc[c] = "swapContext"
    /\ executorContext' = target[c]
    /\ target' = [target EXCEPT ![c] = NoExecutor]
    /\ executionMutex' = Nobody
    /\ Goto(c, "idle")
    /\ UNCHANGED <<numActive, curr, threadsCount, freed, jobVars, executor,
                   isActive, numRecruited, scanVars, runVars, range, prevThreads>>

\* pthreadpool_destroy: nobody else may be using the pool.
Destroy(c) ==
    /\ Usable
    /\ \A d \in Callers : pc[d] = "idle"
    /\ numActive' = DONE
    /\ Goto(c, "awaitThreads")
    /\ UNCHANGED <<curr, sharedVars, localVars>>

InactiveMutant ==  \* of AllThreadsGone: goes by is_active
    executor # NoExecutor /\ \A t \in Tids : isActive[t] = 0

\* Join the pool's own threads, or wait for num_recruited_threads to be zero.
AllThreadsGone ==
    IF executor = NoExecutor THEN \A t \in Tids : pc[<<t, 1>>] = "exited"
                             ELSE numRecruited = 0

Free(c) ==
    /\ pc[c] = "awaitThreads"
    /\ AllThreadsGone
    /\ freed' = TRUE
    /\ Goto(c, "idle")
    /\ UNCHANGED <<numActive, curr, threadsCount, executionMutex, jobVars, execVars,
                   localVars>>

-----------------------------------------------------------------------------
(* thread_main.  At "loop" a worker acts on its local curr_active_threads. *)

Start(w) ==
    /\ pc[w] = "start"
    /\ curr' = [curr EXCEPT ![w] = numActive]
    /\ Goto(w, IF Running(numActive) THEN "ensStart" ELSE "loop")
    /\ UNCHANGED <<numActive, sharedVars, localVars>>

Reload(w) ==
    /\ pc[w] = "reload"
    /\ curr' = [curr EXCEPT ![w] = numActive]
    /\ Goto(w, "loop")
    /\ UNCHANGED <<numActive, sharedVars, localVars>>

\* wait_on_num_active_threads, one reload ...
Wait(w) ==
    /\ pc[w] = "loop"
    /\ curr[w] <= 0
    /\ curr' = [curr EXCEPT ![w] = numActive]
    /\ UNCHANGED <<numActive, pc, sharedVars, localVars>>

\* ... or enough of them: a borrowed thread goes back to its executor.
GiveBack(w) ==
    /\ pc[w] = "loop"
    /\ curr[w] <= 0
    /\ executor # NoExecutor
    /\ curr' = [curr EXCEPT ![w] = DONE]
    /\ UNCHANGED <<numActive, pc, sharedVars, localVars>>

\* Join the job with a compare-and-swap; on failure act on what is there now.
TryJoin(w) ==
    /\ pc[w] = "loop"
    /\ Running(curr[w])
    /\ \/ /\ numActive = curr[w]
          /\ numActive' = curr[w] + 1
          /\ Goto(w, "joined")
          /\ UNCHANGED curr
       \/ /\ numActive # curr[w]
          /\ curr' = [curr EXCEPT ![w] = numActive]
          /\ UNCHANGED <<numActive, pc>>
    /\ UNCHANGED <<sharedVars, localVars>>

OneMoreMutant(w) == curr[w] <= threadsCount  \* of HasPlace: off by one
HasPlace(w) == curr[w] < threadsCount

\* The thread's own id, or its rank in a job of fewer threads than there are.
OwnIdMutant(w) == TidOf(w)  \* of IdInJob: never the rank
IdInJob(w) == IF threadsCount < MaxThreads THEN curr[w] ELSE TidOf(w)

\* Work on the job under that id; a thread too many goes straight out.
Admit(w) ==
    /\ pc[w] = "joined"
    /\ lastJobId' = [lastJobId EXCEPT ![w] = jobId]
    /\ curr' = [curr EXCEPT ![w] = 0]
    /\ \/ /\ HasPlace(w)
          /\ threadId' = [threadId EXCEPT ![w] = IdInJob(w)]
          /\ Goto(w, "work")
       \/ /\ ~HasPlace(w)
          /\ Goto(w, "wrapLoad")
          /\ UNCHANGED threadId
    /\ UNCHANGED <<numActive, sharedVars, scanVars, callVars>>

SignalDone(w) ==
    /\ pc[w] = "signalDone"
    /\ workIsDone' = 1
    /\ Goto(w, "loop")
    /\ UNCHANGED <<numActive, curr, sizeVars, jobId, remaining, execVars,
                   localVars>>

\* Announce the departure, then look again for work that was published
\* meanwhile: whoever finds is_active zero may start a new thread.
Leave(w) ==
    /\ pc[w] = "loop"
    /\ curr[w] = DONE
    /\ isActive' = [isActive EXCEPT ![TidOf(w)] = 0]
    /\ Goto(w, "recheck")
    /\ UNCHANGED <<numActive, curr, sizeVars, jobVars, executor, executorContext,
                   numRecruited, localVars>>

PositiveMutant(n) == n > 0  \* of Staying: DONE is positive, too
Staying(n) == Running(n)

Recheck(w) ==
    /\ pc[w] = "recheck"
    /\ curr' = [curr EXCEPT ![w] = numActive]
    /\ Goto(w, IF Staying(numActive) THEN "reacquire" ELSE "release")
    /\ UNCHANGED <<numActive, sharedVars, localVars>>

AlwaysFreeMutant(t) == TRUE  \* of InfoFree: a store in place of the exchange
InfoFree(t) == isActive[t] = 0

Reacquire(w) ==
    /\ pc[w] = "reacquire"
    /\ isActive' = [isActive EXCEPT ![TidOf(w)] = 1]
    /\ Goto(w, IF InfoFree(TidOf(w)) THEN "loop" ELSE "release")
    /\ UNCHANGED <<numActive, curr, sizeVars, jobVars, executor, executorContext,
                   numRecruited, localVars>>

StillCountedMutant == numRecruited  \* of Released: the thread leaves uncounted
Released == numRecruited - 1

\* pthreadpool_release: the last thread also wakes whoever destroys the pool.
Release(w) ==
    /\ pc[w] = "release"
    /\ numRecruited' = Released
    /\ Goto(w, IF Released = 0 THEN "signalRecruited" ELSE "exited")
    /\ curr' = [curr EXCEPT ![w] = 0]
    /\ lastJobId' = [lastJobId EXCEPT ![w] = 0]
    /\ UNCHANGED <<numActive, sizeVars, jobVars, executor, executorContext,
                   isActive, scanVars, threadId, callVars>>

SignalRecruited(w) ==
    /\ pc[w] = "signalRecruited"
    /\ Goto(w, "exited")
    /\ UNCHANGED <<numActive, curr, sharedVars, localVars>>

-----------------------------------------------------------------------------

SharedStep(p) ==
    \/ EnsureStart(p) \/ EnsureScan(p) \/ EnsureExchange(p) \/ EnsureRegister(p)
    \/ \E w \in Workers : EnsureSchedule(p, w)
    \/ TakeItem(p) \/ FinishItem(p) \/ LeaveWork(p)
    \/ WrapLoad(p) \/ WrapFlip(p) \/ WrapAdd(p)

\* Modules that put threads to sleep treat the waits, and the steps that wake a
\* waiting thread, apart from the other moves.
WorkerMove(w) ==
    \/ SharedStep(w)
    \/ Start(w) \/ EnsureCheck(w) \/ Reload(w)
    \/ GiveBack(w) \/ TryJoin(w) \/ Admit(w)
    \/ Leave(w) \/ Recheck(w) \/ Reacquire(w) \/ Release(w)

WorkerStep(w) ==
    WorkerMove(w) \/ Wait(w) \/ SignalDone(w) \/ SignalRecruited(w)

\* The steps a caller takes inside a call it has begun.
CallerMove(c) ==
    \/ SharedStep(c)
    \/ LockAndPrepare(c) \/ Restore(c) \/ SwapExecutor(c) \/ SwapContext(c)

CallerStep(c) ==
    CallerMove(c) \/ Publish(c) \/ AwaitDone(c) \/ Free(c)

\* The calls the application may begin.
ApplicationStep(c) ==
    \/ \E r \in Ranges : CallParallelize(c, r)
    \/ \E n \in 0 .. (MaxThreads + 1) : SetThreadsCount(c, n)
    \/ ReleaseExecutorThreads(c)
    \/ \E e \in Executors : UpdateExecutor(c, e)
    \/ Destroy(c)

\* The pool is gone and so are its threads.
Terminated ==
    /\ freed
    /\ \A w \in Workers : pc[w] = "exited"
    /\ UNCHANGED vars

Next ==
    \/ \E w \in Workers : WorkerStep(w)
    \/ \E c \in Callers : CallerStep(c) \/ ApplicationStep(c)
    \/ Terminated

Spec == Init /\ [][Next]_vars

\* The scheduler runs every thread that can run, a scheduled task included,
\* and a task returns; a mutex that stays free is acquired.  Nothing obliges
\* the application to make a call.
Fairness ==
    /\ \A w \in Workers : WF_vars(WorkerStep(w))
    /\ \A c \in Callers : WF_vars(CallerStep(c))

FairSpec == Spec /\ Fairness
-----------------------------------------------------------------------------
(* What must hold.                                                         *)

\* The threads that count in num_active_threads: the caller from the store
\* that publishes its job, a worker from its compare-and-swap, both until
\* thread_wrap_up has taken them out.
Participants ==
    {p \in Procs : \/ pc[p] \in RunPCs \cup WrapPCs \cup {"joined"}
                   \/ p \in Callers /\ pc[p] \in EnsurePCs}

\* num_active_threads counts the participants, positive while nobody has left
\* and negative from the first departure on; DONE admits none.  The value is
\* built from a plain store, two compare-and-swaps, a fetch-and-add and the
\* store of DONE, all of which may interleave.
ActiveCount ==
    \/ numActive = DONE /\ Participants = {}
    \/ numActive > 0 /\ numActive = Cardinality(Participants)
    \/ numActive <= 0 /\ numActive = -Cardinality(Participants)

\* thread_main: the thread id "will be unique for each thread in this task",
\* and it names one of the threads the job's items were dealt out to.
UniqueThreadIds ==
    \A p \in Procs : pc[p] \in RunPCs =>
        /\ threadId[p] < threadsCount
        /\ \A q \in Procs \ {p} : pc[q] \in RunPCs => threadId[q] # threadId[p]

\* The assertions of pthreadpool_parallelize, pthreadpool_release_all_threads,
\* thread_wrap_up and signal_work_is_done.
AssertionsHold ==
    /\ executionMutex = Nobody => numActive \in {0, DONE}
    /\ \A p \in Procs : pc[p] = "wrapLoad" => numActive \notin {0, DONE}
    /\ \A w \in Workers : pc[w] = "signalDone" => workIsDone = 0

\* thread_main: assert(last_job_id < threadpool->job_id).
JobIdsGrow == \A w \in Workers : pc[w] = "joined" => lastJobId[w] < jobId

\* num_recruited_threads counts the threads that may still touch the pool and
\* the registrations whose thread is not scheduled yet, in every interleaving
\* of ensure_num_threads and pthreadpool_release.
RecruitedCount ==
    numRecruited = Cardinality({w \in Workers : pc[w] \notin {"exited", "signalRecruited"}})
                 + Cardinality({p \in Procs : pc[p] = "ensSchedule"})

\* When pthreadpool_destroy frees the pool no thread is left that could join a
\* job, schedule another thread or look at num_active_threads.
FreedWhenUnused ==
    freed => \A w \in Workers : pc[w] \in {"exited", "signalRecruited"}

\* The threads that answer for is_active of thread t being set: those about to
\* schedule it and its activations that have not announced their departure.
Holders(t) ==
    {p \in Procs : pc[p] \in {"ensRegister", "ensSchedule"} /\ cursor[p] = t}
    \cup {w \in Workers : TidOf(w) = t /\ pc[w] \notin
             {"exited", "recheck", "reacquire", "release", "signalRecruited"}}

\* A thread_info of an executor's pool has at most one thread that runs on it,
\* and is_active says whether it has: a departing thread that comes back and a
\* thread that schedules a replacement never both win.
OneThreadPerInfo == \A t \in Tids : Cardinality(Holders(t)) = isActive[t]

\* pthreadpool.h: the context "will be passed to the functions in the executor
\* object" it was given with.
ScheduleWithOwnContext ==
    [][\A p \in Procs, w \in Workers : EnsureSchedule(p, w) => executor = executorContext]_vars

\* A job has the pool from the publication of its threads to the return.
InJob(c) == pc[c] \in EnsurePCs \cup RunPCs \cup WrapPCs \cup {"publish", "awaitDone", "restore"}

\* The refinement: the pool as its callers see it.
Contract == INSTANCE PoolContract WITH
    Clients  <- Callers,
    Helpers  <- Workers,
    Sizes    <- 1 .. MaxThreads,
    Jobs     <- Ranges,
    NoClient <- Nobody,
    owner    <- IF \E c \in Callers : InJob(c) THEN executionMutex ELSE Nobody,
    left     <- remaining,
    busy     <- {p \in Procs : pc[p] = "item"},
    size     <- IF \E c \in Callers : InJob(c)
                THEN prevThreads[CHOOSE c \in Callers : InJob(c)] ELSE threadsCount,
    closed   <- freed

\* Every behaviour of the protocol is one the header allows.
ImplementsContract == Contract!ContractSpec

\* Every call that has the pool returns: no job waits for a thread that is
\* asleep, gone or never scheduled.
CallsReturn == \A c \in Callers : pc[c] \notin {"idle", "lock"} ~> pc[c] = "idle"

\* pthreadpool_release_executor_threads: borrowed threads all go back to the
\* executor unless a job, or another executor's arrival, asks for threads again.
ThreadsGoBack ==
    numActive = DONE ~> (numActive # DONE \/ \A w \in Workers : pc[w] = "exited")
=============================================================================
