------------------------------ MODULE FutexPool ------------------------------
(***************************************************************************)
(* The futex build (PTHREADPOOL_USE_FUTEX): where ThreadPool reloads a     *)
(* variable until it changes, this module puts the thread to sleep in the  *)
(* kernel and has the signalling functions wake it.  Every step is a step  *)
(* of ThreadPool, a step of the futex code that leaves ThreadPool's        *)
(* variables alone, or both.                                               *)
(*                                                                         *)
(* Three words are slept on: num_active_threads by idle threads of the     *)
(* pool, work_is_done by the caller of a job, num_recruited_threads by the *)
(* caller of pthreadpool_destroy.  The kernel compares the word with the   *)
(* value the thread expects and queues the thread in one atomic step.      *)
(***************************************************************************)
EXTENDS ThreadPool

VARIABLES
    numWaiting,  \* num_waiting_threads
    stage,       \* where each thread is inside the futex code
    maxWaiting,  \* signal_num_active_threads: max_num_waiting
    toWake       \* signal_num_active_threads: how many threads to wake

futexVars == <<numWaiting, stage, maxWaiting, toWake>>

WaitStages   == {"check", "sleep", "asleep", "retire", "reload"}
SignalStages == {"load", "wake"}
OtherStages  == {"none", "sleepOnDone", "wakeDone", "sleepOnRecruited"}

FutexTypeOK ==
    /\ TypeOK
    /\ numWaiting \in Nat
    /\ stage \in [Procs -> WaitStages \cup SignalStages \cup OtherStages]
    /\ maxWaiting \in [Callers -> 0 .. MaxThreads]
    /\ toWake \in [Callers -> 0 .. MaxThreads]

FutexInit ==
    /\ Init
    /\ numWaiting = 0
    /\ stage = [p \in Procs |-> "none"]
    /\ maxWaiting = [c \in Callers |-> 0]
    /\ toWake = [c \in Callers |-> 0]

SetStage(p, s) == stage' = [stage EXCEPT ![p] = s]

\* The threads the kernel has queued on num_active_threads.
Sleepers == {w \in Workers : stage[w] = "asleep"}

-----------------------------------------------------------------------------
(* wait_on_num_active_threads once it has spun enough, or does not spin.   *)

UnannouncedMutant == numWaiting  \* of OneMoreWaiting: the thread is not counted
OneMoreWaiting == numWaiting + 1

Announce(w) ==
    /\ pc[w] = "loop"
    /\ curr[w] <= 0
    /\ executor = NoExecutor
    /\ stage[w] = "none"
    /\ numWaiting' = OneMoreWaiting
    /\ SetStage(w, "check")
    /\ UNCHANGED <<vars, maxWaiting, toWake>>

\* A positive value is not kept: the reload at the end of the iteration follows.
CheckAgain(w) ==
    /\ stage[w] = "check"
    /\ \/ /\ numActive <= 0
          /\ Wait(w)
          /\ SetStage(w, "sleep")
       \/ /\ numActive > 0
          /\ SetStage(w, "retire")
          /\ UNCHANGED vars
    /\ UNCHANGED <<numWaiting, maxWaiting, toWake>>

UncheckedMutant(w) == TRUE  \* of StillExpected: the kernel does not compare
StillExpected(w) == numActive = curr[w]

\* futex_wait: sleep only while the word still has the expected value.
Sleep(w) ==
    /\ stage[w] = "sleep"
    /\ SetStage(w, IF StillExpected(w) THEN "asleep" ELSE "retire")
    /\ UNCHANGED <<vars, numWaiting, maxWaiting, toWake>>

\* The kernel may also return without a wake, on a signal for instance.
WakeSpuriously(w) ==
    /\ stage[w] = "asleep"
    /\ SetStage(w, "retire")
    /\ UNCHANGED <<vars, numWaiting, maxWaiting, toWake>>

Retire(w) ==
    /\ stage[w] = "retire"
    /\ numWaiting' = numWaiting - 1
    /\ SetStage(w, "reload")
    /\ UNCHANGED <<vars, maxWaiting, toWake>>

\* The reload at the end of an iteration, spinning ones included.
ReloadState(w) ==
    /\ stage[w] \in {"none", "reload"}
    /\ Wait(w)
    /\ SetStage(w, "none")
    /\ UNCHANGED <<numWaiting, maxWaiting, toWake>>

-----------------------------------------------------------------------------
(* signal_num_active_threads, after the store it announces.                *)

BeginSignal(c, n) ==
    /\ SetStage(c, "load")
    /\ maxWaiting' = [maxWaiting EXCEPT ![c] = n]
    /\ UNCHANGED <<numWaiting, toWake>>

AllMayWaitMutant == MaxThreads  \* of MayWait: a job has use for no other thread
MayWait == MaxThreads - threadsCount

PublishAndSignal(c) ==
    /\ stage[c] = "none"
    /\ Publish(c)
    /\ BeginSignal(c, MayWait)

EndSignal(c) ==
    /\ SetStage(c, "none")
    /\ maxWaiting' = [maxWaiting EXCEPT ![c] = 0]
    /\ toWake' = [toWake EXCEPT ![c] = 0]
    /\ UNCHANGED <<vars, numWaiting>>

LoadWaiting(c) ==
    /\ stage[c] = "load"
    /\ \/ /\ numWaiting > maxWaiting[c]
          /\ toWake' = [toWake EXCEPT ![c] = numWaiting - maxWaiting[c]]
          /\ SetStage(c, "wake")
          /\ UNCHANGED <<vars, numWaiting, maxWaiting>>
       \/ /\ numWaiting <= maxWaiting[c]
          /\ EndSignal(c)

\* futex_wake_n: the kernel wakes that many of the queued threads, any of them.
WakeActive(c) ==
    /\ stage[c] = "wake"
    /\ \E woken \in SUBSET Sleepers :
          /\ Cardinality(woken) = Smaller(toWake[c], Cardinality(Sleepers))
          /\ stage' = [p \in Procs |-> IF p \in woken THEN "retire"
                                       ELSE IF p = c THEN "none" ELSE stage[p]]
    /\ maxWaiting' = [maxWaiting EXCEPT ![c] = 0]
    /\ toWake' = [toWake EXCEPT ![c] = 0]
    /\ UNCHANGED <<vars, numWaiting>>

-----------------------------------------------------------------------------
(* wait_on_work_is_done and signal_work_is_done.                           *)

\* The exchange has returned zero: futex_wait on work_is_done.
SleepOnDone(c) ==
    /\ pc[c] = "awaitDone"
    /\ stage[c] = "none"
    /\ workIsDone = 0
    /\ SetStage(c, "sleepOnDone")
    /\ UNCHANGED <<vars, numWaiting, maxWaiting, toWake>>

StoreDone(w) ==
    /\ stage[w] = "none"
    /\ SignalDone(w)
    /\ SetStage(w, "wakeDone")
    /\ UNCHANGED <<numWaiting, maxWaiting, toWake>>

NobodyWokenMutant(s) == {}  \* of SleepingOn: the flag is stored, nobody woken
SleepingOn(s) == {c \in Callers : stage[c] = s}

WakeDone(w) ==
    /\ stage[w] = "wakeDone"
    /\ stage' = [p \in Procs |-> IF p = w \/ p \in SleepingOn("sleepOnDone")
                                 THEN "none" ELSE stage[p]]
    /\ UNCHANGED <<vars, numWaiting, maxWaiting, toWake>>

-----------------------------------------------------------------------------
(* wait_on_num_recruited_threads and signal_num_recruited_threads.         *)

\* futex_wait with the value just loaded, which is not the expected zero.
SleepOnRecruited(c) ==
    /\ pc[c] = "awaitThreads"
    /\ executor # NoExecutor
    /\ stage[c] = "none"
    /\ numRecruited # 0
    /\ SetStage(c, "sleepOnRecruited")
    /\ UNCHANGED <<vars, numWaiting, maxWaiting, toWake>>

WakeRecruited(w) ==
    /\ SignalRecruited(w)
    /\ stage' = [p \in Procs |-> IF p \in SleepingOn("sleepOnRecruited") THEN "none"
                                 ELSE stage[p]]
    /\ UNCHANGED <<numWaiting, maxWaiting, toWake>>

\* A caller woken for no reason looks again, too.
WakeCallerSpuriously(c) ==
    /\ stage[c] \in {"sleepOnDone", "sleepOnRecruited"}
    /\ SetStage(c, "none")
    /\ UNCHANGED <<vars, numWaiting, maxWaiting, toWake>>

-----------------------------------------------------------------------------

\* The application's calls that signal, and those that do not.  A caller whose
\* signal is still under way is inside its call although its pc is "idle".
AllOutside == \A d \in Callers : pc[d] = "idle" => stage[d] = "none"

QuietCall(c) ==
    /\ AllOutside
    /\ \/ \E r \in Ranges : CallParallelize(c, r)
       \/ \E n \in 0 .. (MaxThreads + 1) : SetThreadsCount(c, n)
       \/ executor = NoExecutor /\ \E e \in Executors : UpdateExecutor(c, e)
    /\ UNCHANGED futexVars

SignallingCall(c) ==
    /\ AllOutside
    /\ \/ Destroy(c)
       \/ ReleaseExecutorThreads(c)
       \/ executor # NoExecutor /\ \E e \in Executors : UpdateExecutor(c, e)
    /\ BeginSignal(c, 0)

QuietMove(p) == stage[p] = "none" /\ UNCHANGED futexVars

FutexWorkerStep(w) ==
    \/ WorkerMove(w) /\ QuietMove(w)
    \/ Announce(w) \/ CheckAgain(w) \/ Sleep(w) \/ Retire(w) \/ ReloadState(w)
    \/ StoreDone(w) \/ WakeDone(w) \/ WakeRecruited(w)

FutexCallerStep(c) ==
    \/ (CallerMove(c) \/ AwaitDone(c) \/ Free(c)) /\ QuietMove(c)
    \/ PublishAndSignal(c) \/ LoadWaiting(c) \/ WakeActive(c)
    \/ SleepOnDone(c) \/ SleepOnRecruited(c)

FutexNext ==
    \/ \E w \in Workers : FutexWorkerStep(w) \/ WakeSpuriously(w)
    \/ \E c \in Callers : \/ FutexCallerStep(c) \/ WakeCallerSpuriously(c)
                          \/ QuietCall(c) \/ SignallingCall(c)
    \/ Terminated /\ UNCHANGED futexVars

FutexSpec == FutexInit /\ [][FutexNext]_<<vars, futexVars>>

\* Every thread that is not asleep runs; nothing obliges the kernel to wake a
\* thread that nobody signals, nor the application to make a call.
FutexFairSpec ==
    /\ FutexSpec
    /\ \A w \in Workers : WF_<<vars, futexVars>>(FutexWorkerStep(w))
    /\ \A c \in Callers : WF_<<vars, futexVars>>(FutexCallerStep(c))

-----------------------------------------------------------------------------
(* What must hold.                                                         *)

SignalUnderWay == \E c \in Callers : stage[c] \in SignalStages

\* wait_on_num_active_threads announces itself before it looks again "to avoid
\* slipping past calls to signal_num_active_threads": once the signal of a job
\* is over, at most as many threads sleep as the job has no use for, and none
\* sleeps through DONE.
NobodyOversleeps ==
    ~SignalUnderWay =>
        /\ Running(numActive) => Cardinality(Sleepers) <= MaxThreads - threadsCount
        /\ numActive = DONE => Sleepers = {}

\* A caller that sleeps on work_is_done or num_recruited_threads will be woken
\* once the word has the value it waits for: between a store and the wake that
\* follows it no caller is forgotten.  The caller's look and its sleep are one
\* step, since FUTEX_WAIT compares the word itself.
CallersAreWoken ==
    \A c \in Callers :
        /\ stage[c] = "sleepOnDone" /\ workIsDone = 1 =>
               \E w \in Workers : stage[w] = "wakeDone"
        /\ stage[c] = "sleepOnRecruited" /\ numRecruited = 0 =>
               \E w \in Workers : pc[w] = "signalRecruited"
==============================================================================
