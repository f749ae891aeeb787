----------------------------- MODULE CondvarPool -----------------------------
(***************************************************************************)
(* The build without futexes: where FutexPool sleeps on a word, this one   *)
(* waits on one of two condition variables, each with its mutex.           *)
(* num_active_threads_condvar is for idle threads of the pool;             *)
(* completion_condvar is for the caller of a job and for the caller of     *)
(* pthreadpool_destroy.  As in FutexPool, every step is a step of          *)
(* ThreadPool, a step of the waiting code, or both.                        *)
(*                                                                         *)
(* An idle thread holds num_active_threads_mutex while it spins.  How      *)
(* often it spins is not modelled, only that it looks once under the mutex *)
(* before it sleeps, and does not when jobs ask it not to spin.  Taking a  *)
(* mutex goes with the access that follows it, and releasing one with the  *)
(* access before it; what lies between a look and the sleep it leads to is *)
(* apart from both.                                                        *)
(***************************************************************************)
EXTENDS ThreadPool

CONSTANT DontSpinWorkers  \* jobs have the flag PTHREADPOOL_FLAG_DONT_SPIN_WORKERS

ASSUME FlagAssumption == DontSpinWorkers \in BOOLEAN
ASSUME NobodyAssumption == Nobody \notin Workers

VARIABLES
    stateMutex,       \* who holds num_active_threads_mutex, or Nobody
    completionMutex,  \* who holds completion_mutex, or Nobody
    stage             \* where each thread is inside the waiting code

condVars == <<stateMutex, completionMutex, stage>>

WaitStages   == {"none", "lock", "check", "asleep", "relock"}
WorkerStages == WaitStages \cup {"notify"}
CallerStages == WaitStages \cup {"broadcast"}

\* A thread that has looked at a variable in vain and is about to sleep holds the
\* mutex of its condition variable, and it alone.
CondvarTypeOK ==
    /\ TypeOK
    /\ stateMutex \in Workers \cup {Nobody}
    /\ completionMutex \in Callers \cup {Nobody}
    /\ \A w \in Workers :
          /\ stage[w] \in WorkerStages
          /\ stage[w] = "check" => stateMutex = w
    /\ \A c \in Callers :
          /\ stage[c] \in CallerStages
          /\ stage[c] = "check" <=> completionMutex = c

CondvarInit ==
    /\ Init
    /\ stateMutex = Nobody
    /\ completionMutex = Nobody
    /\ stage = [p \in Procs |-> "none"]

SetStage(p, s) == stage' = [stage EXCEPT ![p] = s]

-----------------------------------------------------------------------------
(* wait_on_num_active_threads.                                             *)

\* flags are those of the last job, none before the first.
Spins == ~DontSpinWorkers \/ jobId = 0

\* The first look is taken without the mutex.
EnterWait(w) ==
    /\ stage[w] = "none"
    /\ Wait(w)
    /\ SetStage(w, IF numActive > 0 THEN "none" ELSE "lock")
    /\ UNCHANGED <<stateMutex, completionMutex>>

UnlockedMutant(w) == Nobody  \* of TakenBy: the mutex is not taken
TakenBy(w) == w

KeepMutant(w) == w  \* of HolderAfter: the mutex is not released
HolderAfter(w) == Nobody

\* Take the mutex, the first time or after a sleep, and look again.
LookLocked(w) ==
    /\ stage[w] \in {"lock", "relock"}
    /\ stateMutex = Nobody
    /\ IF stage[w] = "relock" \/ Spins THEN Wait(w) ELSE UNCHANGED vars
    /\ \/ curr'[w] > 0 /\ stateMutex' = HolderAfter(w) /\ SetStage(w, "none")
       \/ curr'[w] <= 0 /\ stateMutex' = TakenBy(w) /\ SetStage(w, "check")
    /\ UNCHANGED completionMutex

\* pthreadpool_cond_wait: release the mutex and sleep.
SleepOnState(w) ==
    /\ stage[w] = "check"
    /\ executor = NoExecutor
    /\ stateMutex' = Nobody
    /\ SetStage(w, "asleep")
    /\ UNCHANGED <<vars, completionMutex>>

\* A borrowed thread returns from inside the loop, with the mutex.
ReturnBorrowed(w) ==
    /\ stage[w] = "check"
    /\ GiveBack(w)
    /\ SetStage(w, "none")
    /\ UNCHANGED <<stateMutex, completionMutex>>

\* pthread_cond_wait may return without a signal.
WakeSpuriously(p) ==
    /\ stage[p] = "asleep"
    /\ SetStage(p, "relock")
    /\ UNCHANGED <<vars, stateMutex, completionMutex>>

-----------------------------------------------------------------------------
(* signal_num_active_threads, after the store it announces.                *)

SleepingWorkers == {w \in Workers : stage[w] = "asleep"}

OneMutant == {w \in SleepingWorkers : \A v \in SleepingWorkers : TidOf(w) <= TidOf(v)}
    \* of WokenWorkers: a signal in place of the broadcast
WokenWorkers == SleepingWorkers

Broadcast(c) ==
    /\ stage[c] = "broadcast"
    /\ stateMutex = Nobody
    /\ stage' = [p \in Procs |-> IF p \in WokenWorkers THEN "relock"
                                 ELSE IF p = c THEN "none" ELSE stage[p]]
    /\ UNCHANGED <<vars, stateMutex, completionMutex>>

PublishAndSignal(c) ==
    /\ stage[c] = "none"
    /\ Publish(c)
    /\ SetStage(c, "broadcast")
    /\ UNCHANGED <<stateMutex, completionMutex>>

-----------------------------------------------------------------------------
(* wait_on_work_is_done and wait_on_num_recruited_threads, which share a   *)
(* condition variable, and the functions that signal it.                   *)

Waiting(c) == pc[c] = "awaitDone" \/ (pc[c] = "awaitThreads" /\ executor # NoExecutor)
Reached(c) == IF pc[c] = "awaitDone" THEN workIsDone = 1 ELSE numRecruited = 0

\* The look without the mutex was in vain.
EnterCompletion(c) ==
    /\ stage[c] = "none"
    /\ Waiting(c)
    /\ ~Reached(c)
    /\ SetStage(c, "lock")
    /\ UNCHANGED <<vars, stateMutex, completionMutex>>

\* Take the mutex and look: the exchange, or the load.
TryCompletion(c) ==
    /\ stage[c] \in {"lock", "relock"}
    /\ completionMutex = Nobody
    /\ \/ /\ Reached(c)
          /\ IF pc[c] = "awaitDone" THEN AwaitDone(c) ELSE UNCHANGED vars
          /\ SetStage(c, "none")
          /\ UNCHANGED completionMutex
       \/ /\ ~Reached(c)
          /\ SetStage(c, "check")
          /\ completionMutex' = c
          /\ UNCHANGED vars
    /\ UNCHANGED stateMutex

SleepOnCompletion(c) ==
    /\ stage[c] = "check"
    /\ completionMutex' = Nobody
    /\ SetStage(c, "asleep")
    /\ UNCHANGED <<vars, stateMutex>>

StoreDone(w) ==
    /\ stage[w] = "none"
    /\ SignalDone(w)
    /\ SetStage(w, "notify")
    /\ UNCHANGED <<stateMutex, completionMutex>>

SleepingCallers == {c \in Callers : stage[c] = "asleep"}

\* cond_signal wakes one of the threads that sleep on the condition variable.
WakeOne(w) ==
    \E woken \in IF SleepingCallers = {} THEN {w} ELSE SleepingCallers :
        stage' = [stage EXCEPT ![w] = "none",
                               ![woken] = IF woken = w THEN "none" ELSE "relock"]

BareSignalMutant == TRUE  \* of MayNotify: the mutex is not taken for the signal
MayNotify == completionMutex = Nobody

NotifyDone(w) ==
    /\ stage[w] = "notify"
    /\ MayNotify
    /\ WakeOne(w)
    /\ UNCHANGED <<vars, stateMutex, completionMutex>>

NotifyRecruited(w) ==
    /\ MayNotify
    /\ SignalRecruited(w)
    /\ WakeOne(w)
    /\ UNCHANGED <<stateMutex, completionMutex>>

-----------------------------------------------------------------------------

\* As in FutexPool, a call is over when its signal is.
AllOutside == \A d \in Callers : pc[d] = "idle" => stage[d] = "none"

QuietCall(c) ==
    /\ AllOutside
    /\ \/ \E r \in Ranges : CallParallelize(c, r)
       \/ \E n \in 0 .. (MaxThreads + 1) : SetThreadsCount(c, n)
    /\ UNCHANGED condVars

SignallingCall(c) ==
    /\ AllOutside
    /\ Destroy(c) \/ ReleaseExecutorThreads(c)
    /\ SetStage(c, "broadcast")
    /\ UNCHANGED <<stateMutex, completionMutex>>

\* A pool that had no executor announces nothing.
UpdateCall(c) ==
    /\ AllOutside
    /\ \E e \in Executors : UpdateExecutor(c, e)
    /\ SetStage(c, IF executor = NoExecutor THEN "none" ELSE "broadcast")
    /\ UNCHANGED <<stateMutex, completionMutex>>

QuietMove(p) == stage[p] = "none" /\ UNCHANGED condVars

\* At "loop" with nothing to do a thread can only wait.
Idle(w) == pc[w] = "loop" /\ curr[w] <= 0

CondvarWorkerStep(w) ==
    \/ ~Idle(w) /\ WorkerMove(w) /\ QuietMove(w)
    \/ EnterWait(w) \/ LookLocked(w) \/ SleepOnState(w) \/ ReturnBorrowed(w)
    \/ StoreDone(w) \/ NotifyDone(w) \/ NotifyRecruited(w)

CondvarCallerStep(c) ==
    \/ (CallerMove(c) \/ AwaitDone(c) \/ Free(c)) /\ QuietMove(c)
    \/ PublishAndSignal(c) \/ Broadcast(c)
    \/ EnterCompletion(c) \/ TryCompletion(c) \/ SleepOnCompletion(c)

CondvarNext ==
    \/ \E w \in Workers : CondvarWorkerStep(w) \/ WakeSpuriously(w)
    \/ \E c \in Callers : \/ CondvarCallerStep(c) \/ WakeSpuriously(c)
                          \/ QuietCall(c) \/ SignallingCall(c) \/ UpdateCall(c)
    \/ Terminated /\ UNCHANGED condVars

CondvarSpec == CondvarInit /\ [][CondvarNext]_<<vars, condVars>>

\* Every thread that is not asleep runs, and one of the threads that wait for a
\* mutex that is free takes it; no thread is overtaken for ever.
CondvarFairSpec ==
    /\ CondvarSpec
    /\ \A w \in Workers : WF_<<vars, condVars>>(CondvarWorkerStep(w))
    /\ \A w \in Workers : SF_<<vars, condVars>>(LookLocked(w) \/ NotifyDone(w) \/ NotifyRecruited(w))
    /\ \A c \in Callers : WF_<<vars, condVars>>(CondvarCallerStep(c))
    /\ \A c \in Callers : SF_<<vars, condVars>>(TryCompletion(c) \/ Broadcast(c))

-----------------------------------------------------------------------------
(* What must hold.                                                         *)

SignalUnderWay == \E c \in Callers : stage[c] = "broadcast"

\* "Wake up any thread waiting on a change of state": once the broadcast of a
\* job or of DONE is over, no thread sleeps.  One that looked before the store
\* keeps the mutex until it sleeps, and so the broadcast comes after that.
NobodySleepsThrough ==
    ~SignalUnderWay /\ numActive > 0 => SleepingWorkers = {}

\* A caller never sleeps on a condition that has come true unless a thread is on
\* its way to wake it.
CompletionNotified ==
    \A c \in SleepingCallers : Reached(c) =>
        \E w \in Workers : stage[w] = "notify" \/ pc[w] = "signalRecruited"

\* With threads of its own the pool completes every call that has the pool.
CallsReturnOwnThreads == [](executor = NoExecutor) => CallsReturn

\* wait_on_num_active_threads: "If we've borrowed this thread from an executor,
\* then we should return it to the executor instead of blocking it indefinitely."
NeverBlocked == \A w \in Workers : stage[w] = "lock" ~> stage[w] # "lock"

\* threadpool-object.h: threads decrement num_recruited_threads "as the last
\* thing they do before releasing" the pool.  pthreadpool_destroy takes zero for
\* leave to destroy completion_mutex, without which no thread could signal.
DecrementIsLastTouch == freed => \A w \in Workers : pc[w] # "signalRecruited"
==============================================================================
