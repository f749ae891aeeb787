---------------------------- MODULE CondvarProofs ----------------------------
(***************************************************************************)
(* Proofs about CondvarPool, for every number of callers and threads and   *)
(* every sequence of calls.  Each of its steps is a step of ThreadPool or  *)
(* leaves ThreadPool's variables alone, so that what was proved there      *)
(* holds here; on top of it, no thread sleeps through a broadcast and no   *)
(* caller sleeps on a condition that came true unannounced.                *)
(***************************************************************************)
EXTENDS CondvarPool, ThreadPoolProofs

LEMMA WaitingCodeRefines == CondvarNext => [Next]_vars
<1> SUFFICES ASSUME CondvarNext PROVE [Next]_vars
  OBVIOUS
<1>1. ASSUME NEW w \in Workers, CondvarWorkerStep(w) PROVE WorkerStep(w) \/ UNCHANGED vars
  <2>1. CASE ~Idle(w) /\ WorkerMove(w) /\ QuietMove(w)
    BY <2>1 DEF WorkerStep
  <2>2. CASE EnterWait(w) \/ LookLocked(w)
    BY <2>2 DEF EnterWait, LookLocked, WorkerStep
  <2>3. CASE SleepOnState(w) \/ NotifyDone(w)
    BY <2>3 DEF SleepOnState, NotifyDone
  <2>4. CASE ReturnBorrowed(w)
    BY <2>4 DEF ReturnBorrowed, WorkerStep, WorkerMove
  <2>5. CASE StoreDone(w) \/ NotifyRecruited(w)
    BY <2>5 DEF StoreDone, NotifyRecruited, WorkerStep
  <2>6. QED
    BY <1>1, <2>1, <2>2, <2>3, <2>4, <2>5 DEF CondvarWorkerStep
<1>2. ASSUME NEW c \in Callers, CondvarCallerStep(c) PROVE CallerStep(c) \/ UNCHANGED vars
  <2>1. CASE (CallerMove(c) \/ AwaitDone(c) \/ Free(c)) /\ QuietMove(c)
    BY <2>1 DEF CallerStep
  <2>2. CASE PublishAndSignal(c)
    BY <2>2 DEF PublishAndSignal, CallerStep
  <2>3. CASE Broadcast(c) \/ EnterCompletion(c) \/ SleepOnCompletion(c)
    BY <2>3 DEF Broadcast, EnterCompletion, SleepOnCompletion
  <2>4. CASE TryCompletion(c)
    BY <2>4 DEF TryCompletion, CallerStep
  <2>5. QED
    BY <1>2, <2>1, <2>2, <2>3, <2>4 DEF CondvarCallerStep
<1>3. ASSUME NEW p, WakeSpuriously(p) PROVE UNCHANGED vars
  BY <1>3 DEF WakeSpuriously
<1>4. ASSUME NEW c \in Callers, QuietCall(c) \/ SignallingCall(c) \/ UpdateCall(c)
      PROVE  ApplicationStep(c)
  BY <1>4 DEF QuietCall, SignallingCall, UpdateCall, ApplicationStep
<1>5. QED
  BY <1>1, <1>2, <1>3, <1>4 DEF CondvarNext, Next

LEMMA CondvarStepRefines == [CondvarNext]_<<vars, condVars>> => [Next]_vars
BY WaitingCodeRefines

\* The build with condition variables implements the protocol, whose waits are
\* loops that look again and again.
THEOREM CondvarImplementsPool == CondvarSpec => Spec
<1>1. CondvarInit => Init
  BY DEF CondvarInit
<1>2. QED
  BY <1>1, CondvarStepRefines, PTL DEF CondvarSpec, Spec

-----------------------------------------------------------------------------
(* Types, and who holds the mutexes.                                       *)

StageOK == stage \in [Procs -> WorkerStages \cup CallerStages]

WaitInv == StageOK /\ CondvarTypeOK

LEMMA WaitInvInit == CondvarInit => WaitInv
<1> SUFFICES ASSUME CondvarInit PROVE WaitInv
  OBVIOUS
<1>1. \A p \in Procs : stage[p] = "none"
  BY DEF CondvarInit
<1>2. StageOK
  BY DEF CondvarInit, StageOK, WorkerStages, WaitStages
<1>3. CondvarTypeOK
  BY <1>1, TypeOKInit, ProcsFacts, CallersAssumption
     DEF CondvarTypeOK, CondvarInit, WorkerStages, CallerStages, WaitStages
<1>4. QED
  BY <1>2, <1>3 DEF WaitInv

LEMMA WaitInvStep == WaitInv /\ TypeOK' /\ [CondvarNext]_<<vars, condVars>> => WaitInv'
<1> SUFFICES ASSUME WaitInv, TypeOK', [CondvarNext]_<<vars, condVars>> PROVE WaitInv'
  OBVIOUS
<1> USE ProcsFacts, CallersAssumption, NobodyAssumption
<1> USE DEF WaitInv, StageOK, CondvarTypeOK, SetStage, WaitStages, WorkerStages, CallerStages
<1>1. CASE UNCHANGED condVars
  BY <1>1 DEF condVars
<1>2. ASSUME NEW w \in Workers, EnterWait(w) PROVE WaitInv'
  BY <1>2 DEF EnterWait
<1>3. ASSUME NEW w \in Workers, LookLocked(w) PROVE WaitInv'
  BY <1>3 DEF LookLocked, HolderAfter, TakenBy
<1>4. ASSUME NEW w \in Workers, SleepOnState(w) PROVE WaitInv'
  BY <1>4 DEF SleepOnState
<1>5. ASSUME NEW w \in Workers, ReturnBorrowed(w) PROVE WaitInv'
  BY <1>5 DEF ReturnBorrowed
<1>6. ASSUME NEW p \in Procs, WakeSpuriously(p) PROVE WaitInv'
  BY <1>6 DEF WakeSpuriously, Procs
<1>7. ASSUME NEW c \in Callers, Broadcast(c) PROVE WaitInv'
  BY <1>7 DEF Broadcast, WokenWorkers, SleepingWorkers
<1>8. ASSUME NEW c \in Callers, PublishAndSignal(c) PROVE WaitInv'
  BY <1>8 DEF PublishAndSignal
<1>9. ASSUME NEW c \in Callers, EnterCompletion(c) PROVE WaitInv'
  BY <1>9 DEF EnterCompletion
<1>10. ASSUME NEW c \in Callers, TryCompletion(c) PROVE WaitInv'
  BY <1>10 DEF TryCompletion
<1>11. ASSUME NEW c \in Callers, SleepOnCompletion(c) PROVE WaitInv'
  BY <1>11 DEF SleepOnCompletion
<1>12. ASSUME NEW w \in Workers, StoreDone(w) PROVE WaitInv'
  BY <1>12 DEF StoreDone
<1>13. ASSUME NEW w \in Workers, NotifyDone(w) \/ NotifyRecruited(w) PROVE WaitInv'
  BY <1>13 DEF NotifyDone, NotifyRecruited, WakeOne, SleepingCallers
<1>14. ASSUME NEW c \in Callers, SignallingCall(c) \/ UpdateCall(c) PROVE WaitInv'
  <2>1. pc[c] = "idle" /\ AllOutside
    BY <1>14 DEF SignallingCall, UpdateCall, Destroy, ReleaseExecutorThreads, UpdateExecutor
  <2>2. stage[c] = "none"
    BY <2>1 DEF AllOutside
  <2>3. PICK s \in {"none", "broadcast"} : SetStage(c, s)
    BY <1>14 DEF SignallingCall, UpdateCall
  <2>4. UNCHANGED <<stateMutex, completionMutex>>
    BY <1>14 DEF SignallingCall, UpdateCall
  <2>5. QED
    BY <2>2, <2>3, <2>4
<1> HIDE DEF WaitInv, condVars, vars
<1>15. QED
  BY <1>1, <1>2, <1>3, <1>4, <1>5, <1>6, <1>7, <1>8, <1>9, <1>10, <1>11, <1>12,
     <1>13, <1>14
     DEF CondvarNext, CondvarWorkerStep, CondvarCallerStep, QuietMove, QuietCall

\* The mutexes of the two condition variables, for every number of threads.
THEOREM CondvarTypeCorrect == CondvarSpec => []CondvarTypeOK
<1>1. CondvarSpec => []TypeOK
  BY CondvarImplementsPool, TypeCorrect, PTL
<1>2. WaitInv /\ TypeOK /\ TypeOK' /\ [CondvarNext]_<<vars, condVars>> => WaitInv'
  BY WaitInvStep
<1>3. WaitInv => CondvarTypeOK
  BY DEF WaitInv
<1>4. QED
  BY <1>1, <1>2, <1>3, WaitInvInit, PTL DEF CondvarSpec

LEMMA WaitInvariant == CondvarSpec => [](WaitInv /\ CountInv)
<1>1. CondvarSpec => []TypeOK /\ []CountInv
  BY CondvarImplementsPool, TypeCorrect, CountInvariant, PTL
<1>2. WaitInv /\ TypeOK' /\ [CondvarNext]_<<vars, condVars>> => WaitInv'
  BY WaitInvStep
<1>3. QED
  BY <1>1, <1>2, WaitInvInit, PTL DEF CondvarSpec

-----------------------------------------------------------------------------
(* Nobody sleeps through a broadcast.  A thread that goes to sleep has     *)
(* seen no work under the mutex and keeps the mutex until it sleeps;       *)
(* num_active_threads turns positive only in a store that a broadcast      *)
(* follows; and the broadcast waits for the mutex.                         *)

Dozing == {w \in Workers : stage[w] \in {"check", "asleep"}}

NoneMissed == ~SignalUnderWay /\ numActive > 0 => Dozing = {}

\* A step that announces nothing, ends no broadcast and sends nobody to sleep.
Unannounced ==
    /\ numActive' > 0 => numActive > 0
    /\ \A c \in Callers : stage[c] = "broadcast" => stage'[c] = "broadcast"
    /\ Dozing' \subseteq Dozing

LEMMA UnannouncedKeeps == NoneMissed /\ Unannounced => NoneMissed'
<1> SUFFICES ASSUME NoneMissed, Unannounced, ~SignalUnderWay', numActive' > 0
             PROVE  Dozing' = {}
  BY DEF NoneMissed
<1>1. ~SignalUnderWay /\ numActive > 0
  BY DEF Unannounced, SignalUnderWay
<1>2. QED
  BY <1>1 DEF NoneMissed, Unannounced

LEMMA NoneMissedStep ==
    ASSUME DontSpinWorkers = FALSE, WaitInv, CountInv, TypeOK', NoneMissed,
           [CondvarNext]_<<vars, condVars>>
    PROVE  NoneMissed'
<1> USE ProcsFacts, CallersAssumption, NobodyAssumption
<1> USE DEF SetStage
<1>1. stage \in [Procs -> WorkerStages \cup CallerStages]
  BY DEF WaitInv, StageOK
<1>2. CASE UNCHANGED <<vars, condVars>>
  BY <1>2, UnannouncedKeeps DEF Unannounced, Dozing, vars, condVars
<1>3. ASSUME NEW w \in Workers, ~Idle(w) /\ WorkerMove(w) /\ QuietMove(w)
      PROVE  NoneMissed'
  BY <1>3, OnlyStoresRaise, UnannouncedKeeps
     DEF StoreFree, Unannounced, Dozing, WorkerStep, QuietMove, condVars
<1>4. ASSUME NEW w \in Workers, EnterWait(w) \/ ReturnBorrowed(w) \/ StoreDone(w)
      PROVE  NoneMissed'
  <2>1. WorkerStep(w)
    BY <1>4 DEF EnterWait, ReturnBorrowed, StoreDone, WorkerStep, WorkerMove
  <2>2. PICK s \in {"none", "lock", "notify"} : SetStage(w, s)
    BY <1>4 DEF EnterWait, ReturnBorrowed, StoreDone
  <2>3. QED
    BY <1>1, <2>1, <2>2, OnlyStoresRaise, UnannouncedKeeps DEF StoreFree, Unannounced, Dozing
<1>5. ASSUME NEW w \in Workers, NotifyDone(w) \/ NotifyRecruited(w)
      PROVE  NoneMissed'
  <2>1. WorkerStep(w) \/ UNCHANGED vars
    BY <1>5 DEF NotifyDone, NotifyRecruited, WorkerStep
  <2>2. WakeOne(w)
    BY <1>5 DEF NotifyDone, NotifyRecruited
  <2>3. \A p \in Procs : stage'[p] = stage[p] \/ stage'[p] \in {"none", "relock"}
    BY <1>1, <2>2 DEF WakeOne, SleepingCallers
  <2>4. \A c \in Callers : stage[c] = "broadcast" => stage'[c] = "broadcast"
    BY <1>1, <2>2 DEF WakeOne, SleepingCallers
  <2>5. QED
    BY <2>1, <2>3, <2>4, OnlyStoresRaise, UnannouncedKeeps DEF StoreFree, Unannounced, Dozing
<1>6. ASSUME NEW w \in Workers, SleepOnState(w) PROVE NoneMissed'
  BY <1>1, <1>6, UnannouncedKeeps DEF SleepOnState, Unannounced, Dozing, vars
<1>7. ASSUME NEW p \in Procs, WakeSpuriously(p) PROVE NoneMissed'
  BY <1>1, <1>7, UnannouncedKeeps DEF WakeSpuriously, Unannounced, Dozing, vars
<1>8. ASSUME NEW w \in Workers, LookLocked(w) PROVE NoneMissed'
  <2>1. Wait(w)
    BY <1>8 DEF LookLocked, Spins
  <2>2. numActive' = numActive /\ curr'[w] = numActive
    BY <2>1 DEF Wait, CountInv, TypeOK
  <2>3. CASE curr'[w] > 0 /\ SetStage(w, "none")
    BY <1>1, <2>2, <2>3, UnannouncedKeeps DEF Unannounced, Dozing
  <2>4. CASE curr'[w] <= 0
    <3>1. ~(numActive' > 0)
      BY <2>2, <2>4 DEF CountInv, TypeOK
    <3>2. QED
      BY <3>1 DEF NoneMissed
  <2>5. QED
    BY <1>8, <2>3, <2>4 DEF LookLocked
<1>9. ASSUME NEW c \in Callers, PublishAndSignal(c) \/ SignallingCall(c) PROVE NoneMissed'
  <2>1. stage'[c] = "broadcast"
    BY <1>1, <1>9 DEF PublishAndSignal, SignallingCall
  <2>2. QED
    BY <2>1 DEF NoneMissed, SignalUnderWay
<1>10. ASSUME NEW c \in Callers, UpdateCall(c) PROVE NoneMissed'
  <2>1. PICK e \in Executors : UpdateExecutor(c, e)
    BY <1>10 DEF UpdateCall
  <2>2. stage[c] = "none"
    BY <1>10, <2>1 DEF UpdateCall, AllOutside, UpdateExecutor
  <2>3. CASE executor = NoExecutor
    <3>1. numActive' = numActive /\ SetStage(c, "none")
      BY <1>10, <2>1, <2>3 DEF UpdateCall, UpdateExecutor
    <3>2. QED
      BY <1>1, <2>2, <3>1, UnannouncedKeeps DEF Unannounced, Dozing
  <2>4. CASE executor # NoExecutor
    <3>1. stage'[c] = "broadcast"
      BY <1>1, <1>10, <2>4 DEF UpdateCall
    <3>2. QED
      BY <3>1 DEF NoneMissed, SignalUnderWay
  <2>5. QED
    BY <2>3, <2>4
<1>11. ASSUME NEW c \in Callers, Broadcast(c) PROVE NoneMissed'
  <2>1. \A w \in Workers : stage[w] # "check"
    BY <1>11 DEF Broadcast, WaitInv, CondvarTypeOK
  <2>2. \A w \in Workers : stage'[w] = IF stage[w] = "asleep" THEN "relock" ELSE stage[w]
    BY <1>1, <1>11 DEF Broadcast, WokenWorkers, SleepingWorkers
  <2>3. Dozing' = {}
    BY <2>1, <2>2 DEF Dozing
  <2>4. QED
    BY <2>3 DEF NoneMissed
<1>12. ASSUME NEW c \in Callers, EnterCompletion(c) \/ TryCompletion(c) \/ SleepOnCompletion(c)
       PROVE  NoneMissed'
  <2>1. AwaitDone(c) \/ UNCHANGED vars
    BY <1>12 DEF EnterCompletion, TryCompletion, SleepOnCompletion
  <2>2. stage[c] # "broadcast" /\ \E s \in CallerStages : SetStage(c, s)
    BY <1>12 DEF EnterCompletion, TryCompletion, SleepOnCompletion, CallerStages, WaitStages
  <2>3. QED
    BY <1>1, <2>1, <2>2, OnlyStoresRaise, UnannouncedKeeps DEF StoreFree, Unannounced, Dozing
<1>13. ASSUME NEW c \in Callers,
              ((CallerMove(c) \/ AwaitDone(c) \/ Free(c)) /\ QuietMove(c)) \/ QuietCall(c)
       PROVE  NoneMissed'
  <2>1. UNCHANGED stage /\ (numActive' > 0 => numActive > 0)
    BY <1>13, OnlyStoresRaise DEF StoreFree, QuietMove, QuietCall, condVars
  <2>2. QED
    BY <2>1, UnannouncedKeeps DEF Unannounced, Dozing
<1> HIDE DEF condVars, vars, NoneMissed
<1>14. QED
  BY <1>2, <1>3, <1>4, <1>5, <1>6, <1>7, <1>8, <1>9, <1>10, <1>11, <1>12, <1>13
     DEF CondvarNext, CondvarWorkerStep, CondvarCallerStep, Terminated

\* "Wake up any thread waiting on a change of state": with spinning allowed no
\* broadcast is missed, for every number of callers and threads.
THEOREM NoLostBroadcast ==
    ASSUME DontSpinWorkers = FALSE PROVE CondvarSpec => []NobodySleepsThrough
<1>1. CondvarInit => NoneMissed
  BY ProcsFacts DEF CondvarInit, NoneMissed, Dozing
<1>2. WaitInv /\ CountInv /\ CountInv' /\ NoneMissed /\ [CondvarNext]_<<vars, condVars>>
      => NoneMissed'
  BY NoneMissedStep DEF CountInv
<1>3. NoneMissed => NobodySleepsThrough
  BY DEF NoneMissed, NobodySleepsThrough, Dozing, SleepingWorkers
<1>4. QED
  BY <1>1, <1>2, <1>3, WaitInvariant, PTL DEF CondvarSpec

-----------------------------------------------------------------------------
(* No caller sleeps on a condition that came true unannounced.  The caller *)
(* keeps the mutex from its look to its sleep, the announcement comes      *)
(* after the store and takes the mutex; and cond_signal wakes the right    *)
(* caller because only one can be waiting.                                 *)

Inside(c) == stage[c] \in {"lock", "check", "asleep", "relock"}
Dozes(c)  == stage[c] \in {"check", "asleep"}
Notifier  == \E w \in Workers : stage[w] = "notify" \/ pc[w] = "signalRecruited"

OnlyWaitersInside == \A c \in Callers : Inside(c) => pc[c] \in {"awaitDone", "awaitThreads"}
DozingNotified    == \A c \in Callers : Dozes(c) /\ Reached(c) => Notifier

CompletionInv == OnlyWaitersInside /\ DozingNotified

\* A step that takes no notice of the callers inside the wait.
Unnoticed ==
    /\ \A c \in Callers : /\ Inside(c)' => Inside(c) /\ pc'[c] = pc[c]
                          /\ Dozes(c)' => Dozes(c)
    /\ workIsDone' = 1 => workIsDone = 1
    /\ numRecruited' = 0 => numRecruited = 0 \/ Notifier'
    /\ Notifier => Notifier'

LEMMA UnnoticedKeeps == CompletionInv /\ Unnoticed => CompletionInv'
<1> SUFFICES ASSUME CompletionInv, Unnoticed PROVE CompletionInv'
  OBVIOUS
<1>1. OnlyWaitersInside'
  BY DEF CompletionInv, OnlyWaitersInside, Unnoticed
<1>2. ASSUME NEW c \in Callers, Dozes(c)', Reached(c)' PROVE Notifier'
  <2>1. Dozes(c) /\ pc'[c] = pc[c]
    BY <1>2 DEF Unnoticed, Inside, Dozes
  <2>2. Reached(c) => Notifier
    BY <2>1 DEF CompletionInv, DozingNotified
  <2>3. Reached(c) \/ Notifier'
    BY <1>2, <2>1 DEF Unnoticed, Reached
  <2>4. QED
    BY <2>2, <2>3 DEF Unnoticed
<1>3. QED
  BY <1>1, <1>2 DEF CompletionInv, DozingNotified

\* Two callers are never inside the waits at once.
LEMMA OneWaiter ==
    ASSUME CountInv, LifeInv, OnlyWaitersInside, NEW c \in Callers, NEW d \in Callers,
           Inside(c), Inside(d)
    PROVE  c = d
<1>1. pc[c] \in {"awaitDone", "awaitThreads"} /\ pc[d] \in {"awaitDone", "awaitThreads"}
  BY DEF OnlyWaitersInside
<1>2. CASE pc[c] = "awaitDone" /\ pc[d] = "awaitDone"
  BY <1>2 DEF CountInv, MutexHeld, OwnsMutex, InJob
<1>3. CASE pc[c] = "awaitThreads" \/ pc[d] = "awaitThreads"
  BY <1>1, <1>3 DEF LifeInv, Quiesced
<1>4. QED
  BY <1>1, <1>2, <1>3

LEMMA CompletionInvStep ==
    ASSUME WaitInv, CountInv, LifeInv, CompletionInv, [CondvarNext]_<<vars, condVars>>
    PROVE  CompletionInv'
<1> USE ProcsFacts, CallersAssumption
<1> USE DEF SetStage
<1>1. /\ stage \in [Procs -> WorkerStages \cup CallerStages]
      /\ TypeOK /\ RecruitedCount
  BY DEF WaitInv, StageOK, LifeInv
<1>2. CASE UNCHANGED <<vars, condVars>>
  BY <1>2, UnnoticedKeeps DEF Unnoticed, Notifier, Inside, Dozes, vars, condVars, sharedVars,
                              execVars, jobVars
\* A worker's step outside the waits, and its steps inside its own wait.
<1>3. ASSUME NEW w \in Workers, WorkerMove(w) \/ Wait(w) \/ UNCHANGED vars,
             \/ UNCHANGED stage
             \/ stage[w] # "notify" /\ \E s \in WaitStages : SetStage(w, s)
      PROVE  CompletionInv'
  <2>1. /\ \A c \in Callers : pc'[c] = pc[c] /\ stage'[c] = stage[c]
        /\ workIsDone' = workIsDone
        /\ \A v \in Workers : /\ pc[v] = "signalRecruited" => pc'[v] = "signalRecruited"
                              /\ stage[v] = "notify" => stage'[v] = "notify"
    BY <1>1, <1>3, StepOfWorker DEF vars, sharedVars, jobVars
  <2>2. numRecruited' = 0 => numRecruited = 0 \/ Notifier'
    BY <1>1, <1>3, StepOfWorker DEF Notifier, vars, sharedVars, execVars
  <2>3. QED
    BY <2>1, <2>2, UnnoticedKeeps DEF Unnoticed, Notifier, Inside, Dozes
<1>4. ASSUME NEW w \in Workers, StoreDone(w) PROVE CompletionInv'
  <2>1. Notifier'
    BY <1>1, <1>4 DEF StoreDone, Notifier
  <2>2. \A c \in Callers : pc'[c] = pc[c] /\ stage'[c] = stage[c]
    BY <1>1, <1>4 DEF StoreDone, SignalDone, Goto, TypeOK
  <2>3. QED
    BY <2>1, <2>2 DEF CompletionInv, OnlyWaitersInside, DozingNotified, Inside
\* Whoever sleeps is the only one, and is woken.
<1>5. ASSUME NEW w \in Workers, NotifyDone(w) \/ NotifyRecruited(w) PROVE CompletionInv'
  <2>1. \A c \in Callers : pc'[c] = pc[c]
    BY <1>1, <1>5 DEF NotifyDone, NotifyRecruited, SignalRecruited, Goto, TypeOK, vars
  <2>2. \A c \in Callers : stage[c] # "check"
    BY <1>5 DEF NotifyDone, NotifyRecruited, MayNotify, WaitInv, CondvarTypeOK
  <2>3. PICK woken \in IF SleepingCallers = {} THEN {w} ELSE SleepingCallers :
            stage' = [stage EXCEPT ![w] = "none",
                                   ![woken] = IF woken = w THEN "none" ELSE "relock"]
    BY <1>5 DEF NotifyDone, NotifyRecruited, WakeOne
  <2>4. \A c \in SleepingCallers : c = woken
    BY <2>3, OneWaiter DEF SleepingCallers, Inside, CompletionInv
  <2>5. \A c \in Callers : Inside(c)' => Inside(c)
    BY <1>1, <2>3 DEF Inside, SleepingCallers
  <2>6. \A c \in Callers : ~Dozes(c)'
    BY <1>1, <2>2, <2>3, <2>4 DEF Dozes, SleepingCallers
  <2>7. QED
    BY <2>1, <2>5, <2>6 DEF CompletionInv, OnlyWaitersInside, DozingNotified
<1>6. ASSUME NEW p \in Procs, WakeSpuriously(p) PROVE CompletionInv'
  BY <1>1, <1>6, UnnoticedKeeps
     DEF WakeSpuriously, Unnoticed, Notifier, Inside, Dozes, vars, sharedVars, jobVars, execVars
\* A caller's step outside the waits.
<1>7. ASSUME NEW c \in Callers, CallerAction(c),
             stage[c] = "none",
             UNCHANGED stage \/ SetStage(c, "none") \/ SetStage(c, "broadcast")
      PROVE  CompletionInv'
  <2>1. /\ \A d \in Callers : Inside(d)' => d # c /\ Inside(d)
        /\ \A d \in Callers : Dozes(d)' => Dozes(d)
        /\ \A v \in Workers : stage'[v] = stage[v]
    BY <1>1, <1>7 DEF Inside, Dozes
  <2>2. QED
    BY <1>1, <1>7, <2>1, StepOfCaller, UnnoticedKeeps DEF Unnoticed, Notifier
<1>8. ASSUME NEW c \in Callers, Broadcast(c) PROVE CompletionInv'
  <2>1. \A d \in Callers : stage'[d] = IF d = c THEN "none" ELSE stage[d]
    BY <1>1, <1>8 DEF Broadcast, WokenWorkers, SleepingWorkers
  <2>2. \A w \in Workers : stage[w] = "notify" => stage'[w] = "notify"
    BY <1>1, <1>8 DEF Broadcast, WokenWorkers, SleepingWorkers
  <2>3. UNCHANGED <<pc, workIsDone, numRecruited>>
    BY <1>8 DEF Broadcast, vars, sharedVars, jobVars, execVars
  <2>4. QED
    BY <2>1, <2>2, <2>3, UnnoticedKeeps DEF Unnoticed, Notifier, Inside, Dozes
<1>9. ASSUME NEW c \in Callers, EnterCompletion(c) PROVE CompletionInv'
  <2>1. /\ UNCHANGED <<pc, workIsDone, numRecruited>> /\ Waiting(c)
        /\ \A p \in Procs : stage'[p] = IF p = c THEN "lock" ELSE stage[p]
    BY <1>1, <1>9 DEF EnterCompletion, vars, sharedVars, jobVars, execVars
  <2>2. OnlyWaitersInside'
    BY <2>1 DEF CompletionInv, OnlyWaitersInside, Inside, Waiting
  <2>3. Notifier' <=> Notifier
    BY <2>1 DEF Notifier
  <2>4. \A d \in Callers : (Dozes(d)' => Dozes(d)) /\ (Reached(d)' <=> Reached(d))
    BY <2>1 DEF Dozes, Reached
  <2>5. QED
    BY <2>2, <2>3, <2>4 DEF CompletionInv, DozingNotified
\* A look in vain: the caller dozes, and its condition is false.
<1>10. ASSUME NEW c \in Callers, TryCompletion(c) PROVE CompletionInv'
  <2>1. CASE Reached(c) /\ AwaitDone(c) /\ SetStage(c, "none")
    <3>1. /\ \A d \in Callers : Inside(d)' => d # c /\ Inside(d)
          /\ \A d \in Callers : Dozes(d)' => Dozes(d)
          /\ \A v \in Workers : stage'[v] = stage[v]
      BY <1>1, <2>1 DEF Inside, Dozes
    <3>2. QED
      BY <1>1, <2>1, <3>1, StepOfCaller, UnnoticedKeeps DEF Unnoticed, Notifier, CallerAction
  <2>2. CASE UNCHANGED vars /\ SetStage(c, "none")
    BY <1>1, <2>2, UnnoticedKeeps
       DEF Unnoticed, Notifier, Inside, Dozes, vars, sharedVars, jobVars, execVars
  <2>3. CASE UNCHANGED vars /\ ~Reached(c) /\ SetStage(c, "check")
    <3>1. /\ UNCHANGED <<pc, workIsDone, numRecruited>>
          /\ \A p \in Procs : stage'[p] = IF p = c THEN "check" ELSE stage[p]
      BY <1>1, <2>3 DEF vars, sharedVars, jobVars, execVars
    <3>2. stage[c] \in {"lock", "relock"}
      BY <1>10 DEF TryCompletion
    <3>3. OnlyWaitersInside'
      BY <3>1, <3>2 DEF CompletionInv, OnlyWaitersInside, Inside
    <3>4. \A d \in Callers : Reached(d)' <=> Reached(d)
      BY <3>1 DEF Reached
    <3>5. \A d \in Callers : Dozes(d)' /\ Reached(d)' => Dozes(d)
      BY <2>3, <3>1, <3>4 DEF Dozes
    <3>6. Notifier' <=> Notifier
      BY <3>1 DEF Notifier
    <3>7. QED
      BY <3>3, <3>4, <3>5, <3>6 DEF CompletionInv, DozingNotified
  <2>4. QED
    BY <1>10, <2>1, <2>2, <2>3 DEF TryCompletion
<1>11. ASSUME NEW c \in Callers, SleepOnCompletion(c) PROVE CompletionInv'
  BY <1>1, <1>11, UnnoticedKeeps
     DEF SleepOnCompletion, Unnoticed, Notifier, Inside, Dozes, vars, sharedVars, jobVars, execVars
<1>12. ASSUME NEW w \in Workers, CondvarWorkerStep(w) PROVE CompletionInv'
  <2>1. CASE WorkerMove(w) /\ QuietMove(w)
    BY <1>3, <2>1 DEF QuietMove, condVars
  <2>2. CASE EnterWait(w)
    BY <1>3, <2>2 DEF EnterWait, WaitStages
  <2>3. CASE LookLocked(w)
    BY <1>3, <2>3 DEF LookLocked, WaitStages
  <2>4. CASE SleepOnState(w) \/ ReturnBorrowed(w)
    BY <1>3, <2>4 DEF SleepOnState, ReturnBorrowed, WorkerMove, WaitStages
  <2>5. QED
    BY <1>4, <1>5, <1>12, <2>1, <2>2, <2>3, <2>4 DEF CondvarWorkerStep
<1>13. ASSUME NEW c \in Callers, CondvarCallerStep(c) PROVE CompletionInv'
  <2>1. CASE (CallerMove(c) \/ AwaitDone(c) \/ Free(c)) /\ QuietMove(c)
    BY <1>7, <2>1 DEF QuietMove, condVars, CallerAction
  <2>2. CASE PublishAndSignal(c)
    BY <1>7, <2>2 DEF PublishAndSignal, CallerAction
  <2>3. QED
    BY <1>8, <1>9, <1>10, <1>11, <1>13, <2>1, <2>2 DEF CondvarCallerStep
<1>14. ASSUME NEW c \in Callers, QuietCall(c) \/ SignallingCall(c) \/ UpdateCall(c)
       PROVE  CompletionInv'
  <2>1. ApplicationStep(c) /\ pc[c] = "idle" /\ AllOutside
    BY <1>14 DEF QuietCall, SignallingCall, UpdateCall, ApplicationStep, CallParallelize,
                 SetThreadsCount, Destroy, ReleaseExecutorThreads, UpdateExecutor
  <2>2. stage[c] = "none"
    BY <2>1 DEF AllOutside
  <2>3. UNCHANGED stage \/ SetStage(c, "none") \/ SetStage(c, "broadcast")
    BY <1>14 DEF QuietCall, SignallingCall, UpdateCall, condVars
  <2>4. QED
    BY <1>7, <2>1, <2>2, <2>3 DEF CallerAction
<1> HIDE DEF condVars, vars, CompletionInv, SetStage
<1>15. QED
  BY <1>2, <1>6, <1>12, <1>13, <1>14 DEF CondvarNext, Terminated

\* A caller of pthreadpool_parallelize or pthreadpool_destroy that sleeps on a
\* condition that came true will be woken, for every number of callers and threads.
THEOREM NoCallerForgotten == CondvarSpec => []CompletionNotified
<1>1. CondvarInit => CompletionInv
  BY ProcsFacts DEF CondvarInit, CompletionInv, OnlyWaitersInside, DozingNotified, Inside, Dozes
<1>2. WaitInv /\ CountInv /\ LifeInv /\ CompletionInv /\ [CondvarNext]_<<vars, condVars>>
      => CompletionInv'
  BY CompletionInvStep
<1>3. CompletionInv => CompletionNotified
  BY DEF CompletionInv, DozingNotified, CompletionNotified, SleepingCallers, Dozes, Notifier
<1>4. CondvarSpec => []LifeInv
  BY CondvarImplementsPool, LifeInvariant, PTL
<1>5. QED
  BY <1>1, <1>2, <1>3, <1>4, WaitInvariant, PTL DEF CondvarSpec
==============================================================================
