----------------------------- MODULE FutexProofs -----------------------------
(***************************************************************************)
(* The futex build implements the thread protocol of ThreadPool, and its   *)
(* two optimisations are safe for every number of callers and threads:     *)
(* num_waiting_threads counts the threads that may be asleep, and waking   *)
(* only as many of them as a job has use for leaves no thread asleep that  *)
(* is needed.                                                              *)
(***************************************************************************)
EXTENDS FutexPool, ThreadPoolProofs

LEMMA FutexCodeRefines == FutexNext => [Next]_vars
<1> SUFFICES ASSUME FutexNext PROVE [Next]_vars
  OBVIOUS
<1>1. ASSUME NEW w \in Workers, FutexWorkerStep(w) PROVE WorkerStep(w) \/ UNCHANGED vars
  <2>1. CASE WorkerMove(w) /\ QuietMove(w)
    BY <2>1 DEF WorkerStep
  <2>2. CASE Announce(w) \/ Sleep(w) \/ Retire(w) \/ WakeDone(w)
    BY <2>2 DEF Announce, Sleep, Retire, WakeDone
  <2>3. CASE CheckAgain(w) \/ ReloadState(w)
    BY <2>3 DEF CheckAgain, ReloadState, WorkerStep
  <2>4. CASE StoreDone(w) \/ WakeRecruited(w)
    BY <2>4 DEF StoreDone, WakeRecruited, WorkerStep
  <2>5. QED
    BY <1>1, <2>1, <2>2, <2>3, <2>4 DEF FutexWorkerStep
<1>2. ASSUME NEW c \in Callers, FutexCallerStep(c) PROVE CallerStep(c) \/ UNCHANGED vars
  <2>1. CASE (CallerMove(c) \/ AwaitDone(c) \/ Free(c)) /\ QuietMove(c)
    BY <2>1 DEF CallerStep
  <2>2. CASE PublishAndSignal(c)
    BY <2>2 DEF PublishAndSignal, CallerStep
  <2>3. CASE LoadWaiting(c) \/ WakeActive(c) \/ SleepOnDone(c) \/ SleepOnRecruited(c)
    BY <2>3 DEF LoadWaiting, EndSignal, WakeActive, SleepOnDone, SleepOnRecruited
  <2>4. QED
    BY <1>2, <2>1, <2>2, <2>3 DEF FutexCallerStep
<1>3. ASSUME NEW p, WakeSpuriously(p) \/ WakeCallerSpuriously(p) PROVE UNCHANGED vars
  BY <1>3 DEF WakeSpuriously, WakeCallerSpuriously
<1>4. ASSUME NEW c \in Callers, QuietCall(c) \/ SignallingCall(c) PROVE ApplicationStep(c)
  BY <1>4 DEF QuietCall, SignallingCall, ApplicationStep
<1>5. QED
  BY <1>1, <1>2, <1>3, <1>4 DEF FutexNext, Next

LEMMA FutexStepRefines == [FutexNext]_<<vars, futexVars>> => [Next]_vars
BY FutexCodeRefines

\* The build with futexes implements the protocol, whose waits are loops that
\* look again and again.
THEOREM FutexImplementsPool == FutexSpec => Spec
<1>1. FutexInit => Init
  BY DEF FutexInit
<1>2. QED
  BY <1>1, FutexStepRefines, PTL DEF FutexSpec, Spec

-----------------------------------------------------------------------------
(* num_waiting_threads counts the threads between their announcement and   *)
(* their withdrawal.  They all are threads of the pool's own, one for each *)
(* thread id, which is what bounds the count.                              *)

Announced == {w \in Workers : stage[w] \in {"check", "sleep", "asleep", "retire"}}

CallerStages == SignalStages \cup {"none", "sleepOnDone", "sleepOnRecruited"}
WorkerStages == WaitStages \cup {"none", "wakeDone"}

StagesFit ==
    /\ \A c \in Callers : stage[c] \in CallerStages
    /\ \A w \in Workers : stage[w] \in WorkerStages

\* A thread inside the wait is at the wait of thread_main, has not seen a job,
\* and is the one thread of its thread_info.
WaitersWait ==
    \A w \in Workers : stage[w] \in WaitStages =>
        pc[w] = "loop" /\ curr[w] <= 0 /\ w[2] = 1

WaitersCounted == numWaiting = Cardinality(Announced)

FutexInv == FutexTypeOK /\ StagesFit /\ WaitersWait /\ WaitersCounted

LEMMA AnnouncedFacts ==
    /\ IsFiniteSet(Announced) /\ Cardinality(Announced) \in Nat
    /\ Announced' \subseteq Procs /\ IsFiniteSet(Announced') /\ Cardinality(Announced') \in Nat
<1>1. Announced \subseteq Procs /\ Announced' \subseteq Procs
  BY ProcsFacts DEF Announced
<1>2. QED
  BY <1>1, ProcsFacts, FS_Subset, FS_CardinalityType

\* At most the pool's own threads wait.
LEMMA FewWait == WaitersWait => Cardinality(Announced) <= MaxThreads - 1
<1> SUFFICES ASSUME WaitersWait PROVE Cardinality(Announced) <= MaxThreads - 1
  OBVIOUS
<1>1. Announced \subseteq Tids \X {1}
  BY DEF Announced, WaitersWait, WaitStages, Workers
<1>2. IsFiniteSet(Tids) /\ Cardinality(Tids) = MaxThreads - 1
  BY FS_Interval, SizesAssumption DEF Tids
<1>3. IsFiniteSet({1}) /\ Cardinality({1}) = 1
  BY FS_Singleton
<1>4. IsFiniteSet(Tids \X {1}) /\ Cardinality(Tids \X {1}) = (MaxThreads - 1) * 1
  BY <1>2, <1>3, FS_Product
<1>5. Cardinality(Announced) <= Cardinality(Tids \X {1})
  BY <1>1, <1>4, FS_Subset
<1>6. QED
  BY <1>4, <1>5, SizesAssumption

LEMMA FutexInvInit == FutexInit => FutexInv
<1> SUFFICES ASSUME FutexInit PROVE FutexInv
  OBVIOUS
<1>1. \A p \in Procs : stage[p] = "none"
  BY DEF FutexInit
<1>2. Announced = {}
  BY <1>1, ProcsFacts DEF Announced
<1>3. numWaiting = Cardinality(Announced)
  BY <1>2, FS_EmptySet DEF FutexInit
<1>4. FutexTypeOK
  BY <1>1, TypeOKInit, SizesAssumption DEF FutexTypeOK, FutexInit, OtherStages
<1>5. QED
  BY <1>1, <1>3, <1>4, ProcsFacts
     DEF FutexInv, StagesFit, WaitersWait, WaitersCounted, CallerStages, WorkerStages, WaitStages

\* A step of a thread that is not inside the wait leaves the waiting ones there.
LEMMA WaitersStay ==
    ASSUME FutexInv, NEW p \in Procs, stage[p] \notin WaitStages,
           (p \in Workers /\ WorkerStep(p)) \/ (p \in Callers /\ CallerAction(p))
    PROVE  \A w \in Workers : stage[w] \in WaitStages => pc'[w] = pc[w] /\ curr'[w] = curr[w]
<1> TAKE w \in Workers
<1> HAVE stage[w] \in WaitStages
<1>1. w # p /\ w \in Procs /\ pc[w] = "loop" /\ TypeOK
  BY ProcsFacts DEF FutexInv, FutexTypeOK, WaitersWait
<1>2. QED
  BY <1>1, OthersStay

\* A step that leaves the futex code's variables alone.
LEMMA QuietFutexStep ==
    ASSUME FutexInv, TypeOK', UNCHANGED futexVars, NEW p \in Procs, stage[p] \notin WaitStages,
           (p \in Workers /\ WorkerStep(p)) \/ (p \in Callers /\ CallerAction(p))
    PROVE  FutexInv'
BY WaitersStay
   DEF FutexInv, FutexTypeOK, StagesFit, WaitersWait, WaitersCounted, Announced, futexVars

\* A step of a thread outside the wait that changes no waiting thread's stage.
LEMMA OutsideStep ==
    ASSUME FutexInv, TypeOK', NEW p \in Procs, stage[p] \notin WaitStages,
           NEW s \in (CallerStages \cup {"wakeDone"}), p \in Callers => s \in CallerStages,
           p \in Workers => s \in {"none", "wakeDone"},
           SetStage(p, s), numWaiting' = numWaiting,
           maxWaiting' \in [Callers -> 0 .. MaxThreads],
           toWake' \in [Callers -> 0 .. MaxThreads],
           \/ (p \in Workers /\ WorkerStep(p)) \/ (p \in Callers /\ CallerAction(p))
           \/ UNCHANGED vars
    PROVE  FutexInv'
<1>1. \A w \in Workers : stage[w] \in WaitStages => pc'[w] = pc[w] /\ curr'[w] = curr[w]
  BY WaitersStay DEF vars
<1>2. /\ \A q \in Procs : stage'[q] = IF q = p THEN s ELSE stage[q]
      /\ stage' \in [Procs -> WaitStages \cup SignalStages \cup OtherStages]
  BY DEF SetStage, FutexInv, FutexTypeOK, CallerStages, OtherStages
<1>3. s \notin WaitStages
  BY DEF CallerStages, SignalStages, WaitStages
<1>4. Announced' = Announced
  BY <1>2, <1>3, ProcsFacts DEF Announced, WaitStages
<1>5. StagesFit'
  BY <1>2, ProcsFacts DEF FutexInv, StagesFit, WorkerStages
<1>6. WaitersWait'
  BY <1>1, <1>2, <1>3, ProcsFacts DEF FutexInv, WaitersWait
<1>7. FutexTypeOK' /\ WaitersCounted'
  BY <1>2, <1>4 DEF FutexInv, FutexTypeOK, WaitersCounted
<1>8. QED
  BY <1>5, <1>6, <1>7 DEF FutexInv

\* A thread announces itself only where the pool runs threads of its own.
LEMMA AnnounceStep ==
    ASSUME FutexInv, LifeInv, TypeOK', NEW w \in Workers, Announce(w)
    PROVE  FutexInv'
<1> USE ProcsFacts
<1>1. /\ pc[w] = "loop" /\ curr[w] <= 0 /\ stage[w] = "none" /\ w[2] = 1
      /\ numWaiting' = numWaiting + 1
      /\ UNCHANGED <<pc, curr, maxWaiting, toWake>>
  BY DEF Announce, OneMoreWaiting, LifeInv, OwnThreads, vars
<1>2. /\ \A q \in Procs : stage'[q] = IF q = w THEN "check" ELSE stage[q]
      /\ stage' \in [Procs -> WaitStages \cup SignalStages \cup OtherStages]
  BY DEF Announce, SetStage, FutexInv, FutexTypeOK, WaitStages
<1>3. Announced' = Announced \cup {w} /\ w \notin Announced
  BY <1>1, <1>2 DEF Announced
<1>4. WaitersCounted'
  BY <1>1, <1>3, AnnouncedFacts, FS_AddElement DEF FutexInv, WaitersCounted
<1>5. StagesFit' /\ WaitersWait'
  BY <1>1, <1>2 DEF FutexInv, StagesFit, WaitersWait, WorkerStages, WaitStages
<1>6. FutexTypeOK'
  BY <1>1, <1>2, <1>4, AnnouncedFacts DEF FutexInv, FutexTypeOK, WaitersCounted
<1>7. QED
  BY <1>4, <1>5, <1>6 DEF FutexInv

\* It withdraws once, whatever woke it.
LEMMA RetireStep ==
    ASSUME FutexInv, TypeOK', NEW w \in Workers, Retire(w)
    PROVE  FutexInv'
<1> USE ProcsFacts
<1>1. /\ stage[w] = "retire" /\ numWaiting' = numWaiting - 1
      /\ UNCHANGED <<pc, curr, maxWaiting, toWake>>
  BY DEF Retire, vars
<1>2. /\ \A q \in Procs : stage'[q] = IF q = w THEN "reload" ELSE stage[q]
      /\ stage' \in [Procs -> WaitStages \cup SignalStages \cup OtherStages]
  BY DEF Retire, SetStage, FutexInv, FutexTypeOK, WaitStages
<1>3. Announced' = Announced \ {w} /\ w \in Announced
  BY <1>1, <1>2 DEF Announced
<1>4. WaitersCounted'
  BY <1>1, <1>3, AnnouncedFacts, FS_RemoveElement DEF FutexInv, WaitersCounted
<1>5. StagesFit' /\ WaitersWait'
  BY <1>1, <1>2 DEF FutexInv, StagesFit, WaitersWait, WorkerStages, WaitStages
<1>6. FutexTypeOK'
  BY <1>1, <1>2, <1>4, AnnouncedFacts DEF FutexInv, FutexTypeOK, WaitersCounted
<1>7. QED
  BY <1>4, <1>5, <1>6 DEF FutexInv

\* The other steps inside the wait keep a thread announced ...
LEMMA InsideWaitStep ==
    ASSUME FutexInv, TypeOK', NEW w \in Workers, CheckAgain(w) \/ Sleep(w) \/ WakeSpuriously(w)
    PROVE  FutexInv'
<1> USE ProcsFacts
<1>1. PICK s \in {"sleep", "asleep", "retire"} : SetStage(w, s)
  BY DEF CheckAgain, Sleep, WakeSpuriously
<1>2. /\ stage[w] \in {"check", "sleep", "asleep"}
      /\ UNCHANGED <<pc, numWaiting, maxWaiting, toWake>>
      /\ \A v \in Workers \ {w} : curr'[v] = curr[v]
      /\ curr[w] <= 0 => curr'[w] <= 0
  BY DEF CheckAgain, Sleep, WakeSpuriously, Wait, FutexInv, FutexTypeOK, TypeOK, vars
<1>3. /\ \A q \in Procs : stage'[q] = IF q = w THEN s ELSE stage[q]
      /\ stage' \in [Procs -> WaitStages \cup SignalStages \cup OtherStages]
  BY <1>1 DEF SetStage, FutexInv, FutexTypeOK, WaitStages
<1>4. Announced' = Announced
  BY <1>2, <1>3 DEF Announced
<1>5. StagesFit' /\ WaitersWait'
  BY <1>2, <1>3 DEF FutexInv, StagesFit, WaitersWait, WorkerStages, WaitStages
<1>6. FutexTypeOK' /\ WaitersCounted'
  BY <1>2, <1>3, <1>4 DEF FutexInv, FutexTypeOK, WaitersCounted
<1>7. QED
  BY <1>5, <1>6 DEF FutexInv

\* ... and the reload that ends an iteration finds it withdrawn.
LEMMA ReloadStep ==
    ASSUME FutexInv, TypeOK', NEW w \in Workers, ReloadState(w)
    PROVE  FutexInv'
<1> USE ProcsFacts
<1>1. /\ stage[w] \in {"none", "reload"}
      /\ UNCHANGED <<pc, numWaiting, maxWaiting, toWake>>
      /\ \A v \in Workers \ {w} : curr'[v] = curr[v]
  BY DEF ReloadState, Wait, FutexInv, FutexTypeOK, TypeOK
<1>2. /\ \A q \in Procs : stage'[q] = IF q = w THEN "none" ELSE stage[q]
      /\ stage' \in [Procs -> WaitStages \cup SignalStages \cup OtherStages]
  BY DEF ReloadState, SetStage, FutexInv, FutexTypeOK, OtherStages
<1>3. Announced' = Announced
  BY <1>1, <1>2 DEF Announced
<1>4. StagesFit' /\ WaitersWait'
  BY <1>1, <1>2 DEF FutexInv, StagesFit, WaitersWait, WorkerStages, WaitStages
<1>5. FutexTypeOK' /\ WaitersCounted'
  BY <1>1, <1>2, <1>3 DEF FutexInv, FutexTypeOK, WaitersCounted
<1>6. QED
  BY <1>4, <1>5 DEF FutexInv

\* A wake turns sleepers into threads about to withdraw.
LEMMA WakeStep ==
    ASSUME FutexInv, TypeOK', NEW c \in Callers, WakeActive(c)
    PROVE  FutexInv'
<1> USE ProcsFacts
<1>1. PICK woken \in SUBSET Sleepers :
          stage' = [p \in Procs |-> IF p \in woken THEN "retire"
                                    ELSE IF p = c THEN "none" ELSE stage[p]]
  BY DEF WakeActive
<1>2. /\ stage[c] = "wake" /\ UNCHANGED <<pc, curr, numWaiting>>
      /\ maxWaiting' = [maxWaiting EXCEPT ![c] = 0] /\ toWake' = [toWake EXCEPT ![c] = 0]
  BY DEF WakeActive, vars
<1>3. /\ \A w \in Workers : stage'[w] = IF w \in woken THEN "retire" ELSE stage[w]
      /\ \A w \in woken : w \in Workers /\ stage[w] = "asleep"
      /\ \A d \in Callers : stage'[d] = IF d = c THEN "none" ELSE stage[d]
  BY <1>1 DEF Sleepers
<1>4. Announced' = Announced
  BY <1>3 DEF Announced
<1>5. StagesFit' /\ WaitersWait'
  BY <1>2, <1>3
     DEF FutexInv, StagesFit, WaitersWait, CallerStages, WorkerStages, WaitStages
<1>6. stage' \in [Procs -> WaitStages \cup SignalStages \cup OtherStages]
  BY <1>1 DEF FutexInv, FutexTypeOK, OtherStages, WaitStages
<1>7. maxWaiting' \in [Callers -> 0 .. MaxThreads] /\ toWake' \in [Callers -> 0 .. MaxThreads]
  BY <1>2, SizesAssumption DEF FutexInv, FutexTypeOK
<1>8. FutexTypeOK' /\ WaitersCounted'
  BY <1>2, <1>4, <1>6, <1>7 DEF FutexInv, FutexTypeOK, WaitersCounted
<1>9. QED
  BY <1>5, <1>8 DEF FutexInv

\* Callers that sleep on the two other words are outside this wait.
LEMMA WakeCallersStep ==
    ASSUME FutexInv, TypeOK', NEW w \in Workers, WakeDone(w) \/ WakeRecruited(w)
    PROVE  FutexInv'
<1> USE ProcsFacts
<1>1. PICK S \in SUBSET Callers, T \in SUBSET {w} :
          stage' = [p \in Procs |-> IF p \in S \cup T THEN "none" ELSE stage[p]]
  <2>1. CASE WakeDone(w)
    <3>1. SleepingOn("sleepOnDone") \in SUBSET Callers /\ {w} \in SUBSET {w}
      BY DEF SleepingOn
    <3>2. \A p : p \in SleepingOn("sleepOnDone") \cup {w}
                 <=> p = w \/ p \in SleepingOn("sleepOnDone")
      OBVIOUS
    <3>3. stage' = [p \in Procs |-> IF p \in SleepingOn("sleepOnDone") \cup {w}
                                    THEN "none" ELSE stage[p]]
      BY <2>1, <3>2 DEF WakeDone
    <3>4. QED
      BY <3>1, <3>3
  <2>2. CASE WakeRecruited(w)
    <3>1. /\ SleepingOn("sleepOnRecruited") \in SUBSET Callers /\ {} \in SUBSET {w}
          /\ SleepingOn("sleepOnRecruited") \cup {} = SleepingOn("sleepOnRecruited")
      BY DEF SleepingOn
    <3>2. stage' = [p \in Procs |-> IF p \in SleepingOn("sleepOnRecruited") \cup {}
                                    THEN "none" ELSE stage[p]]
      BY <2>2, <3>1 DEF WakeRecruited
    <3>3. QED
      BY <3>1, <3>2
  <2>3. QED
    BY <2>1, <2>2
<1>2. stage[w] \notin WaitStages /\ UNCHANGED <<numWaiting, maxWaiting, toWake>>
  BY DEF WakeDone, WakeRecruited, SignalRecruited, WaitStages, FutexInv, WaitersWait
<1>3. \A v \in Workers : stage[v] \in WaitStages => pc'[v] = pc[v] /\ curr'[v] = curr[v]
  BY <1>2, WaitersStay DEF WakeDone, WakeRecruited, WorkerStep, vars
<1>4. /\ \A v \in Workers : stage[v] \in WaitStages => stage'[v] = stage[v]
      /\ \A q \in Procs : stage'[q] = stage[q] \/ stage'[q] = "none"
  BY <1>1, <1>2
<1>5. Announced' = Announced
  BY <1>4 DEF Announced, WaitStages
<1>6. StagesFit' /\ WaitersWait'
  BY <1>3, <1>4 DEF FutexInv, StagesFit, WaitersWait, CallerStages, WorkerStages, WaitStages
<1>7. stage' \in [Procs -> WaitStages \cup SignalStages \cup OtherStages]
  BY <1>1 DEF FutexInv, FutexTypeOK, OtherStages
<1>8. FutexTypeOK' /\ WaitersCounted'
  BY <1>2, <1>5, <1>7 DEF FutexInv, FutexTypeOK, WaitersCounted
<1>9. QED
  BY <1>6, <1>8 DEF FutexInv

\* The signal of signal_num_active_threads, and a caller's own sleep.
LEMMA SignalStep ==
    ASSUME FutexInv, TypeOK', NEW c \in Callers,
           \/ PublishAndSignal(c) \/ SignallingCall(c)
           \/ LoadWaiting(c) \/ SleepOnDone(c) \/ SleepOnRecruited(c)
           \/ WakeCallerSpuriously(c)
    PROVE  FutexInv'
<1> USE ProcsFacts, SizesAssumption
<1> USE DEF CallerStages, SignalStages, WaitStages
<1>1. stage[c] \notin WaitStages /\ TypeOK /\ StagesFit
  BY DEF FutexInv, FutexTypeOK, StagesFit
<1>2. /\ maxWaiting \in [Callers -> 0 .. MaxThreads]
      /\ toWake \in [Callers -> 0 .. MaxThreads]
      /\ threadsCount \in 0 .. MaxThreads
  BY DEF FutexInv, FutexTypeOK, TypeOK
<1>3. CASE PublishAndSignal(c)
  <2>1. /\ SetStage(c, "load") /\ numWaiting' = numWaiting /\ toWake' = toWake
        /\ maxWaiting' = [maxWaiting EXCEPT ![c] = MaxThreads - threadsCount]
        /\ CallerAction(c)
    BY <1>3 DEF PublishAndSignal, BeginSignal, MayWait, CallerAction
  <2>2. maxWaiting' \in [Callers -> 0 .. MaxThreads]
    BY <1>2, <2>1
  <2>3. QED
    BY <1>1, <1>2, <2>1, <2>2, OutsideStep
<1>4. CASE SignallingCall(c)
  <2>1. /\ SetStage(c, "load") /\ numWaiting' = numWaiting /\ toWake' = toWake
        /\ maxWaiting' = [maxWaiting EXCEPT ![c] = 0]
        /\ CallerAction(c)
    BY <1>4 DEF SignallingCall, BeginSignal, CallerAction, ApplicationStep
  <2>2. maxWaiting' \in [Callers -> 0 .. MaxThreads]
    BY <1>2, <2>1
  <2>3. QED
    BY <1>1, <1>2, <2>1, <2>2, OutsideStep
<1>5. CASE LoadWaiting(c)
  <2>1. CASE numWaiting > maxWaiting[c]
    <3>1. /\ SetStage(c, "wake") /\ UNCHANGED <<vars, numWaiting, maxWaiting>>
          /\ toWake' = [toWake EXCEPT ![c] = numWaiting - maxWaiting[c]]
      BY <1>5, <2>1, <1>2 DEF LoadWaiting, FutexInv, FutexTypeOK
    <3>2. numWaiting \in Nat /\ numWaiting <= MaxThreads - 1
      BY FewWait DEF FutexInv, FutexTypeOK, WaitersCounted
    <3>3. numWaiting - maxWaiting[c] \in 0 .. MaxThreads
      BY <1>2, <2>1, <3>2
    <3>4. toWake' \in [Callers -> 0 .. MaxThreads]
      BY <1>2, <3>1, <3>3
    <3>5. QED
      BY <1>1, <1>2, <3>1, <3>4, OutsideStep
  <2>2. CASE ~(numWaiting > maxWaiting[c])
    <3>1. /\ SetStage(c, "none") /\ UNCHANGED <<vars, numWaiting>>
          /\ maxWaiting' = [maxWaiting EXCEPT ![c] = 0]
          /\ toWake' = [toWake EXCEPT ![c] = 0]
      BY <1>5, <2>2 DEF LoadWaiting, EndSignal
    <3>2. /\ maxWaiting' \in [Callers -> 0 .. MaxThreads]
          /\ toWake' \in [Callers -> 0 .. MaxThreads]
      BY <1>2, <3>1
    <3>3. QED
      BY <1>1, <3>1, <3>2, OutsideStep
  <2>3. QED
    BY <2>1, <2>2
<1>6. CASE SleepOnDone(c) \/ SleepOnRecruited(c) \/ WakeCallerSpuriously(c)
  <2>1. PICK s \in CallerStages : SetStage(c, s)
    BY <1>6 DEF SleepOnDone, SleepOnRecruited, WakeCallerSpuriously
  <2>2. UNCHANGED <<vars, numWaiting, maxWaiting, toWake>>
    BY <1>6 DEF SleepOnDone, SleepOnRecruited, WakeCallerSpuriously
  <2>3. QED
    BY <1>1, <1>2, <2>1, <2>2, OutsideStep
<1>7. QED
  BY <1>3, <1>4, <1>5, <1>6

\* The last worker out raises the flag before it wakes the caller.
LEMMA StoreStep ==
    ASSUME FutexInv, TypeOK', NEW w \in Workers, StoreDone(w)
    PROVE  FutexInv'
<1>1. /\ stage[w] \notin WaitStages /\ w \in Procs /\ w \notin Callers
      /\ SetStage(w, "wakeDone") /\ WorkerStep(w)
      /\ UNCHANGED <<numWaiting, maxWaiting, toWake>>
  BY ProcsFacts DEF StoreDone, WaitStages, WorkerStep
<1>2. maxWaiting \in [Callers -> 0 .. MaxThreads] /\ toWake \in [Callers -> 0 .. MaxThreads]
  BY DEF FutexInv, FutexTypeOK
<1>3. QED
  BY <1>1, <1>2, OutsideStep

LEMMA FutexInvStep ==
    FutexInv /\ LifeInv /\ TypeOK' /\ [FutexNext]_<<vars, futexVars>> => FutexInv'
<1> SUFFICES ASSUME FutexInv, LifeInv, TypeOK', [FutexNext]_<<vars, futexVars>>
             PROVE  FutexInv'
  OBVIOUS
<1> USE ProcsFacts
<1>1. ASSUME UNCHANGED <<vars, futexVars>> PROVE FutexInv'
  BY <1>1 DEF FutexInv, FutexTypeOK, StagesFit, WaitersWait, WaitersCounted, Announced, vars,
              futexVars
<1>2. ASSUME NEW w \in Workers, WorkerMove(w) /\ QuietMove(w) PROVE FutexInv'
  BY <1>2, QuietFutexStep DEF QuietMove, WaitStages, WorkerStep
<1>3. ASSUME NEW c \in Callers, (CallerMove(c) \/ AwaitDone(c) \/ Free(c)) /\ QuietMove(c)
      PROVE  FutexInv'
  BY <1>3, QuietFutexStep DEF QuietMove, WaitStages, CallerAction
<1>4. ASSUME NEW c \in Callers, QuietCall(c) PROVE FutexInv'
  <2>1. stage[c] \notin WaitStages
    BY DEF FutexInv, StagesFit, CallerStages, SignalStages, WaitStages
  <2>2. CallerAction(c) /\ UNCHANGED futexVars
    BY <1>4 DEF QuietCall, CallerAction, ApplicationStep
  <2>3. QED
    BY <2>1, <2>2, QuietFutexStep
<1> HIDE DEF FutexInv, vars, futexVars
<1>5. QED
  BY <1>1, <1>2, <1>3, <1>4, AnnounceStep, RetireStep, InsideWaitStep, ReloadStep, WakeStep,
     WakeCallersStep, SignalStep, StoreStep
     DEF FutexNext, FutexWorkerStep, FutexCallerStep, Terminated

LEMMA FutexInvariant == FutexSpec => [](FutexInv /\ CountInv /\ LifeInv)
<1>1. FutexSpec => []TypeOK /\ []CountInv /\ []LifeInv
  BY FutexImplementsPool, TypeCorrect, CountInvariant, LifeInvariant, PTL
<1>2. FutexInv /\ LifeInv /\ TypeOK' /\ [FutexNext]_<<vars, futexVars>> => FutexInv'
  BY FutexInvStep
<1>3. QED
  BY <1>1, <1>2, FutexInvInit, PTL DEF FutexSpec

\* No more threads announce themselves, and no more wake-ups are asked for, than
\* the pool has threads: num_waiting_threads never drops below zero, and the
\* count given to futex_wake_n is a possible one.
THEOREM FutexTypeCorrect == FutexSpec => []FutexTypeOK
BY FutexInvariant, PTL DEF FutexInv

-----------------------------------------------------------------------------
(* Nobody oversleeps.  Once num_active_threads is positive no thread falls *)
(* asleep any more, because the kernel compares it with the value that the *)
(* thread last saw, which was not; so all that sleep then were announced   *)
(* when the signal looks at num_waiting_threads, and enough are woken.     *)

\* Signals do not overlap: a signaller has execution_mutex, or is in a call
\* that the application keeps apart from all others.
OneSignaller == \A c \in Callers : stage[c] \in SignalStages =>
    /\ \A d \in Callers : stage[d] \in SignalStages => d = c
    /\ \/ pc[c] \in {"ensStart", "swapExecutor"}
       \/ pc[c] \in {"idle", "awaitThreads"} /\ \A d \in Callers \ {c} : pc[d] = "idle"

\* How many threads the job, or DONE, has no use for.
Spare == IF numActive = DONE THEN 0 ELSE MaxThreads - threadsCount

EnoughAwake == numActive > 0 =>
    /\ \A c \in Callers : stage[c] \in SignalStages => maxWaiting[c] = Spare
    /\ \A c \in Callers : stage[c] = "wake" =>
           Cardinality(Sleepers) <= maxWaiting[c] + toWake[c]
    /\ ~SignalUnderWay => Cardinality(Sleepers) <= Spare

AwakeInv == OneSignaller /\ EnoughAwake

LEMMA SleepersFacts ==
    /\ Sleepers \subseteq Announced
    /\ IsFiniteSet(Sleepers) /\ Cardinality(Sleepers) \in Nat
    /\ Cardinality(Sleepers) <= Cardinality(Announced)
    /\ \A S : S \subseteq Sleepers =>
           IsFiniteSet(S) /\ Cardinality(S) \in Nat /\ Cardinality(S) <= Cardinality(Sleepers)
<1>1. Sleepers \subseteq Announced
  BY DEF Sleepers, Announced
<1>2. QED
  BY <1>1, AnnouncedFacts, FS_Subset, FS_CardinalityType

LEMMA SpareKept ==
    ASSUME CountInv, CountInv', StoreFree, numActive' > 0
    PROVE  numActive > 0 /\ Spare' = Spare
<1>1. numActive > 0 /\ (numActive' # numActive => numActive # DONE)
  BY OnlyStoresRaise DEF CountInv
<1>2. numActive' = DONE => numActive = DONE
  BY DoneIsStored
<1>3. threadsCount' = threadsCount \/ (numActive \in {0, DONE} /\ numActive' = numActive)
  BY CountChanges
<1>4. QED
  BY <1>1, <1>2, <1>3, DoneFacts DEF Spare

\* A step that announces nothing, ends no signal and sends nobody to sleep.
Unsignalled ==
    /\ numActive' > 0 => numActive > 0 /\ Spare' = Spare
    /\ \A c \in Callers :
          /\ stage[c] \in SignalStages \/ stage'[c] \in SignalStages => stage'[c] = stage[c]
          /\ maxWaiting'[c] = maxWaiting[c] /\ toWake'[c] = toWake[c]
    /\ Sleepers' \subseteq Sleepers

LEMMA UnsignalledKeeps ==
    ASSUME FutexInv, FutexInv', EnoughAwake, Unsignalled
    PROVE  EnoughAwake'
<1> SUFFICES ASSUME numActive' > 0
             PROVE  /\ \A c \in Callers : stage'[c] \in SignalStages => maxWaiting'[c] = Spare'
                    /\ \A c \in Callers : stage'[c] = "wake" =>
                           Cardinality(Sleepers') <= maxWaiting'[c] + toWake'[c]
                    /\ ~SignalUnderWay' => Cardinality(Sleepers') <= Spare'
  BY DEF EnoughAwake
<1>1. numActive > 0 /\ Spare' = Spare
  BY DEF Unsignalled
<1>2. /\ Cardinality(Sleepers) \in Nat /\ Cardinality(Sleepers') \in Nat
      /\ Cardinality(Sleepers') <= Cardinality(Sleepers)
  BY SleepersFacts DEF Unsignalled
<1>3. /\ maxWaiting \in [Callers -> 0 .. MaxThreads] /\ toWake \in [Callers -> 0 .. MaxThreads]
      /\ threadsCount \in 0 .. MaxThreads /\ Spare \in Int
  BY SizesAssumption DEF FutexInv, FutexTypeOK, TypeOK, Spare
<1>4. ASSUME NEW c \in Callers, stage'[c] \in SignalStages PROVE maxWaiting'[c] = Spare'
  BY <1>1, <1>4 DEF EnoughAwake, Unsignalled
<1>5. ASSUME NEW c \in Callers, stage'[c] = "wake"
      PROVE  Cardinality(Sleepers') <= maxWaiting'[c] + toWake'[c]
  <2>1. stage[c] = "wake" /\ maxWaiting'[c] = maxWaiting[c] /\ toWake'[c] = toWake[c]
    BY <1>5 DEF Unsignalled, SignalStages
  <2>2. Cardinality(Sleepers) <= maxWaiting[c] + toWake[c]
    BY <1>1, <2>1 DEF EnoughAwake
  <2>3. maxWaiting[c] \in Int /\ toWake[c] \in Int
    BY <1>3
  <2>4. QED
    BY <1>2, <2>1, <2>2, <2>3
<1>6. ASSUME ~SignalUnderWay' PROVE Cardinality(Sleepers') <= Spare'
  <2>1. ~SignalUnderWay
    BY <1>6 DEF SignalUnderWay, Unsignalled
  <2>2. Cardinality(Sleepers) <= Spare
    BY <1>1, <2>1 DEF EnoughAwake
  <2>3. QED
    BY <1>1, <1>2, <1>3, <2>2
<1>7. QED
  BY <1>4, <1>5, <1>6

\* Whoever is in a call that must be kept apart is alone; the others hold the mutex.
LEMMA SignallerApart ==
    ASSUME CountInv, OneSignaller, NEW c \in Callers, NEW d \in Callers, c # d,
           stage[d] \in SignalStages,
           \/ pc[c] # "idle"
           \/ AllOutside /\ Usable
    PROVE  pc[d] \in {"ensStart", "swapExecutor"} /\ executionMutex = d
<1>1. pc[d] \in {"ensStart", "swapExecutor"}
  <2>1. CASE pc[c] # "idle"
    BY <2>1 DEF OneSignaller
  <2>2. CASE AllOutside /\ Usable
    BY <2>2 DEF OneSignaller, AllOutside, Usable, SignalStages
  <2>3. QED
    BY <2>1, <2>2
<1>2. QED
  BY <1>1 DEF CountInv, MutexHeld, OwnsMutex, InJob, EnsurePCs

\* A step that begins no signal and moves no signaller.
LEMMA OneSignallerKept ==
    ASSUME OneSignaller,
           \A c \in Callers : stage'[c] \in SignalStages =>
               /\ stage[c] \in SignalStages /\ pc'[c] = pc[c]
               /\ \/ pc[c] \in {"ensStart", "swapExecutor"}
                  \/ \A d \in Callers : pc'[d] = pc[d]
    PROVE  OneSignaller'
BY DEF OneSignaller

LEMMA OneSignallerStep ==
    ASSUME FutexInv, CountInv, OneSignaller, [FutexNext]_<<vars, futexVars>>
    PROVE  OneSignaller'
<1> USE ProcsFacts, CallersAssumption
<1>1. /\ stage \in [Procs -> WaitStages \cup SignalStages \cup OtherStages]
      /\ TypeOK /\ \A c \in Callers : pc[c] # "exited"
  BY DEF FutexInv, FutexTypeOK, TypeOK, WorkerPCs
<1>2. CASE UNCHANGED <<vars, futexVars>>
  BY <1>2, OneSignallerKept DEF vars, futexVars
<1>3. ASSUME NEW w \in Workers, FutexWorkerStep(w) \/ WakeSpuriously(w) PROVE OneSignaller'
  <2>1. WorkerStep(w) \/ UNCHANGED vars
    BY <1>3 DEF FutexWorkerStep, WakeSpuriously, Announce, CheckAgain, Sleep, Retire, ReloadState,
                StoreDone, WakeDone, WakeRecruited, WorkerStep
  <2>2. \A c \in Callers : pc'[c] = pc[c]
    BY <1>1, <2>1, OthersStay DEF vars
  <2>3. \A c \in Callers : stage'[c] \in {stage[c], "none"}
    <3>1. CASE WakeDone(w) \/ WakeRecruited(w)
      BY <1>1, <3>1 DEF WakeDone, WakeRecruited
    <3>2. CASE WorkerMove(w) /\ QuietMove(w)
      BY <3>2 DEF QuietMove, futexVars
    <3>3. CASE ~(WakeDone(w) \/ WakeRecruited(w)) /\ ~(WorkerMove(w) /\ QuietMove(w))
      <4>1. \E s \in WorkerStages : SetStage(w, s)
        BY <1>3, <3>3 DEF FutexWorkerStep, WakeSpuriously, Announce, CheckAgain, Sleep, Retire,
                          ReloadState, StoreDone, WorkerStages, WaitStages
      <4>2. QED
        BY <1>1, <4>1 DEF SetStage
    <3>4. QED
      BY <3>1, <3>2, <3>3
  <2>4. QED
    BY <2>2, <2>3, OneSignallerKept DEF SignalStages
<1>4. ASSUME NEW c \in Callers, (CallerMove(c) \/ AwaitDone(c) \/ Free(c)) /\ QuietMove(c)
      PROVE  OneSignaller'
  <2>1. pc[c] # "idle" /\ stage[c] = "none" /\ stage' = stage
    BY <1>4 DEF QuietMove, futexVars, CallerMove, SharedStep, AwaitDone, Free, LockAndPrepare,
                Restore, SwapExecutor, SwapContext, EnsureStart, EnsureScan, EnsureExchange,
                EnsureRegister, EnsureSchedule, TakeItem, FinishItem, LeaveWork, WrapLoad,
                WrapFlip, WrapAdd
  <2>2. \A d \in Callers \ {c} : pc'[d] = pc[d]
    BY <1>1, <1>4, OthersStay DEF CallerAction
  <2>3. \A d \in Callers : stage[d] \in SignalStages =>
            d # c /\ pc[d] \in {"ensStart", "swapExecutor"}
    BY <2>1, SignallerApart DEF SignalStages
  <2>4. QED
    BY <2>1, <2>2, <2>3, OneSignallerKept
<1>5. ASSUME NEW c \in Callers, QuietCall(c) PROVE OneSignaller'
  <2>1. pc[c] = "idle" /\ AllOutside /\ Usable /\ stage' = stage
    BY <1>5 DEF QuietCall, futexVars, CallParallelize, SetThreadsCount, UpdateExecutor
  <2>2. stage[c] = "none"
    BY <2>1 DEF AllOutside
  <2>3. \A d \in Callers \ {c} : pc'[d] = pc[d]
    <3>1. CallerAction(c)
      BY <1>5 DEF QuietCall, CallerAction, ApplicationStep
    <3>2. QED
      BY <1>1, <3>1, OthersStay
  <2>4. \A d \in Callers : stage[d] \in SignalStages =>
            d # c /\ pc[d] \in {"ensStart", "swapExecutor"}
    BY <2>1, <2>2, SignallerApart DEF SignalStages
  <2>5. QED
    BY <2>1, <2>3, <2>4, OneSignallerKept
<1>6. ASSUME NEW c \in Callers, LoadWaiting(c) \/ WakeActive(c) PROVE OneSignaller'
  <2>1. pc' = pc /\ stage[c] \in SignalStages
    BY <1>6 DEF LoadWaiting, EndSignal, WakeActive, vars, SignalStages
  <2>2. \A d \in Callers \ {c} : stage'[d] = stage[d]
    BY <1>1, <1>6 DEF LoadWaiting, EndSignal, SetStage, WakeActive, Sleepers
  <2>3. QED
    BY <2>1, <2>2, OneSignallerKept
<1>7. ASSUME NEW c \in Callers, SleepOnDone(c) \/ SleepOnRecruited(c) \/ WakeCallerSpuriously(c)
      PROVE  OneSignaller'
  <2>1. pc' = pc /\ \E s \in {"none", "sleepOnDone", "sleepOnRecruited"} : SetStage(c, s)
    BY <1>7 DEF SleepOnDone, SleepOnRecruited, WakeCallerSpuriously, vars
  <2>2. \A d \in Callers : stage'[d] \in {stage[d], "none", "sleepOnDone", "sleepOnRecruited"}
    BY <1>1, <2>1 DEF SetStage
  <2>3. QED
    BY <2>1, <2>2, OneSignallerKept DEF SignalStages
\* The two steps that begin a signal find no other under way.
<1>8. ASSUME NEW c \in Callers, PublishAndSignal(c) PROVE OneSignaller'
  <2>1. executionMutex = c /\ pc[c] = "publish" /\ stage[c] = "none"
    BY <1>8 DEF PublishAndSignal, Publish, CountInv, MutexHeld, OwnsMutex, InJob
  <2>2. \A d \in Callers : stage[d] \notin SignalStages
    BY <2>1, SignallerApart DEF SignalStages
  <2>3. /\ \A d \in Callers \ {c} : stage'[d] = stage[d]
        /\ pc'[c] = "ensStart"
    BY <1>1, <1>8 DEF PublishAndSignal, BeginSignal, SetStage, Publish, Goto, TypeOK
  <2>4. QED
    BY <2>2, <2>3 DEF OneSignaller
<1>9. ASSUME NEW c \in Callers, SignallingCall(c) PROVE OneSignaller'
  <2>1. \A d \in Callers \ {c} : stage'[d] = stage[d]
    BY <1>1, <1>9 DEF SignallingCall, BeginSignal, SetStage
  <2>2. AllOutside /\ Usable /\ pc[c] = "idle"
    BY <1>9 DEF SignallingCall, Destroy, ReleaseExecutorThreads, UpdateExecutor
  <2>3. \A d \in Callers : stage[d] \notin SignalStages
    <3> SUFFICES ASSUME NEW d \in Callers, stage[d] \in SignalStages PROVE FALSE
      OBVIOUS
    <3>1. d # c
      BY <2>2 DEF AllOutside, SignalStages
    <3>2. pc[d] \in {"ensStart", "swapExecutor"} /\ executionMutex = d
      BY <2>2, <3>1, SignallerApart
    <3>3. QED
      BY <1>9, <3>2 DEF SignallingCall, Destroy, ReleaseExecutorThreads, UpdateExecutor
  <2>4. \/ pc'[c] = "swapExecutor"
        \/ pc'[c] \in {"idle", "awaitThreads"} /\ \A d \in Callers \ {c} : pc'[d] = "idle"
    BY <1>1, <1>9
       DEF SignallingCall, Destroy, ReleaseExecutorThreads, UpdateExecutor, Goto, TypeOK
  <2>5. QED
    BY <2>1, <2>3, <2>4 DEF OneSignaller
<1> HIDE DEF vars, futexVars, OneSignaller
<1>10. QED
  BY <1>2, <1>3, <1>4, <1>5, <1>6, <1>7, <1>8, <1>9 DEF FutexNext, FutexCallerStep, Terminated

\* Steps of the protocol that store nothing, whatever they do to a stage.
LEMMA StoreFreeStep ==
    ASSUME FutexInv, FutexInv', CountInv, CountInv', EnoughAwake, StoreFree,
           UNCHANGED <<maxWaiting, toWake>>,
           \A p \in Procs : \/ stage'[p] = stage[p]
                            \/ stage[p] \notin SignalStages /\ stage'[p] \notin SignalStages,
           Sleepers' \subseteq Sleepers
    PROVE  EnoughAwake'
<1>1. Unsignalled
  BY SpareKept, ProcsFacts DEF Unsignalled
<1>2. QED
  BY <1>1, UnsignalledKeeps

\* What the signaller sees is what may sleep, and it wakes all but the spare ones.
LEMMA WakeEnough ==
    ASSUME FutexInv, FutexInv', OneSignaller, EnoughAwake, NEW c \in Callers,
           LoadWaiting(c) \/ WakeActive(c)
    PROVE  EnoughAwake'
<1> USE ProcsFacts
<1>1. /\ maxWaiting \in [Callers -> 0 .. MaxThreads] /\ toWake \in [Callers -> 0 .. MaxThreads]
      /\ numWaiting \in Nat
      /\ threadsCount \in 0 .. MaxThreads /\ Spare \in Int
      /\ stage \in [Procs -> WaitStages \cup SignalStages \cup OtherStages]
  BY SizesAssumption DEF FutexInv, FutexTypeOK, TypeOK, Spare
<1>2. /\ stage[c] \in SignalStages
      /\ \A d \in Callers \ {c} : stage[d] \notin SignalStages
      /\ numActive' = numActive /\ Spare' = Spare
  BY DEF LoadWaiting, EndSignal, WakeActive, OneSignaller, SignalStages, vars, sharedVars, sizeVars,
         Spare
<1>3. SUFFICES ASSUME numActive > 0, Spare' = Spare
               PROVE  /\ \A d \in Callers : stage'[d] \in SignalStages => maxWaiting'[d] = Spare
                      /\ \A d \in Callers : stage'[d] = "wake" =>
                             Cardinality(Sleepers') <= maxWaiting'[d] + toWake'[d]
                      /\ ~SignalUnderWay' => Cardinality(Sleepers') <= Spare
  BY <1>2 DEF EnoughAwake
<1>4. maxWaiting[c] = Spare
  BY <1>2, <1>3 DEF EnoughAwake
<1>5. CASE LoadWaiting(c) /\ numWaiting > maxWaiting[c]
  <2>1. /\ \A p \in Procs : stage'[p] = IF p = c THEN "wake" ELSE stage[p]
        /\ toWake'[c] = numWaiting - maxWaiting[c] /\ maxWaiting' = maxWaiting
    BY <1>1, <1>5 DEF LoadWaiting, SetStage, EndSignal
  <2>2. Sleepers' = Sleepers
    BY <2>1 DEF Sleepers
  <2>3. Cardinality(Sleepers) <= numWaiting
    BY SleepersFacts DEF FutexInv, WaitersCounted
  <2>4. maxWaiting[c] \in Int
    BY <1>1
  <2>5. Cardinality(Sleepers') <= maxWaiting'[c] + toWake'[c]
    BY <1>1, <2>1, <2>2, <2>3, <2>4, SleepersFacts
  <2>6. SignalUnderWay'
    BY <2>1 DEF SignalUnderWay, SignalStages
  <2>7. QED
    BY <1>2, <1>4, <2>1, <2>5, <2>6 DEF SignalStages
<1>6. CASE LoadWaiting(c) /\ ~(numWaiting > maxWaiting[c])
  <2>1. \A p \in Procs : stage'[p] = IF p = c THEN "none" ELSE stage[p]
    BY <1>1, <1>6 DEF LoadWaiting, SetStage, EndSignal
  <2>2. Sleepers' = Sleepers
    BY <2>1 DEF Sleepers
  <2>3. Cardinality(Sleepers) <= Spare
    BY <1>1, <1>4, <1>6, SleepersFacts DEF FutexInv, WaitersCounted
  <2>4. QED
    BY <1>2, <2>1, <2>2, <2>3 DEF SignalStages
<1>7. CASE WakeActive(c)
  <2>1. PICK woken \in SUBSET Sleepers :
            /\ Cardinality(woken) = Smaller(toWake[c], Cardinality(Sleepers))
            /\ stage' = [p \in Procs |-> IF p \in woken THEN "retire"
                                         ELSE IF p = c THEN "none" ELSE stage[p]]
    BY <1>7 DEF WakeActive
  <2>2. \A d \in Callers : stage'[d] \notin SignalStages
    BY <1>2, <2>1 DEF Sleepers, SignalStages
  <2>3. Sleepers' = Sleepers \ woken
    BY <2>1 DEF Sleepers
  <2>4. Sleepers \cap woken = woken
    BY <2>1
  <2>5. Cardinality(Sleepers') = Cardinality(Sleepers) - Cardinality(woken)
    BY <2>3, <2>4, SleepersFacts, FS_Difference
  <2>6. stage[c] = "wake"
    BY <1>7 DEF WakeActive
  <2>7. Cardinality(Sleepers) <= maxWaiting[c] + toWake[c]
    BY <1>3, <2>6 DEF EnoughAwake
  <2>8. toWake[c] \in Nat /\ maxWaiting[c] \in Nat
    BY <1>1
  <2>9. Cardinality(Sleepers') <= Spare
    BY <1>4, <2>1, <2>5, <2>7, <2>8, SleepersFacts DEF Smaller
  <2>10. QED
    BY <2>2, <2>9 DEF SignalStages
<1>8. QED
  BY <1>5, <1>6, <1>7

\* The stores say how many threads they have no use for.
LEMMA StoreAnnounced ==
    ASSUME FutexInv, CountInv, OneSignaller, OneSignaller', NEW c \in Callers,
           PublishAndSignal(c) \/ SignallingCall(c)
    PROVE  EnoughAwake'
<1> USE ProcsFacts
<1>1. /\ maxWaiting \in [Callers -> 0 .. MaxThreads]
      /\ stage \in [Procs -> WaitStages \cup SignalStages \cup OtherStages]
  BY DEF FutexInv, FutexTypeOK
<1>2. \A p \in Procs : stage'[p] = IF p = c THEN "load" ELSE stage[p]
  BY <1>1 DEF PublishAndSignal, SignallingCall, BeginSignal, SetStage
<1>3. maxWaiting'[c] = Spare'
  <2>1. CASE PublishAndSignal(c)
    BY <1>1, <2>1, DoneFacts
       DEF PublishAndSignal, Publish, BeginSignal, MayWait, Spare, sharedVars, sizeVars
  <2>2. CASE SignallingCall(c)
    <3>1. numActive' = DONE
      BY <2>2 DEF SignallingCall, Destroy, ReleaseExecutorThreads, UpdateExecutor
    <3>2. maxWaiting'[c] = 0
      BY <1>1, <2>2 DEF SignallingCall, BeginSignal
    <3>3. QED
      BY <3>1, <3>2 DEF Spare
  <2>3. QED
    BY <2>1, <2>2
<1>4. \A d \in Callers : stage'[d] \in SignalStages => d = c
  BY <1>2 DEF OneSignaller, SignalStages
<1>5. SignalUnderWay' /\ stage'[c] # "wake"
  BY <1>2 DEF SignalUnderWay, SignalStages
<1>6. QED
  BY <1>3, <1>4, <1>5 DEF EnoughAwake, SignalStages

LEMMA EnoughAwakeStep ==
    ASSUME FutexInv, FutexInv', CountInv, CountInv', AwakeInv, OneSignaller',
           [FutexNext]_<<vars, futexVars>>
    PROVE  EnoughAwake'
<1> USE ProcsFacts
<1>1. /\ stage \in [Procs -> WaitStages \cup SignalStages \cup OtherStages]
      /\ \A w \in Workers : stage[w] \notin SignalStages
      /\ OneSignaller /\ EnoughAwake
  BY DEF FutexInv, FutexTypeOK, StagesFit, WorkerStages, WaitStages, SignalStages, AwakeInv
<1>2. CASE UNCHANGED <<vars, futexVars>>
  BY <1>1, <1>2, StoreFreeStep DEF futexVars, Sleepers, StoreFree
<1>3. ASSUME NEW w \in Workers, FutexWorkerStep(w) \/ WakeSpuriously(w), ~Sleep(w)
      PROVE  EnoughAwake'
  <2>1. WorkerStep(w) \/ UNCHANGED vars
    BY <1>3 DEF FutexWorkerStep, WakeSpuriously, Announce, CheckAgain, Sleep, Retire, ReloadState,
                StoreDone, WakeDone, WakeRecruited, WorkerStep
  <2>2. UNCHANGED <<maxWaiting, toWake>>
    BY <1>3 DEF FutexWorkerStep, WakeSpuriously, Announce, CheckAgain, Sleep, Retire, ReloadState,
                StoreDone, WakeDone, WakeRecruited, QuietMove, futexVars
  <2>3. /\ \A p \in Procs : \/ stage'[p] = stage[p]
                            \/ stage[p] \notin SignalStages /\ stage'[p] \notin SignalStages
        /\ Sleepers' \subseteq Sleepers
    <3>1. CASE WakeDone(w) \/ WakeRecruited(w)
      <4>1. \A p \in Procs : \/ stage'[p] = stage[p]
                             \/ stage[p] \notin SignalStages /\ stage'[p] = "none"
        BY <1>1, <3>1 DEF WakeDone, WakeRecruited, SleepingOn, SignalStages
      <4>2. QED
        BY <4>1 DEF Sleepers, SignalStages
    <3>2. CASE WorkerMove(w) /\ QuietMove(w)
      BY <3>2 DEF QuietMove, futexVars, Sleepers
    <3>3. CASE ~(WakeDone(w) \/ WakeRecruited(w)) /\ ~(WorkerMove(w) /\ QuietMove(w))
      <4>1. \E s \in WorkerStages \ {"asleep"} : SetStage(w, s)
        BY <1>3, <3>3 DEF FutexWorkerStep, WakeSpuriously, Announce, CheckAgain, Sleep, Retire,
                          ReloadState, StoreDone, WorkerStages, WaitStages
      <4>2. QED
        BY <1>1, <4>1 DEF SetStage, Sleepers, WorkerStages, WaitStages, SignalStages
    <3>4. QED
      BY <3>1, <3>2, <3>3
  <2>4. QED
    BY <1>1, <2>1, <2>2, <2>3, StoreFreeStep DEF StoreFree
\* The kernel queues a thread only while there is nothing to wake it for.
<1>4. ASSUME NEW w \in Workers, Sleep(w) PROVE EnoughAwake'
  <2>1. /\ stage[w] = "sleep" /\ UNCHANGED <<vars, maxWaiting, toWake>>
        /\ SetStage(w, IF StillExpected(w) THEN "asleep" ELSE "retire")
    BY <1>4 DEF Sleep
  <2>2. CASE StillExpected(w)
    <3>1. numActive' = numActive /\ numActive <= 0 /\ numActive \in Int
      BY <2>1, <2>2
         DEF StillExpected, FutexInv, FutexTypeOK, TypeOK, WaitersWait, WaitStages, vars
    <3>2. QED
      BY <3>1 DEF EnoughAwake
  <2>3. CASE ~StillExpected(w)
    <3>1. \A p \in Procs : stage'[p] = IF p = w THEN "retire" ELSE stage[p]
      BY <1>1, <2>1, <2>3 DEF SetStage
    <3>2. QED
      BY <1>1, <2>1, <3>1, StoreFreeStep DEF StoreFree, SignalStages, Sleepers
  <2>4. QED
    BY <2>2, <2>3
<1>5. ASSUME NEW c \in Callers, (CallerMove(c) \/ AwaitDone(c) \/ Free(c)) /\ QuietMove(c)
      PROVE  EnoughAwake'
  BY <1>1, <1>5, StoreFreeStep DEF QuietMove, futexVars, Sleepers, StoreFree
<1>6. ASSUME NEW c \in Callers, QuietCall(c) PROVE EnoughAwake'
  <2>1. UNCHANGED futexVars /\ Sleepers' = Sleepers
    BY <1>6 DEF QuietCall, futexVars, Sleepers
  <2>2. CASE \E e \in Executors : UpdateExecutor(c, e) /\ executor = NoExecutor
    <3>1. numActive' = numActive /\ threadsCount' = threadsCount
      BY <2>2 DEF UpdateExecutor
    <3>2. Spare' = Spare
      BY <3>1 DEF Spare
    <3>3. Unsignalled
      BY <2>1, <3>1, <3>2 DEF Unsignalled, futexVars
    <3>4. QED
      BY <1>1, <3>3, UnsignalledKeeps
  <2>3. CASE StoreFree
    BY <1>1, <2>1, <2>3, StoreFreeStep DEF futexVars
  <2>4. QED
    BY <1>6, <2>2, <2>3 DEF QuietCall, StoreFree
<1>7. ASSUME NEW c \in Callers, SleepOnDone(c) \/ SleepOnRecruited(c) \/ WakeCallerSpuriously(c)
      PROVE  EnoughAwake'
  <2>1. /\ UNCHANGED <<vars, maxWaiting, toWake>> /\ stage[c] \notin SignalStages
        /\ \E s \in {"none", "sleepOnDone", "sleepOnRecruited"} : SetStage(c, s)
    BY <1>7 DEF SleepOnDone, SleepOnRecruited, WakeCallerSpuriously, SignalStages
  <2>2. \A p \in Procs : \/ stage'[p] = stage[p]
                         \/ /\ p = c
                            /\ stage'[p] \in {"none", "sleepOnDone", "sleepOnRecruited"}
    BY <1>1, <2>1 DEF SetStage
  <2>3. QED
    BY <1>1, <2>1, <2>2, StoreFreeStep DEF StoreFree, SignalStages, Sleepers
<1> HIDE DEF vars, futexVars, EnoughAwake
<1>8. QED
  BY <1>1, <1>2, <1>3, <1>4, <1>5, <1>6, <1>7, WakeEnough, StoreAnnounced
     DEF FutexNext, FutexCallerStep, Terminated

\* "Wake up any thread waiting on a change of state", but no more of them than
\* the job has use for: no signal leaves asleep a thread that is needed.
THEOREM NobodyNeededSleeps == FutexSpec => []NobodyOversleeps
<1>1. FutexInit => AwakeInv
  BY ProcsFacts, SizesAssumption
     DEF FutexInit, Init, AwakeInv, OneSignaller, EnoughAwake, SignalStages
<1>2. FutexInv /\ FutexInv' /\ CountInv /\ CountInv' /\ AwakeInv /\ [FutexNext]_<<vars, futexVars>>
      => AwakeInv'
  BY OneSignallerStep, EnoughAwakeStep DEF AwakeInv
<1>3. FutexInv /\ AwakeInv => NobodyOversleeps
  <2> SUFFICES ASSUME FutexInv, AwakeInv, ~SignalUnderWay
               PROVE  /\ Running(numActive) => Cardinality(Sleepers) <= MaxThreads - threadsCount
                      /\ numActive = DONE => Sleepers = {}
    BY DEF NobodyOversleeps
  <2>1. ASSUME Running(numActive) PROVE Cardinality(Sleepers) <= MaxThreads - threadsCount
    BY <2>1 DEF Running, AwakeInv, EnoughAwake, Spare
  <2>2. ASSUME numActive = DONE PROVE Sleepers = {}
    <3>1. Cardinality(Sleepers) <= 0
      BY <2>2, DoneFacts DEF AwakeInv, EnoughAwake, Spare
    <3>2. QED
      BY <3>1, SleepersFacts, FS_EmptySet
  <2>3. QED
    BY <2>1, <2>2
<1>4. QED
  BY <1>1, <1>2, <1>3, FutexInvariant, PTL DEF FutexSpec

-----------------------------------------------------------------------------
(* No caller sleeps on a word that has reached its value unannounced.      *)

\* A step that raises nothing unannounced, and takes no announcement back.
Unraised ==
    /\ \A c \in Callers : stage'[c] \in {"sleepOnDone", "sleepOnRecruited"} => stage'[c] = stage[c]
    /\ workIsDone' = 1 => workIsDone = 1 \/ \E w \in Workers : stage'[w] = "wakeDone"
    /\ numRecruited' = 0 => numRecruited = 0 \/ \E w \in Workers : pc'[w] = "signalRecruited"
    /\ \A w \in Workers : /\ stage[w] = "wakeDone" => stage'[w] = "wakeDone"
                          /\ pc[w] = "signalRecruited" => pc'[w] = "signalRecruited"

LEMMA UnraisedKeeps == CallersAreWoken /\ Unraised => CallersAreWoken'
<1> SUFFICES ASSUME CallersAreWoken, Unraised, NEW c \in Callers
             PROVE  /\ stage'[c] = "sleepOnDone" /\ workIsDone' = 1 =>
                           \E w \in Workers : stage'[w] = "wakeDone"
                    /\ stage'[c] = "sleepOnRecruited" /\ numRecruited' = 0 =>
                           \E w \in Workers : pc'[w] = "signalRecruited"
  BY DEF CallersAreWoken
<1>1. ASSUME stage'[c] = "sleepOnDone", workIsDone' = 1
      PROVE  \E w \in Workers : stage'[w] = "wakeDone"
  BY <1>1 DEF CallersAreWoken, Unraised
<1>2. ASSUME stage'[c] = "sleepOnRecruited", numRecruited' = 0
      PROVE  \E w \in Workers : pc'[w] = "signalRecruited"
  BY <1>2 DEF CallersAreWoken, Unraised
<1>3. QED
  BY <1>1, <1>2

LEMMA WokenStep ==
    ASSUME FutexInv, LifeInv, CallersAreWoken, [FutexNext]_<<vars, futexVars>>
    PROVE  CallersAreWoken'
<1> USE ProcsFacts
<1>1. /\ stage \in [Procs -> WaitStages \cup SignalStages \cup OtherStages]
      /\ TypeOK /\ RecruitedCount
      /\ \A w \in Workers : stage[w] \notin {"sleepOnDone", "sleepOnRecruited"}
      /\ \A c \in Callers : pc[c] # "signalRecruited"
  BY DEF FutexInv, FutexTypeOK, StagesFit, WorkerStages, WaitStages, LifeInv, TypeOK, WorkerPCs
<1>2. CASE UNCHANGED <<vars, futexVars>>
  BY <1>2 DEF CallersAreWoken, vars, futexVars, sharedVars, jobVars, execVars
\* A worker that is neither raising the flag nor announcing anything.
<1>3. ASSUME NEW w \in Workers, WorkerMove(w) \/ Wait(w) \/ UNCHANGED vars,
             \/ UNCHANGED stage
             \/ stage[w] # "wakeDone" /\ \E s \in WaitStages \cup {"none"} : SetStage(w, s)
      PROVE  CallersAreWoken'
  <2>1. /\ workIsDone' = workIsDone
        /\ numRecruited' = 0 => numRecruited = 0 \/ pc'[w] = "signalRecruited"
        /\ \A v \in Workers : pc[v] = "signalRecruited" => pc'[v] = "signalRecruited"
    BY <1>1, <1>3, StepOfWorker DEF vars, sharedVars, jobVars, execVars
  <2>2. /\ \A c \in Callers : stage'[c] = stage[c]
        /\ \A v \in Workers : stage[v] = "wakeDone" => stage'[v] = "wakeDone"
    BY <1>1, <1>3 DEF SetStage
  <2>3. QED
    BY <2>1, <2>2, UnraisedKeeps DEF Unraised
<1>4. ASSUME NEW w \in Workers, StoreDone(w) PROVE CallersAreWoken'
  <2>1. /\ \A p \in Procs : stage'[p] = IF p = w THEN "wakeDone" ELSE stage[p]
        /\ pc[w] = "signalDone" /\ \A v \in Workers \ {w} : pc'[v] = pc[v]
        /\ numRecruited' = numRecruited
    BY <1>1, <1>4 DEF StoreDone, SetStage, SignalDone, Goto, TypeOK, execVars
  <2>2. \A c \in Callers : stage'[c] = stage[c]
    BY <2>1
  <2>3. QED
    BY <2>1, <2>2, UnraisedKeeps DEF Unraised
<1>5. ASSUME NEW w \in Workers, WakeDone(w) PROVE CallersAreWoken'
  <2>1. /\ \A c \in Callers : stage'[c] = IF stage[c] = "sleepOnDone" THEN "none" ELSE stage[c]
        /\ UNCHANGED <<pc, numRecruited>>
    BY <1>1, <1>5 DEF WakeDone, SleepingOn, vars, sharedVars, execVars
  <2>2. QED
    BY <2>1 DEF CallersAreWoken
<1>6. ASSUME NEW w \in Workers, WakeRecruited(w) PROVE CallersAreWoken'
  <2>1. /\ \A c \in Callers :
               stage'[c] = IF stage[c] = "sleepOnRecruited" THEN "none" ELSE stage[c]
        /\ \A v \in Workers : stage'[v] = stage[v]
        /\ workIsDone' = workIsDone
    BY <1>1, <1>6 DEF WakeRecruited, SleepingOn, SignalRecruited, sharedVars, jobVars
  <2>2. QED
    BY <2>1 DEF CallersAreWoken
\* A caller's step of the protocol, whatever signal it begins.
<1>7. ASSUME NEW c \in Callers, CallerAction(c), UNCHANGED stage \/ SetStage(c, "load")
      PROVE  CallersAreWoken'
  <2>1. /\ \A d \in Callers : stage'[d] \in {stage[d], "load"}
        /\ \A w \in Workers : stage'[w] = stage[w]
    BY <1>1, <1>7 DEF SetStage
  <2>2. QED
    BY <1>1, <1>7, <2>1, StepOfCaller, UnraisedKeeps DEF Unraised
<1>8. ASSUME NEW c \in Callers, LoadWaiting(c) \/ WakeActive(c) \/ WakeCallerSpuriously(c)
      PROVE  CallersAreWoken'
  <2>1. UNCHANGED <<pc, workIsDone, numRecruited>>
    BY <1>8 DEF LoadWaiting, EndSignal, WakeActive, WakeCallerSpuriously, vars, sharedVars,
                jobVars, execVars
  <2>2. /\ \A d \in Callers : stage'[d] \in {stage[d], "wake", "none"}
        /\ \A w \in Workers : stage[w] = "wakeDone" => stage'[w] = "wakeDone"
    <3>1. CASE WakeActive(c)
      BY <1>1, <3>1 DEF WakeActive, Sleepers
    <3>2. CASE LoadWaiting(c) \/ WakeCallerSpuriously(c)
      <4>1. \E s \in {"wake", "none"} : SetStage(c, s)
        BY <3>2 DEF LoadWaiting, EndSignal, WakeCallerSpuriously
      <4>2. QED
        BY <1>1, <4>1 DEF SetStage
    <3>3. QED
      BY <1>8, <3>1, <3>2
  <2>3. QED
    BY <2>1, <2>2, UnraisedKeeps DEF Unraised
\* The look and the sleep are one step of the kernel.
<1>9. ASSUME NEW c \in Callers, SleepOnDone(c) PROVE CallersAreWoken'
  <2>1. /\ \A p \in Procs : stage'[p] = IF p = c THEN "sleepOnDone" ELSE stage[p]
        /\ workIsDone = 0 /\ UNCHANGED <<pc, workIsDone, numRecruited>>
    BY <1>1, <1>9 DEF SleepOnDone, SetStage, vars, sharedVars, jobVars, execVars
  <2>2. QED
    BY <2>1 DEF CallersAreWoken
<1>10. ASSUME NEW c \in Callers, SleepOnRecruited(c) PROVE CallersAreWoken'
  <2>1. /\ \A p \in Procs : stage'[p] = IF p = c THEN "sleepOnRecruited" ELSE stage[p]
        /\ numRecruited # 0 /\ UNCHANGED <<pc, workIsDone, numRecruited>>
    BY <1>1, <1>10 DEF SleepOnRecruited, SetStage, vars, sharedVars, jobVars, execVars
  <2>2. QED
    BY <2>1 DEF CallersAreWoken
<1>11. ASSUME NEW w \in Workers, FutexWorkerStep(w) \/ WakeSpuriously(w) PROVE CallersAreWoken'
  <2>1. CASE WorkerMove(w) /\ QuietMove(w)
    BY <1>3, <2>1 DEF QuietMove, futexVars
  <2>2. CASE Announce(w) \/ CheckAgain(w) \/ Sleep(w) \/ Retire(w) \/ ReloadState(w)
             \/ WakeSpuriously(w)
    BY <1>3, <2>2 DEF Announce, CheckAgain, Sleep, Retire, ReloadState, WakeSpuriously, WaitStages
  <2>3. QED
    BY <1>4, <1>5, <1>6, <1>11, <2>1, <2>2 DEF FutexWorkerStep
<1>12. ASSUME NEW c \in Callers, FutexCallerStep(c) PROVE CallersAreWoken'
  <2>1. CASE (CallerMove(c) \/ AwaitDone(c) \/ Free(c)) /\ QuietMove(c)
    BY <1>7, <2>1 DEF QuietMove, futexVars, CallerAction
  <2>2. CASE PublishAndSignal(c)
    BY <1>7, <2>2 DEF PublishAndSignal, BeginSignal, CallerAction
  <2>3. QED
    BY <1>8, <1>9, <1>10, <1>12, <2>1, <2>2 DEF FutexCallerStep
<1>13. ASSUME NEW c \in Callers, QuietCall(c) \/ SignallingCall(c) PROVE CallersAreWoken'
  BY <1>7, <1>13 DEF QuietCall, SignallingCall, BeginSignal, futexVars, CallerAction,
                     ApplicationStep
<1> HIDE DEF vars, futexVars, CallersAreWoken
<1>14. QED
  BY <1>2, <1>8, <1>11, <1>12, <1>13 DEF FutexNext, Terminated

\* A caller of pthreadpool_parallelize or pthreadpool_destroy that sleeps on a
\* word which has reached its value will be woken.
THEOREM NoCallerSleepsOn == FutexSpec => []CallersAreWoken
<1>1. FutexInit => CallersAreWoken
  BY ProcsFacts DEF FutexInit, CallersAreWoken
<1>2. FutexInv /\ LifeInv /\ CallersAreWoken /\ [FutexNext]_<<vars, futexVars>>
      => CallersAreWoken'
  BY WokenStep
<1>3. QED
  BY <1>1, <1>2, FutexInvariant, PTL DEF FutexSpec
==============================================================================
