----------------------------- MODULE WorkStealing -----------------------------
(***************************************************************************)
(* How the threads of a job claim its items: pthreadpool_parallelize deals *)
(* the linear range out to the thread_info structs, and every thread runs  *)
(* a thread_parallelize_* function that takes items from the front of its  *)
(* own range and, when that is used up, from the back of the others'.  A   *)
(* claim lowers range_length first; a thief then lowers range_end in a     *)
(* second step, the owner advances its local copy of range_start.          *)
(*                                                                         *)
(* All of portable-api.c's functions share this protocol and differ in     *)
(* what they do with the index; thread_parallelize_1d is the one modelled. *)
(* A thread may begin at any time, or never: ThreadPool admits at most     *)
(* threads_count threads to a job, each under an id of its own.            *)
(***************************************************************************)
EXTENDS Integers, FiniteSets

CONSTANTS
    MaxThreads,  \* the most threads a job is dealt out to
    Ranges,      \* the values of linear_range
    NoItem       \* the thread is not processing an item

ASSUME ThreadsAssumption == MaxThreads \in Nat \ {0}
ASSUME RangesAssumption  == Ranges \subseteq Nat /\ NoItem \notin Nat

Threads == 0 .. (MaxThreads - 1)

VARIABLES
    threadsCount,  \* threads_count of this job
    linearRange,   \* linear_range of this job
    rangeEnd,      \* range_end of every thread_info
    rangeLength,   \* range_length of every thread_info
    next,          \* each thread's local range_start
    pc,            \* where each thread is
    offset,        \* tid of the loop over the other threads
    item,          \* the item a thread is processing
    done           \* the items that have been processed

vars == <<threadsCount, linearRange, rangeEnd, rangeLength, next, pc, offset, item, done>>

Items == 0 .. (linearRange - 1)

\* The ranges as dealt out: the first remainder threads get one item more.
\* Threads beyond the job's number get the empty sentinel at the end.
Quotient == linearRange \div threadsCount
NoRemainderMutant == 0  \* of Remainder: the remainder is dealt to nobody
Remainder == linearRange % threadsCount
Smaller(a, b) == IF a < b THEN a ELSE b
StartOf(t) == IF t < threadsCount THEN t * Quotient + Smaller(t, Remainder)
                                  ELSE linearRange
LengthOf(t) == IF t >= threadsCount THEN 0
               ELSE IF t < Remainder THEN Quotient + 1 ELSE Quotient

TypeOK ==
    /\ threadsCount \in 1 .. MaxThreads
    /\ linearRange \in Ranges
    /\ rangeEnd \in [Threads -> Int]
    /\ rangeLength \in [Threads -> Nat]
    /\ next \in [Threads -> Nat]
    /\ pc \in [Threads -> {"out", "own", "ownItem", "scan", "index", "stealItem", "gone"}]
    /\ offset \in [Threads -> Nat]
    /\ item \in [Threads -> Int \cup {NoItem}]
    /\ done \subseteq Int

Init ==
    /\ threadsCount \in 1 .. MaxThreads
    /\ linearRange \in Ranges
    /\ rangeEnd = [t \in Threads |-> StartOf(t) + LengthOf(t)]
    /\ rangeLength = [t \in Threads |-> LengthOf(t)]
    /\ next = [t \in Threads |-> StartOf(t)]
    /\ pc = [t \in Threads |-> "out"]
    /\ offset = [t \in Threads |-> 0]
    /\ item = [t \in Threads |-> NoItem]
    /\ done = {}

Goto(t, label) == pc' = [pc EXCEPT ![t] = label]
jobVars == <<threadsCount, linearRange>>

-----------------------------------------------------------------------------

Join(t) ==
    /\ pc[t] = "out"
    /\ t < threadsCount
    /\ Goto(t, "own")
    /\ UNCHANGED <<jobVars, rangeEnd, rangeLength, next, offset, item, done>>

NeverEmptyMutant(t) == TRUE  \* of Available: range_length is lowered unseen
Available(t) == rangeLength[t] > 0

\* pthreadpool_try_decrement on the thread's own range: task(range_start++).
OwnTake(t) ==
    /\ pc[t] = "own"
    /\ Available(t)
    /\ rangeLength' = [rangeLength EXCEPT ![t] = @ - 1]
    /\ item' = [item EXCEPT ![t] = next[t]]
    /\ next' = [next EXCEPT ![t] = @ + 1]
    /\ Goto(t, "ownItem")
    /\ UNCHANGED <<jobVars, rangeEnd, offset, done>>

OwnEmpty(t) ==
    /\ pc[t] = "own"
    /\ rangeLength[t] = 0
    /\ offset' = [offset EXCEPT ![t] = 1]
    /\ Goto(t, "scan")
    /\ UNCHANGED <<jobVars, rangeEnd, rangeLength, next, item, done>>

\* The thread_info a thread steals from.
Victim(t) == (t + offset[t]) % threadsCount

Scanning(t) == pc[t] = "scan" /\ offset[t] < threadsCount

\* The first half of a theft: an item of the victim's range is reserved ...
StealTake(t) ==
    /\ Scanning(t)
    /\ Available(Victim(t))
    /\ rangeLength' = [rangeLength EXCEPT ![Victim(t)] = @ - 1]
    /\ Goto(t, "index")
    /\ UNCHANGED <<jobVars, rangeEnd, next, offset, item, done>>

FetchSubMutant(n) == n  \* of StolenItem: the value before the decrement
StolenItem(n) == n - 1

\* ... the second half: the item is the one below the lowered range_end.
StealIndex(t) ==
    /\ pc[t] = "index"
    /\ rangeEnd' = [rangeEnd EXCEPT ![Victim(t)] = @ - 1]
    /\ item' = [item EXCEPT ![t] = StolenItem(rangeEnd[Victim(t)])]
    /\ Goto(t, "stealItem")
    /\ UNCHANGED <<jobVars, rangeLength, next, offset, done>>

GiveUpMutant(t) == threadsCount  \* of NextOffset: one empty range is enough
StayMutant(t) == offset[t]       \* of NextOffset: stays at the empty range
NextOffset(t) == offset[t] + 1

StealEmpty(t) ==
    /\ Scanning(t)
    /\ rangeLength[Victim(t)] = 0
    /\ offset' = [offset EXCEPT ![t] = NextOffset(t)]
    /\ UNCHANGED <<jobVars, rangeEnd, rangeLength, next, pc, item, done>>

\* The task returns.
Finish(t) ==
    /\ pc[t] \in {"ownItem", "stealItem"}
    /\ done' = done \cup {item[t]}
    /\ item' = [item EXCEPT ![t] = NoItem]
    /\ Goto(t, IF pc[t] = "ownItem" THEN "own" ELSE "scan")
    /\ UNCHANGED <<jobVars, rangeEnd, rangeLength, next, offset>>

Leave(t) ==
    /\ pc[t] = "scan"
    /\ offset[t] >= threadsCount
    /\ Goto(t, "gone")
    /\ UNCHANGED <<jobVars, rangeEnd, rangeLength, next, offset, item, done>>

\* The claims, which the fast path makes differently, and the other steps.
Claim(t) == OwnTake(t) \/ OwnEmpty(t) \/ StealTake(t) \/ StealEmpty(t)
Go(t)    == StealIndex(t) \/ Finish(t) \/ Leave(t)

\* The job is over when every thread that took part has left, the caller with it.
Over == pc[0] = "gone" /\ \A t \in Threads : pc[t] \in {"out", "gone"}

Terminated == Over /\ UNCHANGED vars

Next ==
    \/ \E t \in Threads : Join(t) \/ Claim(t) \/ Go(t)
    \/ Terminated

Spec == Init /\ [][Next]_vars

\* The caller takes part in its own job; a thread that has joined keeps going.
\* No other thread is obliged to come.
FairSpec ==
    /\ Spec
    /\ WF_vars(Join(0))
    /\ \A t \in Threads : WF_vars(Claim(t) \/ Go(t))

-----------------------------------------------------------------------------
(* What must hold.                                                         *)

\* The thieves that have reserved an item of t's range and not yet learned
\* which: the distance between range_length and what is left of the range.
Pending(t) == {u \in Threads : pc[u] = "index" /\ Victim(u) = t}

\* threadpool-object.h: "Due to race conditions range_length <= range_end -
\* range_start", range_start being the owner's running copy.  The difference
\* is what thieves have reserved, so the two ends of a range never cross.
RangeAccounting ==
    \A t \in Threads :
        rangeEnd[t] - next[t] = rangeLength[t] + Cardinality(Pending(t))

\* "The specified function will be called once for each item": an item that is
\* being processed is one of the job's, is processed by nobody else and has
\* not been processed before.
ItemsOnce ==
    \A t \in Threads : item[t] # NoItem =>
        /\ item[t] \in Items \ done
        /\ \A u \in Threads \ {t} : item[u] # item[t]

\* "When the function returns, all items have been processed", including those
\* dealt out to threads that never came.
NothingLost == Over => done = Items

\* Seen from outside the ranges are one loop over the items.
Loop == INSTANCE ParallelFor WITH
    Items    <- UNION {0 .. (n - 1) : n \in Ranges},
    open     <- {i \in Items : i \notin done /\ \A t \in Threads : item[t] # i},
    reserved <- {t \in Threads : pc[t] = "index"},
    doing    <- item,
    gone     <- {t \in Threads : pc[t] = "gone"}

ImplementsLoop == Loop!LoopSpec

\* The job ends, whoever else comes.
JobEnds == <>(pc[0] = "gone")
==============================================================================
