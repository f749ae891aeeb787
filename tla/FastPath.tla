------------------------------- MODULE FastPath -------------------------------
(***************************************************************************)
(* The claims of src/src/fastpath.c, the thread functions used on x86.     *)
(* Instead of a compare-and-swap that stops at zero a thread subtracts one *)
(* from range_length unconditionally, and takes the item when the result,  *)
(* an unsigned size_t, is below range_threshold = -max_num_threads.  Every *)
(* thread overshoots each range at most once, so the wrapped values stay   *)
(* above the threshold.                                                    *)
(***************************************************************************)
EXTENDS WorkStealing

CONSTANT SizeModulus  \* size_t is unsigned modulo this (2^64 or 2^32 in the code)

ASSUME SizeAssumption ==
    /\ SizeModulus \in Nat
    /\ SizeModulus > MaxThreads
    /\ \A n \in Ranges : n < SizeModulus

\* range_threshold
Threshold == SizeModulus - MaxThreads

VARIABLE fast  \* the job runs the fast path

\* A wrapper such as pthreadpool_parallelize_1d takes the fast path, where the
\* build has it, for ranges below the threshold.  (It compares with threads_count
\* as it then reads it; ranges between that bound and Threshold are left out.)
FastInit ==
    /\ Init
    /\ fast \in BOOLEAN
    /\ fast => linearRange < Threshold

\* pthreadpool_decrement_fetch_relaxed_size_t
Lowered(n) == (n - 1) % SizeModulus

FastOwnTake(t) ==
    /\ pc[t] = "own"
    /\ Lowered(rangeLength[t]) < Threshold
    /\ rangeLength' = [rangeLength EXCEPT ![t] = Lowered(@)]
    /\ item' = [item EXCEPT ![t] = next[t]]
    /\ next' = [next EXCEPT ![t] = @ + 1]
    /\ Goto(t, "ownItem")
    /\ UNCHANGED <<jobVars, rangeEnd, offset, done>>

\* The range was empty: the subtraction has happened all the same.
FastOwnEmpty(t) ==
    /\ pc[t] = "own"
    /\ Lowered(rangeLength[t]) >= Threshold
    /\ rangeLength' = [rangeLength EXCEPT ![t] = Lowered(@)]
    /\ offset' = [offset EXCEPT ![t] = 1]
    /\ Goto(t, "scan")
    /\ UNCHANGED <<jobVars, rangeEnd, next, item, done>>

FastStealTake(t) ==
    /\ Scanning(t)
    /\ Lowered(rangeLength[Victim(t)]) < Threshold
    /\ rangeLength' = [rangeLength EXCEPT ![Victim(t)] = Lowered(@)]
    /\ Goto(t, "index")
    /\ UNCHANGED <<jobVars, rangeEnd, next, offset, item, done>>

RetryMutant(t) == offset[t]  \* of FastNextOffset: tries the empty range again
FastNextOffset(t) == offset[t] + 1

FastStealEmpty(t) ==
    /\ Scanning(t)
    /\ Lowered(rangeLength[Victim(t)]) >= Threshold
    /\ rangeLength' = [rangeLength EXCEPT ![Victim(t)] = Lowered(@)]
    /\ offset' = [offset EXCEPT ![t] = FastNextOffset(t)]
    /\ UNCHANGED <<jobVars, rangeEnd, next, pc, item, done>>

FastClaim(t) ==
    FastOwnTake(t) \/ FastOwnEmpty(t) \/ FastStealTake(t) \/ FastStealEmpty(t)

PathClaim(t) == IF fast THEN FastClaim(t) ELSE Claim(t)

FastNext ==
    /\ \/ \E t \in Threads : Join(t) \/ PathClaim(t) \/ Go(t)
       \/ Terminated
    /\ UNCHANGED fast

FastSpec == FastInit /\ [][FastNext]_<<vars, fast>>

FastFairSpec ==
    /\ FastSpec
    /\ WF_<<vars, fast>>(Join(0) /\ UNCHANGED fast)
    /\ \A t \in Threads : WF_<<vars, fast>>((PathClaim(t) \/ Go(t)) /\ UNCHANGED fast)

-----------------------------------------------------------------------------
(* What must hold.                                                         *)

\* The number a wrapped range_length stands for.
Signed(n) == IF fast /\ n >= Threshold THEN n - SizeModulus ELSE n

\* The accounting of WorkStealing holds of the part of range_length above zero,
\* and on the fast path what is below zero counts the threads that have found
\* the range empty: never so many that the value wraps below the threshold.
FastAccounting ==
    \A t \in Threads :
        /\ rangeEnd[t] - next[t] =
              Cardinality(Pending(t)) + (IF Signed(rangeLength[t]) > 0 THEN rangeLength[t] ELSE 0)
        /\ Signed(rangeLength[t]) >= -threadsCount
==============================================================================
