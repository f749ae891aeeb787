------------------------------ MODULE FastProofs ------------------------------
(***************************************************************************)
(* The fast path claims items as the slow path does: with what is left of  *)
(* every range in place of range_length, each of its steps is a step of    *)
(* WorkStealing, for every number of threads, every range and every size_t *)
(* that is wide enough.  What is proved of WorkStealing then holds of it.  *)
(***************************************************************************)
EXTENDS FastPath, StealingProofs

\* What is left of the range of t, as range_length tells it.
LeftLength == [t \in Threads |-> IF Signed(rangeLength[t]) > 0 THEN rangeLength[t] ELSE 0]

\* The slow path, on the lengths that are left.
Slow == INSTANCE StealingProofs WITH rangeLength <- LeftLength

-----------------------------------------------------------------------------
(* range_length never wraps below the threshold: a thread overshoots a     *)
(* range at most once, on its way past it.                                 *)

PassingPCs == {"scan", "index", "stealItem", "gone"}

\* The threads that have found the range of v empty.
Passed(v) ==
    {t \in 0 .. (threadsCount - 1) :
        pc[t] \in PassingPCs /\ \E k \in 0 .. (offset[t] - 1) : (t + k) % threadsCount = v}

LengthTypes ==
    /\ threadsCount \in 1 .. MaxThreads /\ linearRange \in Ranges /\ fast \in BOOLEAN
    /\ rangeLength \in [Threads -> Nat]
    /\ pc \in [Threads -> {"out", "own", "ownItem", "scan", "index", "stealItem", "gone"}]
    /\ offset \in [Threads -> Nat]

Overshoot ==
    fast => \A v \in Threads : /\ rangeLength[v] < SizeModulus
                               /\ Signed(rangeLength[v]) >= -Cardinality(Passed(v))

FastInv ==
    /\ LengthTypes
    /\ \A t \in Threads : pc[t] # "out" => t < threadsCount
    /\ Overshoot

\* Numbers of threads and the threshold.
LEMMA SizeFacts ==
    /\ MaxThreads \in Nat /\ MaxThreads > 0
    /\ SizeModulus \in Nat /\ SizeModulus > MaxThreads
    /\ Threshold \in Nat /\ Threshold > 0 /\ Threshold = SizeModulus - MaxThreads
BY ThreadsAssumption, SizeAssumption DEF Threshold

LEMMA LoweredNat == \A n \in Nat : Lowered(n) \in Nat
<1> SUFFICES ASSUME NEW n \in Nat PROVE Lowered(n) \in Nat
  OBVIOUS
<1>1. SizeModulus \in Nat \ {0} /\ n - 1 \in Int
  BY SizeFacts
<1>2. (n - 1) % SizeModulus \in 0 .. (SizeModulus - 1)
  BY <1>1
<1>3. QED
  BY <1>1, <1>2 DEF Lowered

\* The subtraction as the machine makes it.
LEMMA LoweredValue ==
    ASSUME NEW n \in 0 .. (SizeModulus - 1)
    PROVE  Lowered(n) = IF n = 0 THEN SizeModulus - 1 ELSE n - 1
<1> DEFINE m == SizeModulus
<1>1. m \in Nat /\ m > 1
  BY SizeFacts
<1>2. ASSUME NEW x \in 0 .. (m - 1) PROVE x % m = x
  BY <1>1, <1>2
<1>3. (-1) % m = m - 1
  BY <1>1
<1>4. CASE n = 0
  BY <1>3, <1>4, <1>1 DEF Lowered
<1>5. CASE n # 0
  BY <1>2, <1>5, <1>1 DEF Lowered
<1>6. QED
  BY <1>4, <1>5

\* Above the threshold's value it is a subtraction of the numbers stood for, and
\* the comparison with the threshold tells whether there was an item.
LEMMA LoweredFacts ==
    ASSUME fast, NEW n \in 0 .. (SizeModulus - 1), Signed(n) > -MaxThreads
    PROVE  /\ Lowered(n) \in 0 .. (SizeModulus - 1)
           /\ Signed(Lowered(n)) = Signed(n) - 1
           /\ Lowered(n) < Threshold <=> Signed(n) > 0
           /\ Signed(n) > 0 => Signed(n) = n /\ Lowered(n) = n - 1
           /\ Signed(n) \in Int
BY LoweredValue, SizeFacts DEF Signed

\* The loop over the other threads comes to no thread twice.
LEMMA ModuloDiffers ==
    ASSUME NEW n \in Nat \ {0}, NEW t \in 0 .. (n - 1), NEW j \in 0 .. (n - 1),
           NEW k \in 0 .. (j - 1)
    PROVE  (t + k) % n # (t + j) % n
<1>1. \A x \in 0 .. (n - 1) : x % n = x /\ (x + n) % n = x
  OBVIOUS
<1>2. ASSUME NEW x \in 0 .. (2 * n - 2) PROVE x % n = IF x < n THEN x ELSE x - n
  <2>1. CASE x < n
    BY <1>1, <2>1
  <2>2. CASE x >= n
    <3>1. x - n \in 0 .. (n - 1) /\ (x - n) + n = x
      BY <2>2
    <3>2. ((x - n) + n) % n = x - n
      BY <1>1, <3>1
    <3>3. QED
      BY <2>2, <3>1, <3>2
  <2>3. QED
    BY <2>1, <2>2
<1>3. t + k \in 0 .. (2 * n - 2) /\ t + j \in 0 .. (2 * n - 2)
  OBVIOUS
<1>4. QED
  BY <1>2, <1>3

\* The threads that have passed a range.
LEMMA PassedFacts ==
    ASSUME FastInv, NEW v \in Threads
    PROVE  /\ Passed(v) \subseteq 0 .. (threadsCount - 1) /\ IsFiniteSet(Passed(v))
           /\ Cardinality(Passed(v)) \in Nat /\ Cardinality(Passed(v)) <= threadsCount
           /\ \A t \in (0 .. (threadsCount - 1)) \ Passed(v) :
                 /\ Cardinality(Passed(v)) < threadsCount
                 /\ Cardinality(Passed(v) \cup {t}) = Cardinality(Passed(v)) + 1
<1> DEFINE S == 0 .. (threadsCount - 1)
<1>1. threadsCount \in Nat /\ threadsCount >= 1
  BY ThreadsAssumption DEF FastInv, LengthTypes
<1>2. IsFiniteSet(S) /\ Cardinality(S) = threadsCount
  <2>1. 0 \in Int /\ threadsCount - 1 \in Int /\ ~(0 > threadsCount - 1)
    BY <1>1
  <2>2. IsFiniteSet(S) /\ Cardinality(S) = threadsCount - 1 - 0 + 1
    BY <2>1, FS_Interval
  <2>3. QED
    BY <1>1, <2>2
<1>3. Passed(v) \subseteq S
  BY DEF Passed
<1>4. /\ IsFiniteSet(Passed(v)) /\ Cardinality(Passed(v)) \in Nat
      /\ Cardinality(Passed(v)) <= threadsCount
  BY <1>2, <1>3, FS_Subset, FS_CardinalityType
<1>5. ASSUME NEW t \in S \ Passed(v)
      PROVE  /\ Cardinality(Passed(v)) < threadsCount
             /\ Cardinality(Passed(v) \cup {t}) = Cardinality(Passed(v)) + 1
  <2>1. Cardinality(Passed(v) \cup {t}) = Cardinality(Passed(v)) + 1
    BY <1>4, FS_AddElement
  <2>2. Passed(v) \cup {t} \in SUBSET S
    BY <1>3
  <2>3. Cardinality(Passed(v) \cup {t}) <= Cardinality(S)
    <3> HIDE DEF S
    <3> QED
      BY <1>2, <2>2, FS_Subset
  <2>4. QED
    BY <1>1, <1>2, <1>4, <2>1, <2>3
<1>6. QED
  BY <1>3, <1>4, <1>5

\* A thread that is about to claim from a range has not passed it.
LEMMA NotPassed ==
    ASSUME FastInv, NEW t \in Threads
    PROVE  /\ pc[t] = "own" => t \in (0 .. (threadsCount - 1)) \ Passed(t)
           /\ Scanning(t) => /\ Victim(t) \in Threads
                             /\ t \in (0 .. (threadsCount - 1)) \ Passed(Victim(t))
<1>1. /\ threadsCount \in Nat \ {0} /\ threadsCount <= MaxThreads /\ MaxThreads \in Nat
      /\ offset[t] \in Nat /\ t \in Nat
  BY ThreadsAssumption DEF FastInv, LengthTypes, Threads
<1>2. pc[t] # "out" => t \in 0 .. (threadsCount - 1)
  BY <1>1 DEF FastInv
<1>3. pc[t] = "own" => t \notin Passed(t)
  BY DEF Passed, PassingPCs
<1>4. ASSUME Scanning(t)
      PROVE  Victim(t) \in Threads /\ t \notin Passed(Victim(t)) /\ pc[t] # "out"
  <2>1. offset[t] \in 0 .. (threadsCount - 1) /\ pc[t] = "scan"
    BY <1>1, <1>4 DEF Scanning
  <2>2. Victim(t) \in Threads
    <3>1. t + offset[t] \in Nat
      BY <1>1
    <3>2. Victim(t) \in 0 .. (threadsCount - 1)
      BY <1>1, <3>1, DivisionFacts DEF Victim
    <3>3. QED
      BY <1>1, <3>2 DEF Threads
  <2>3. ASSUME NEW k \in 0 .. (offset[t] - 1) PROVE (t + k) % threadsCount # Victim(t)
    BY <1>1, <1>2, <2>1, ModuloDiffers DEF Victim
  <2>4. QED
    BY <2>1, <2>2, <2>3 DEF Passed
<1>5. QED
  BY <1>2, <1>3, <1>4
-----------------------------------------------------------------------------
(* Each step is a step of the slow path, and keeps the lengths in bounds.  *)

\* A thread that has passed a range does not come back to it.
LEMMA PassedNext ==
    ASSUME FastInv, threadsCount' = threadsCount, LengthTypes', NEW v \in Threads,
           \A t \in Threads : pc[t] \in PassingPCs =>
               pc'[t] \in PassingPCs /\ offset'[t] >= offset[t]
    PROVE  /\ Cardinality(Passed(v)') \in Nat /\ Cardinality(Passed(v)') >= Cardinality(Passed(v))
           /\ \A t \in (0 .. (threadsCount - 1)) \ Passed(v) :
                 t \in Passed(v)' => Cardinality(Passed(v)') >= Cardinality(Passed(v)) + 1
<1>1. threadsCount \in Nat /\ 0 .. (threadsCount - 1) \subseteq Threads
  BY ThreadsAssumption DEF FastInv, LengthTypes, Threads
<1>2. \A t \in Threads : offset[t] \in Nat /\ offset'[t] \in Nat
  BY DEF FastInv, LengthTypes
<1>3. Passed(v) \subseteq Passed(v)'
  BY <1>1, <1>2 DEF Passed
<1>4. IsFiniteSet(Passed(v)') /\ Cardinality(Passed(v)') \in Nat
  <2>1. 0 \in Int /\ threadsCount - 1 \in Int
    BY <1>1
  <2>2. IsFiniteSet(0 .. (threadsCount - 1)) /\ Passed(v)' \subseteq 0 .. (threadsCount - 1)
    BY <2>1, FS_Interval DEF Passed
  <2>3. QED
    BY <2>2, FS_Subset, FS_CardinalityType
<1>5. Cardinality(Passed(v)') >= Cardinality(Passed(v))
  BY <1>3, <1>4, PassedFacts, FS_Subset
<1>6. ASSUME NEW t \in (0 .. (threadsCount - 1)) \ Passed(v), t \in Passed(v)'
      PROVE  Cardinality(Passed(v)') >= Cardinality(Passed(v)) + 1
  <2>1. Passed(v) \cup {t} \in SUBSET Passed(v)'
    BY <1>3, <1>6
  <2>2. Cardinality(Passed(v) \cup {t}) <= Cardinality(Passed(v)')
    BY <1>4, <2>1, FS_Subset
  <2>3. QED
    BY <1>4, <2>2, PassedFacts
<1>7. QED
  BY <1>4, <1>5, <1>6

\* What every step of a thread does to the places of the threads.
Onward ==
    /\ threadsCount' = threadsCount /\ fast' = fast /\ LengthTypes'
    /\ \A t \in Threads : /\ pc'[t] # "out" => t < threadsCount
                          /\ pc[t] \in PassingPCs =>
                                pc'[t] \in PassingPCs /\ offset'[t] >= offset[t]

\* A step that lowers no range, or any range on the slow path.
LEMMA StillFast ==
    ASSUME FastInv, Onward, ~fast \/ rangeLength' = rangeLength
    PROVE  /\ FastInv'
           /\ rangeLength' = rangeLength => LeftLength' = LeftLength
           /\ ~fast => LeftLength = rangeLength /\ LeftLength' = rangeLength'
<1>1. FastInv'
  <2>1. ASSUME fast, NEW v \in Threads
        PROVE  /\ rangeLength'[v] < SizeModulus
               /\ Signed(rangeLength[v])' >= -Cardinality(Passed(v)')
    <3>1. Signed(rangeLength[v]) \in Int /\ Signed(rangeLength[v])' = Signed(rangeLength[v])
      BY <2>1, SizeFacts DEF Signed, FastInv, LengthTypes, Onward
    <3>2. rangeLength[v] < SizeModulus /\ Signed(rangeLength[v]) >= -Cardinality(Passed(v))
      BY <2>1 DEF FastInv, Overshoot
    <3>3. /\ Cardinality(Passed(v)') \in Nat /\ Cardinality(Passed(v)) \in Nat
          /\ Cardinality(Passed(v)') >= Cardinality(Passed(v))
      BY PassedNext, PassedFacts DEF Onward
    <3>4. QED
      BY <2>1, <3>1, <3>2, <3>3
  <2>2. Overshoot'
    BY <2>1 DEF Overshoot, Onward
  <2>3. QED
    BY <2>2 DEF FastInv, Onward
<1>2. rangeLength' = rangeLength => LeftLength' = LeftLength
  BY DEF LeftLength, Signed, Onward
<1>3. ~fast => LeftLength = rangeLength /\ LeftLength' = rangeLength'
  BY DEF LeftLength, Signed, Onward, FastInv, LengthTypes
<1>4. QED
  BY <1>1, <1>2, <1>3

\* A step that lowers one range: either it takes one of the items that are left,
\* or there was none and the thread passes on.
LEMMA LowerFast ==
    ASSUME FastInv, Onward, fast,
           NEW v \in Threads, NEW t \in (0 .. (threadsCount - 1)) \ Passed(v),
           rangeLength' = [rangeLength EXCEPT ![v] = Lowered(@)],
           Lowered(rangeLength[v]) >= Threshold => t \in Passed(v)'
    PROVE  /\ FastInv'
           /\ IF Lowered(rangeLength[v]) < Threshold
              THEN LeftLength[v] > 0 /\ LeftLength' = [LeftLength EXCEPT ![v] = @ - 1]
              ELSE LeftLength[v] = 0 /\ LeftLength' = LeftLength
<1> DEFINE n == rangeLength[v]
<1>1. /\ n \in 0 .. (SizeModulus - 1) /\ Signed(n) > -MaxThreads
      /\ Signed(n) >= -Cardinality(Passed(v))
  <2>1. /\ Cardinality(Passed(v)) \in Nat /\ Cardinality(Passed(v)) < threadsCount
        /\ threadsCount <= MaxThreads /\ threadsCount \in Nat
    <3>1. Cardinality(Passed(v)) \in Nat /\ Cardinality(Passed(v)) < threadsCount
      BY PassedFacts
    <3>2. threadsCount <= MaxThreads /\ threadsCount \in Nat
      BY SizeFacts DEF FastInv, LengthTypes
    <3>3. QED
      BY <3>1, <3>2
  <2>2. n \in Nat /\ n < SizeModulus /\ Signed(n) >= -Cardinality(Passed(v))
    BY DEF FastInv, LengthTypes, Overshoot
  <2>3. QED
    BY <2>1, <2>2, SizeFacts DEF Signed
<1>2. /\ Lowered(n) \in 0 .. (SizeModulus - 1)
      /\ Signed(Lowered(n)) = Signed(n) - 1 /\ Signed(n) \in Int
      /\ Lowered(n) < Threshold <=> Signed(n) > 0
      /\ Signed(n) > 0 => Signed(n) = n /\ Lowered(n) = n - 1
  BY <1>1, LoweredFacts
<1>3. /\ rangeLength'[v] = Lowered(n) /\ \A u \in Threads \ {v} : rangeLength'[u] = rangeLength[u]
      /\ \A m : Signed(m)' = Signed(m)
  BY DEF FastInv, LengthTypes, Signed, Onward
<1>4. Overshoot'
  <2>1. ASSUME NEW u \in Threads
        PROVE  /\ rangeLength'[u] < SizeModulus
               /\ Signed(rangeLength[u])' >= -Cardinality(Passed(u)')
    <3>1. /\ Cardinality(Passed(u)') \in Nat /\ Cardinality(Passed(u)) \in Nat
          /\ Cardinality(Passed(u)') >= Cardinality(Passed(u))
      BY PassedNext, PassedFacts DEF Onward
    <3>2. CASE u # v
      <4>1. /\ Signed(rangeLength[u])' = Signed(rangeLength[u]) /\ Signed(rangeLength[u]) \in Int
            /\ rangeLength[u] < SizeModulus /\ Signed(rangeLength[u]) >= -Cardinality(Passed(u))
        BY <1>3, <3>2, SizeFacts DEF FastInv, LengthTypes, Overshoot, Signed, Onward
      <4>2. QED
        BY <1>3, <3>1, <3>2, <4>1
    <3>3. CASE u = v
      <4>1. rangeLength'[v] < SizeModulus /\ Signed(rangeLength[v])' = Signed(n) - 1
        BY <1>2, <1>3, SizeFacts DEF Signed, Onward
      <4>2. CASE Signed(n) > 0
        BY <1>2, <3>1, <3>3, <4>1, <4>2
      <4>3. CASE ~(Signed(n) > 0)
        <5>1. t \in Passed(v)'
          BY <1>2, <4>3, SizeFacts
        <5>2. Cardinality(Passed(v)') >= Cardinality(Passed(v)) + 1
          BY <5>1, PassedNext DEF Onward
        <5>3. QED
          BY <1>1, <1>2, <3>1, <3>3, <4>1, <5>2
      <4>4. QED
        BY <4>2, <4>3
    <3>4. QED
      BY <3>2, <3>3
  <2>2. QED
    BY <2>1 DEF Overshoot
<1>5. FastInv'
  BY <1>4 DEF FastInv, Onward
<1>6. /\ LeftLength'[v] = IF Signed(Lowered(n)) > 0 THEN Lowered(n) ELSE 0
      /\ \A u \in Threads \ {v} : LeftLength'[u] = LeftLength[u]
      /\ LeftLength[v] = IF Signed(n) > 0 THEN n ELSE 0
  BY <1>3 DEF LeftLength, Signed, Onward
<1>7. /\ Signed(n) > 0 => LeftLength'[v] = LeftLength[v] - 1 /\ LeftLength[v] > 0
      /\ ~(Signed(n) > 0) => LeftLength'[v] = LeftLength[v] /\ LeftLength[v] = 0
  BY <1>1, <1>2, <1>6
<1>8. /\ LeftLength \in [Threads -> {LeftLength[u] : u \in Threads}]
      /\ LeftLength' = [u \in Threads |-> LeftLength'[u]]
  BY DEF LeftLength
<1>9. /\ Signed(n) > 0 => LeftLength' = [LeftLength EXCEPT ![v] = @ - 1]
      /\ ~(Signed(n) > 0) => LeftLength' = LeftLength
  BY <1>6, <1>7, <1>8
<1>10. QED
  BY <1>2, <1>5, <1>7, <1>9

-----------------------------------------------------------------------------
(* The fast path implements the slow path.                                 *)

LEMMA OnwardSteps ==
    ASSUME FastInv, [FastNext]_<<vars, fast>>
    PROVE  Onward
<1> USE DEF Onward, FastInv, LengthTypes, Goto, jobVars, PassingPCs
<1>t. \A t \in Threads : t \in Nat
  BY DEF Threads
<1>v. ASSUME NEW t \in Threads, Scanning(t) PROVE Victim(t) \in Threads
  BY <1>v, NotPassed
<1>l. \A t \in Threads : rangeLength[t] \in Nat /\ Lowered(rangeLength[t]) \in Nat
  BY LoweredNat
<1>1. ASSUME NEW t \in Threads, Join(t), fast' = fast PROVE Onward
  BY <1>1 DEF Join
<1>2. ASSUME NEW t \in Threads, OwnTake(t), fast' = fast PROVE Onward
  BY <1>2, <1>t DEF OwnTake, Available
<1>3. ASSUME NEW t \in Threads, OwnEmpty(t), fast' = fast PROVE Onward
  BY <1>3, <1>t DEF OwnEmpty
<1>4. ASSUME NEW t \in Threads, StealTake(t), fast' = fast PROVE Onward
  BY <1>4, <1>t, <1>v DEF StealTake, Available, Scanning
<1>5. ASSUME NEW t \in Threads, StealIndex(t), fast' = fast PROVE Onward
  BY <1>5, <1>t DEF StealIndex
<1>6. ASSUME NEW t \in Threads, StealEmpty(t), fast' = fast PROVE Onward
  BY <1>6, <1>t DEF StealEmpty, Scanning, NextOffset
<1>7. ASSUME NEW t \in Threads, Finish(t), fast' = fast PROVE Onward
  BY <1>7, <1>t DEF Finish
<1>8. ASSUME NEW t \in Threads, Leave(t), fast' = fast PROVE Onward
  BY <1>8, <1>t DEF Leave
<1>9. ASSUME NEW t \in Threads, FastOwnTake(t), fast' = fast PROVE Onward
  BY <1>9, <1>t, <1>l DEF FastOwnTake
<1>10. ASSUME NEW t \in Threads, FastOwnEmpty(t), fast' = fast PROVE Onward
  BY <1>10, <1>t, <1>l DEF FastOwnEmpty
<1>11. ASSUME NEW t \in Threads, FastStealTake(t), fast' = fast PROVE Onward
  BY <1>11, <1>t, <1>v, <1>l DEF FastStealTake, Scanning
<1>12. ASSUME NEW t \in Threads, FastStealEmpty(t), fast' = fast PROVE Onward
  BY <1>12, <1>t, <1>v, <1>l DEF FastStealEmpty, Scanning, FastNextOffset
<1>13. CASE UNCHANGED <<vars, fast>>
  BY <1>13, <1>t DEF vars
<1> HIDE DEF Onward, FastInv
<1>14. QED
  BY <1>1, <1>2, <1>3, <1>4, <1>5, <1>6, <1>7, <1>8, <1>9, <1>10, <1>11, <1>12, <1>13
     DEF FastNext, PathClaim, FastClaim, Claim, Go, Terminated, vars

\* Each claim of the fast path is the slow path's claim of the same name.
LEMMA FastClaims ==
    ASSUME FastInv, Onward, fast, NEW t \in Threads, FastClaim(t)
    PROVE  FastInv' /\ Slow!Claim(t)
<1>1. /\ threadsCount' = threadsCount /\ threadsCount \in Nat \ {0} /\ offset[t] \in Nat
      /\ pc' \in [Threads -> {"out", "own", "ownItem", "scan", "index", "stealItem", "gone"}]
      /\ offset' \in [Threads -> Nat] /\ Threshold \in Nat
  BY ThreadsAssumption, SizeFacts DEF FastInv, LengthTypes, Onward
<1>l. \A v \in Threads : rangeLength[v] \in Nat /\ Lowered(rangeLength[v]) \in Nat
  BY LoweredNat DEF FastInv, LengthTypes
<1> USE DEF Slow!Claim, Slow!Scanning, Slow!Victim, Slow!Available, Slow!Goto, Slow!jobVars
<1>2. ASSUME FastOwnTake(t) PROVE FastInv' /\ Slow!Claim(t)
  <2>1. /\ t \in (0 .. (threadsCount - 1)) \ Passed(t) /\ Lowered(rangeLength[t]) < Threshold
        /\ ~(Lowered(rangeLength[t]) >= Threshold)
        /\ rangeLength' = [rangeLength EXCEPT ![t] = Lowered(@)]
    BY <1>1, <1>2, <1>l, NotPassed DEF FastOwnTake
  <2>2. FastInv' /\ LeftLength[t] > 0 /\ LeftLength' = [LeftLength EXCEPT ![t] = @ - 1]
    BY <2>1, LowerFast
  <2>3. QED
    BY <1>2, <2>2 DEF FastOwnTake, Slow!OwnTake, Goto, jobVars
<1>3. ASSUME FastOwnEmpty(t) PROVE FastInv' /\ Slow!Claim(t)
  <2>1. /\ t \in (0 .. (threadsCount - 1)) \ Passed(t) /\ Lowered(rangeLength[t]) >= Threshold
        /\ ~(Lowered(rangeLength[t]) < Threshold)
        /\ rangeLength' = [rangeLength EXCEPT ![t] = Lowered(@)]
        /\ pc[t] = "own" /\ pc'[t] = "scan" /\ offset'[t] = 1
    BY <1>1, <1>3, <1>l, NotPassed DEF FastOwnEmpty, Goto, FastInv, LengthTypes
  <2>2. t \in Passed(t)'
    <3>1. /\ t \in Nat /\ t < threadsCount /\ t + 0 = t /\ 0 \in 0 .. (offset'[t] - 1)
      BY <1>1, <2>1
    <3>2. (t + 0) % threadsCount = t
      BY <1>1, <3>1
    <3>3. QED
      BY <1>1, <2>1, <3>1, <3>2 DEF Passed, PassingPCs
  <2>3. FastInv' /\ LeftLength[t] = 0 /\ LeftLength' = LeftLength
    BY <2>1, <2>2, LowerFast
  <2>4. QED
    BY <1>3, <2>3 DEF FastOwnEmpty, Slow!OwnEmpty, Goto, jobVars
<1>4. ASSUME FastStealTake(t) PROVE FastInv' /\ Slow!Claim(t)
  <2>v. PICK v \in Threads : v = Victim(t) /\ t \in (0 .. (threadsCount - 1)) \ Passed(v)
    BY <1>4, NotPassed DEF FastStealTake
  <2>1. /\ Lowered(rangeLength[v]) < Threshold /\ ~(Lowered(rangeLength[v]) >= Threshold)
        /\ rangeLength' = [rangeLength EXCEPT ![v] = Lowered(@)]
    BY <1>1, <1>4, <1>l, <2>v DEF FastStealTake
  <2>2. FastInv' /\ LeftLength[v] > 0 /\ LeftLength' = [LeftLength EXCEPT ![v] = @ - 1]
    BY <2>v, <2>1, LowerFast
  <2>3. QED
    BY <1>4, <2>v, <2>2 DEF FastStealTake, Slow!StealTake, Scanning, Victim, Goto, jobVars
<1>5. ASSUME FastStealEmpty(t) PROVE FastInv' /\ Slow!Claim(t)
  <2>v. PICK v \in Threads : v = Victim(t) /\ t \in (0 .. (threadsCount - 1)) \ Passed(v)
    BY <1>5, NotPassed DEF FastStealEmpty
  <2>1. /\ Lowered(rangeLength[v]) >= Threshold /\ ~(Lowered(rangeLength[v]) < Threshold)
        /\ rangeLength' = [rangeLength EXCEPT ![v] = Lowered(@)]
        /\ pc[t] = "scan" /\ pc'[t] = "scan" /\ offset'[t] = offset[t] + 1
    BY <1>1, <1>5, <1>l, <2>v DEF FastStealEmpty, FastNextOffset, Scanning, FastInv, LengthTypes
  <2>2. t \in Passed(v)'
    <3>1. (t + offset[t]) % threadsCount = v /\ offset[t] \in 0 .. (offset'[t] - 1)
      BY <1>1, <2>v, <2>1 DEF Victim
    <3>2. QED
      BY <1>1, <2>v, <2>1, <3>1 DEF Passed, PassingPCs
  <2>3. FastInv' /\ LeftLength[v] = 0 /\ LeftLength' = LeftLength
    BY <2>v, <2>1, <2>2, LowerFast
  <2>4. QED
    BY <1>5, <2>v, <2>3
       DEF FastStealEmpty, Slow!StealEmpty, Slow!NextOffset, FastNextOffset, Scanning, Victim, jobVars
<1>6. QED
  BY <1>2, <1>3, <1>4, <1>5 DEF FastClaim

LEMMA FastStep == FastInv /\ [FastNext]_<<vars, fast>> => FastInv' /\ [Slow!Next]_(Slow!vars)
<1> SUFFICES ASSUME FastInv, [FastNext]_<<vars, fast>>
             PROVE  FastInv' /\ [Slow!Next]_(Slow!vars)
  OBVIOUS
<1>1. Onward
  BY OnwardSteps
<1>2. Slow!Threads = Threads
  BY DEF Threads, Slow!Threads
<1>3. ASSUME NEW t \in Threads, Join(t) \/ Go(t) PROVE FastInv' /\ (Slow!Join(t) \/ Slow!Go(t))
  <2>1. rangeLength' = rangeLength
    BY <1>3 DEF Join, Go, StealIndex, Finish, Leave
  <2>2. FastInv' /\ LeftLength' = LeftLength
    BY <1>1, <2>1, StillFast
  <2>3. QED
    BY <1>3, <2>2
       DEF Join, Go, StealIndex, Finish, Leave, Goto, jobVars, Victim, StolenItem, Slow!Join,
           Slow!Go, Slow!StealIndex, Slow!Finish, Slow!Leave, Slow!Goto, Slow!jobVars,
           Slow!Victim, Slow!StolenItem
<1>4. ASSUME NEW t \in Threads, PathClaim(t) PROVE FastInv' /\ Slow!Claim(t)
  <2>1. CASE fast
    BY <1>1, <1>4, <2>1, FastClaims DEF PathClaim
  <2>2. CASE ~fast
    <3>1. FastInv' /\ LeftLength = rangeLength /\ LeftLength' = rangeLength'
      BY <1>1, <2>2, StillFast
    <3>2. Claim(t)
      BY <1>4, <2>2 DEF PathClaim
    <3>3. QED
      BY <3>1, <3>2
         DEF Claim, OwnTake, OwnEmpty, StealTake, StealEmpty, Scanning, Available, Victim,
             NextOffset, Goto, jobVars, Slow!Claim, Slow!OwnTake, Slow!OwnEmpty, Slow!StealTake,
             Slow!StealEmpty, Slow!Scanning, Slow!Available, Slow!Victim, Slow!NextOffset,
             Slow!Goto, Slow!jobVars
  <2>3. QED
    BY <2>1, <2>2
<1>5. CASE UNCHANGED vars
  <2>1. FastInv' /\ LeftLength' = LeftLength
    BY <1>1, <1>5, StillFast DEF vars
  <2>2. QED
    BY <1>5, <2>1 DEF vars, Slow!vars
<1>6. QED
  BY <1>2, <1>3, <1>4, <1>5 DEF FastNext, Terminated, Slow!Next

LEMMA FastStart == FastInit => FastInv /\ Slow!Init
<1> SUFFICES ASSUME FastInit PROVE FastInv /\ Slow!Init
  OBVIOUS
<1>1. /\ threadsCount \in 1 .. MaxThreads /\ linearRange \in Ranges /\ fast \in BOOLEAN
      /\ fast => linearRange < Threshold
      /\ \A t \in Threads : pc[t] = "out"
      /\ rangeLength = [t \in Threads |-> LengthOf(t)]
  BY DEF FastInit, Init
<1>2. \A t \in Threads : /\ LengthOf(t) \in Nat /\ LengthOf(t) <= linearRange
                         /\ Signed(LengthOf(t)) = LengthOf(t)
  <2>1. ASSUME NEW t \in Threads PROVE LengthOf(t) \in Nat /\ LengthOf(t) <= linearRange
    <3>1. StartOf(t) \in Nat /\ LengthOf(t) \in Nat /\ StartOf(t) + LengthOf(t) <= linearRange
      BY <1>1, DealFacts
    <3>2. linearRange \in Nat
      BY <1>1, RangesAssumption
    <3>3. QED
      BY <3>1, <3>2
  <2>2. linearRange \in Nat
    BY <1>1, RangesAssumption
  <2>3. ASSUME NEW t \in Threads PROVE Signed(LengthOf(t)) = LengthOf(t)
    BY <1>1, <2>1, <2>2, SizeFacts DEF Signed
  <2>4. QED
    BY <2>1, <2>3
<1>3. LengthTypes
  BY <1>1, <1>2 DEF LengthTypes, FastInit, Init
<1>4. \A v \in Threads : Cardinality(Passed(v)) = 0
  <2>1. ASSUME NEW v \in Threads PROVE Passed(v) = {}
    <3>1. 0 .. (threadsCount - 1) \subseteq Threads
      BY <1>1, ThreadsAssumption DEF Threads
    <3>2. QED
      BY <1>1, <3>1 DEF Passed, PassingPCs
  <2>2. QED
    BY <2>1, FS_EmptySet
<1>5. Overshoot
  <2>1. linearRange \in Nat
    BY <1>1, RangesAssumption
  <2>2. QED
    BY <1>1, <1>2, <1>4, <2>1, SizeFacts DEF Overshoot
<1>6. LeftLength = rangeLength
  <2>1. \A t \in Threads : LengthOf(t) = IF LengthOf(t) > 0 THEN LengthOf(t) ELSE 0
    BY <1>2
  <2>2. QED
    BY <1>1, <1>2, <2>1 DEF LeftLength
<1>7. Slow!Init
  BY <1>6
     DEF FastInit, Init, Slow!Init, Threads, Slow!Threads, StartOf, LengthOf, Quotient, Remainder,
         Smaller, Slow!StartOf, Slow!LengthOf, Slow!Quotient, Slow!Remainder, Slow!Smaller
<1>8. QED
  BY <1>1, <1>3, <1>5, <1>7 DEF FastInv

\* The unconditional subtraction and the comparison with range_threshold claim
\* the items that the compare-and-swap loop of the slow path claims: whatever
\* the interleaving, what is left of the ranges goes through a behaviour of
\* WorkStealing.
THEOREM FastPathIsStealing == FastSpec => Slow!Spec
<1>1. FastSpec => []FastInv
  BY FastStart, FastStep, PTL DEF FastSpec
<1>2. QED
  BY <1>1, FastStart, FastStep, PTL DEF FastSpec, Slow!Spec

LEMMA FastInvariant == FastSpec => []FastInv
BY FastStart, FastStep, PTL DEF FastSpec

-----------------------------------------------------------------------------
(* What is proved of the slow path holds of both.                          *)

\* Every variable keeps its type on both paths; range_length stays a size_t.
THEOREM FastTypeCorrect == FastSpec => []TypeOK
<1>1. Slow!Spec => []Slow!StealInv
  BY Slow!StealInvariant, ThreadsAssumption, RangesAssumption, PTL
<1>2. Slow!StealInv /\ FastInv => TypeOK
  BY DEF Slow!StealInv, Slow!TypeOK, Slow!Threads, Threads, TypeOK, FastInv, LengthTypes
<1>3. QED
  BY <1>1, <1>2, FastPathIsStealing, FastInvariant, PTL

\* The instance counts with an operator of its own.
LEMMA SlowCount == \A S : Slow!Cardinality(S) = Cardinality(S)
BY DEF Slow!Cardinality, Cardinality

\* range_length is what is left of a range less what thieves have reserved; on
\* the fast path it falls below zero by no more than the threads of the job, so
\* that a wrapped value is never taken for a number of items.
THEOREM FastLengthsAccount == FastSpec => []FastAccounting
<1>1. Slow!Spec => []Slow!StealInv
  BY Slow!StealInvariant, ThreadsAssumption, RangesAssumption, PTL
<1>2. Slow!StealInv /\ FastInv => FastAccounting
  <2> SUFFICES ASSUME Slow!StealInv, FastInv, NEW t \in Threads
               PROVE  /\ rangeEnd[t] - next[t] =
                            Cardinality(Pending(t))
                            + (IF Signed(rangeLength[t]) > 0 THEN rangeLength[t] ELSE 0)
                      /\ Signed(rangeLength[t]) >= -threadsCount
    BY DEF FastAccounting
  <2>1. LeftLength[t] = IF Signed(rangeLength[t]) > 0 THEN rangeLength[t] ELSE 0
    BY DEF LeftLength
  <2>2. Slow!Threads = Threads /\ Slow!Pending(t) = Pending(t)
    BY DEF Slow!Threads, Threads, Slow!Pending, Pending, Slow!Victim, Victim
  <2>3. LeftLength[t] \in Nat
    BY <2>1 DEF FastInv, LengthTypes
  <2>4. rangeEnd[t] - next[t] = LeftLength[t] + Cardinality(Pending(t))
    BY <2>2, SlowCount DEF Slow!StealInv, Slow!RangeAccounting
  <2>5. Cardinality(Pending(t)) \in Nat
    BY PendingFacts
  <2>6. Signed(rangeLength[t]) >= -threadsCount
    <3>1. threadsCount \in Nat /\ rangeLength[t] \in Nat
      BY SizeFacts DEF FastInv, LengthTypes
    <3>2. Cardinality(Passed(t)) \in Nat /\ Cardinality(Passed(t)) <= threadsCount
      BY PassedFacts
    <3>3. CASE fast
      BY <3>1, <3>2, <3>3, SizeFacts DEF FastInv, Overshoot, Signed
    <3>4. CASE ~fast
      BY <3>1, <3>4 DEF Signed
    <3>5. QED
      BY <3>3, <3>4
  <2>7. QED
    BY <2>1, <2>3, <2>4, <2>5, <2>6
<1>3. QED
  BY <1>1, <1>2, FastPathIsStealing, FastInvariant, PTL

\* The specified function is called once for each item, on either path.
THEOREM FastItemsOnce == FastSpec => []ItemsOnce
<1>1. Slow!Spec => []Slow!ItemsOnce
  BY Slow!EveryItemOnce, ThreadsAssumption, RangesAssumption, PTL
<1>2. Slow!ItemsOnce => ItemsOnce
  BY DEF ItemsOnce, Items, Threads, Slow!ItemsOnce, Slow!Items, Slow!Threads
<1>3. QED
  BY <1>1, <1>2, FastPathIsStealing, PTL

\* When a job is over all its items have been processed, on either path.
THEOREM FastNothingLost == FastSpec => []NothingLost
<1>1. Slow!Spec => []Slow!NothingLost
  BY Slow!NothingIsLost, ThreadsAssumption, RangesAssumption, PTL
<1>2. Slow!NothingLost => NothingLost
  BY DEF NothingLost, Over, Items, Threads, Slow!NothingLost, Slow!Over, Slow!Items, Slow!Threads
<1>3. QED
  BY <1>1, <1>2, FastPathIsStealing, PTL

\* Both paths are one loop over the items, as ThreadPool takes for granted.
THEOREM FastImplementsLoop == FastSpec => ImplementsLoop
<1>1. Slow!Spec => Slow!ImplementsLoop
  BY Slow!StealingImplementsLoop, ThreadsAssumption, RangesAssumption, PTL
<1>2. Slow!ImplementsLoop => ImplementsLoop
  <2>1. Slow!Loop!LoopInit => Loop!LoopInit
    BY DEF Slow!Loop!LoopInit, Loop!LoopInit, Slow!Items, Items, Slow!Threads, Threads
  <2>2. Slow!Loop!LoopNext => Loop!LoopNext
    <3>1. Slow!Loop!Unreserved = Loop!Unreserved
      BY DEF Slow!Loop!Unreserved, Loop!Unreserved, Slow!Loop!Cardinality, Loop!Cardinality,
             Slow!Items, Items, Slow!Threads, Threads
    <3>2. QED
      BY <3>1
         DEF Slow!Loop!LoopNext, Slow!Loop!Reserve, Slow!Loop!HandOut, Slow!Loop!ReserveAndHandOut,
             Slow!Loop!Complete, Slow!Loop!Quit, Slow!Items, Slow!Threads, Loop!LoopNext,
             Loop!Reserve, Loop!HandOut, Loop!ReserveAndHandOut, Loop!Complete, Loop!Quit,
             Items, Threads
  <2>3. UNCHANGED Slow!Loop!loopVars => UNCHANGED Loop!loopVars
    BY DEF Slow!Loop!loopVars, Loop!loopVars, Slow!Items, Items, Slow!Threads, Threads
  <2>4. QED
    BY <2>1, <2>2, <2>3, PTL DEF ImplementsLoop, Slow!ImplementsLoop, Slow!Loop!LoopSpec, Loop!LoopSpec
<1>3. QED
  BY <1>1, <1>2, FastPathIsStealing, PTL
===============================================================================
