---------------------------- MODULE StealingProofs ----------------------------
(***************************************************************************)
(* Proofs about WorkStealing for every number of threads and every range:  *)
(* whatever the threads do, and whichever of them come, no item is handed  *)
(* out twice and none is left over, and the threads share the items as     *)
(* ParallelFor says.                                                       *)
(***************************************************************************)
EXTENDS WorkStealing, FiniteSetTheorems, FunctionTheorems, TLAPS

-----------------------------------------------------------------------------
(* The deal.                                                               *)

\* Division by a positive number.
LEMMA DivisionFacts ==
    ASSUME NEW r \in Nat, NEW n \in Nat \ {0}
    PROVE  /\ r \div n \in Nat /\ r % n \in 0 .. (n - 1)
           /\ r = n * (r \div n) + (r % n)
OBVIOUS

\* A product is monotone in its first factor.
LEMMA ProductFacts ==
    ASSUME NEW t \in Nat, NEW u \in Nat, NEW q \in Nat, t < u
    PROVE  t * q \in Nat /\ t * q + q <= u * q
<1>1. u * q = t * q + (u - t) * q
  OBVIOUS
<1>2. (u - t) * q >= q
  <2>1. u - t - 1 \in Nat
    OBVIOUS
  <2>2. (u - t - 1) * q \in Nat
    BY <2>1
  <2>3. (u - t) * q = (u - t - 1) * q + q
    OBVIOUS
  <2>4. QED
    BY <2>2, <2>3
<1>3. t * q \in Nat /\ (u - t) * q \in Int
  OBVIOUS
<1>4. QED
  BY <1>1, <1>2, <1>3

\* The ranges dealt out lie in the job's, one after the other.
LEMMA DealFacts ==
    ASSUME threadsCount \in 1 .. MaxThreads, linearRange \in Ranges
    PROVE  /\ \A t \in Threads : /\ StartOf(t) \in Nat /\ LengthOf(t) \in Nat
                                 /\ StartOf(t) + LengthOf(t) <= linearRange
           /\ \A t, u \in Threads : t < u => StartOf(t) + LengthOf(t) <= StartOf(u)
<1>1. threadsCount \in Nat \ {0} /\ linearRange \in Nat
  BY ThreadsAssumption, RangesAssumption
<1>2. /\ Quotient \in Nat /\ Remainder \in 0 .. (threadsCount - 1)
      /\ linearRange = threadsCount * Quotient + Remainder
  BY <1>1, DivisionFacts DEF Quotient, Remainder
<1>3. ASSUME NEW t \in Threads, NEW u \in Nat, t < u, u <= threadsCount
      PROVE  /\ t * Quotient \in Nat /\ u * Quotient \in Nat
             /\ t * Quotient + Quotient <= u * Quotient
  BY <1>2, <1>3, ProductFacts DEF Threads
<1>4. ASSUME NEW t \in Threads
      PROVE  /\ StartOf(t) \in Nat /\ LengthOf(t) \in Nat
             /\ StartOf(t) + LengthOf(t) <= linearRange
  <2>1. CASE t < threadsCount
    BY <2>1, <1>1, <1>2, <1>3 DEF StartOf, LengthOf, Smaller, Threads
  <2>2. CASE t >= threadsCount
    BY <2>2, <1>1 DEF StartOf, LengthOf, Threads
  <2>3. QED
    BY <2>1, <2>2, <1>1 DEF Threads
<1>5. ASSUME NEW t \in Threads, NEW u \in Threads, t < u
      PROVE  StartOf(t) + LengthOf(t) <= StartOf(u)
  <2>1. CASE u < threadsCount
    BY <2>1, <1>1, <1>2, <1>3, <1>5 DEF StartOf, LengthOf, Smaller, Threads
  <2>2. CASE u >= threadsCount
    BY <2>2, <1>1, <1>4 DEF StartOf, Threads
  <2>3. QED
    BY <2>1, <2>2, <1>1 DEF Threads
<1>6. QED
  BY <1>4, <1>5

-----------------------------------------------------------------------------
(* The items.                                                              *)

\* What is left of the range of t: the items nobody has been handed.
Window(t) == {i \in Int : next[t] <= i /\ i < rangeEnd[t]}

\* The window only shrinks inside the range that was dealt out.
InsideDeal ==
    \A t \in Threads : StartOf(t) <= next[t] /\ rangeEnd[t] <= StartOf(t) + LengthOf(t)

\* A thread has an item exactly while it processes it.
ItemsHeld == \A t \in Threads : item[t] # NoItem <=> pc[t] \in {"ownItem", "stealItem"}

\* No item of a window has been handed out.
Fresh ==
    \A t \in Threads : \A i \in Window(t) :
        i \notin done /\ \A u \in Threads : item[u] # i

StealInv == TypeOK /\ RangeAccounting /\ InsideDeal /\ ItemsHeld /\ Fresh /\ ItemsOnce

\* The reservations against a range are counted.
LEMMA PendingFacts ==
    ASSUME NEW t \in Threads
    PROVE  /\ Pending(t) \subseteq Threads /\ IsFiniteSet(Pending(t))
           /\ Cardinality(Pending(t)) \in Nat
           /\ Cardinality(Pending(t)) = 0 <=> Pending(t) = {}
<1>1. IsFiniteSet(Threads)
  BY FS_Interval, ThreadsAssumption DEF Threads
<1>2. Pending(t) \subseteq Threads
  BY DEF Pending
<1>3. QED
  BY <1>1, <1>2, FS_Subset, FS_CardinalityType, FS_EmptySet

\* A thread steals from a thread.
LEMMA VictimFacts ==
    ASSUME TypeOK, NEW t \in Threads
    PROVE  Victim(t) \in Threads
<1>1. threadsCount \in Nat \ {0} /\ threadsCount <= MaxThreads /\ t + offset[t] \in Nat
  BY ThreadsAssumption DEF TypeOK, Threads
<1>2. Victim(t) \in 0 .. (threadsCount - 1)
  BY <1>1, DivisionFacts DEF Victim
<1>3. QED
  BY <1>1, <1>2, ThreadsAssumption DEF Threads

\* Windows do not overlap.
LEMMA WindowsApart ==
    ASSUME StealInv, NEW t \in Threads, NEW u \in Threads, t # u
    PROVE  Window(t) \cap Window(u) = {}
<1>1. /\ StartOf(t) \in Nat /\ LengthOf(t) \in Nat /\ StartOf(u) \in Nat /\ LengthOf(u) \in Nat
      /\ t < u => StartOf(t) + LengthOf(t) <= StartOf(u)
      /\ u < t => StartOf(u) + LengthOf(u) <= StartOf(t)
  BY DealFacts DEF StealInv, TypeOK
<1>2. t < u \/ u < t
  BY DEF Threads
<1>3. QED
  BY <1>1, <1>2 DEF StealInv, InsideDeal, Window, TypeOK

\* A window lies in the job's range.
LEMMA WindowInside ==
    ASSUME StealInv, NEW t \in Threads
    PROVE  Window(t) \subseteq Items
<1>1. StartOf(t) \in Nat /\ LengthOf(t) \in Nat /\ StartOf(t) + LengthOf(t) <= linearRange
  BY DealFacts DEF StealInv, TypeOK
<1>2. linearRange \in Nat
  BY RangesAssumption DEF StealInv, TypeOK
<1>3. QED
  BY <1>1, <1>2 DEF StealInv, InsideDeal, Window, TypeOK, Items

-----------------------------------------------------------------------------
(* The invariant is inductive: one lemma for each kind of step.            *)

\* Types: a range starts with natural ends.
LEMMA TypeOKInit == Init => TypeOK
<1> SUFFICES ASSUME Init PROVE TypeOK
  OBVIOUS
<1>1. threadsCount \in 1 .. MaxThreads /\ linearRange \in Ranges
  BY DEF Init
<1>2. \A t \in Threads : StartOf(t) \in Nat /\ LengthOf(t) \in Nat
  BY <1>1, DealFacts
<1>3. rangeEnd \in [Threads -> Int] /\ rangeLength \in [Threads -> Nat] /\ next \in [Threads -> Nat]
  BY <1>2 DEF Init
<1>4. QED
  BY <1>1, <1>3 DEF Init, TypeOK

\* Types are kept: a victim is a thread, an item that is processed a number.
LEMMA TypeOKStep == StealInv /\ [Next]_vars => TypeOK'
<1> SUFFICES ASSUME StealInv, TypeOK, [Next]_vars PROVE TypeOK'
  BY DEF StealInv
<1> USE DEF TypeOK, Goto, jobVars
<1>1. ASSUME NEW t \in Threads, Join(t) PROVE TypeOK'
  BY <1>1 DEF Join
<1>2. ASSUME NEW t \in Threads, OwnTake(t) PROVE TypeOK'
  BY <1>2 DEF OwnTake, Available
<1>3. ASSUME NEW t \in Threads, OwnEmpty(t) PROVE TypeOK'
  BY <1>3 DEF OwnEmpty
<1>4. ASSUME NEW t \in Threads, StealTake(t) PROVE TypeOK'
  BY <1>4, VictimFacts DEF StealTake, Available
<1>5. ASSUME NEW t \in Threads, StealIndex(t) PROVE TypeOK'
  BY <1>5, VictimFacts DEF StealIndex, StolenItem
<1>6. ASSUME NEW t \in Threads, StealEmpty(t) PROVE TypeOK'
  BY <1>6 DEF StealEmpty, NextOffset
<1>7. ASSUME NEW t \in Threads, Finish(t) PROVE TypeOK'
  <2>1. item[t] \in Int
    BY <1>7 DEF Finish, StealInv, ItemsHeld
  <2>2. QED
    BY <1>7, <2>1 DEF Finish
<1>8. ASSUME NEW t \in Threads, Leave(t) PROVE TypeOK'
  BY <1>8 DEF Leave
<1>9. CASE UNCHANGED vars
  BY <1>9 DEF vars
<1> HIDE DEF TypeOK
<1>10. QED
  BY <1>1, <1>2, <1>3, <1>4, <1>5, <1>6, <1>7, <1>8, <1>9 DEF Next, Claim, Go, Terminated

\* A step that takes nothing from a range leaves the items as they are.
LEMMA StillStep ==
    ASSUME StealInv, TypeOK', NEW t \in Threads,
           Join(t) \/ OwnEmpty(t) \/ StealEmpty(t) \/ Leave(t)
    PROVE  StealInv'
<1>1. /\ UNCHANGED <<threadsCount, linearRange, rangeEnd, rangeLength, next, item, done>>
      /\ pc[t] \in {"out", "own", "scan"} /\ pc'[t] \in {"own", "scan", "gone"}
      /\ \A u \in Threads \ {t} : pc'[u] = pc[u] /\ offset'[u] = offset[u]
  BY DEF Join, OwnEmpty, StealEmpty, Leave, Scanning, Goto, jobVars, StealInv, TypeOK
<1>2. \A v \in Threads : Pending(v)' = Pending(v)
  BY <1>1 DEF Pending, Victim
<1>3. RangeAccounting'
  BY <1>1, <1>2 DEF StealInv, RangeAccounting
<1>4. InsideDeal' /\ Fresh' /\ ItemsOnce'
  BY <1>1 DEF StealInv, InsideDeal, StartOf, LengthOf, Quotient, Remainder, Fresh, Window,
              ItemsOnce, Items
<1>5. ItemsHeld'
  BY <1>1 DEF StealInv, ItemsHeld
<1>6. QED
  BY <1>3, <1>4, <1>5 DEF StealInv

\* What a range has left, with the thieves' reservations, is what its ends say.
LEMMA OwnTakeStep ==
    ASSUME StealInv, TypeOK', NEW t \in Threads, OwnTake(t)
    PROVE  StealInv'
<1>1. /\ UNCHANGED <<threadsCount, linearRange, rangeEnd, offset, done>>
      /\ rangeLength[t] > 0 /\ rangeLength' = [rangeLength EXCEPT ![t] = @ - 1]
      /\ next' = [next EXCEPT ![t] = @ + 1]
      /\ item' = [item EXCEPT ![t] = next[t]]
      /\ pc[t] = "own" /\ pc' = [pc EXCEPT ![t] = "ownItem"]
  BY DEF OwnTake, Available, Goto, jobVars
<1>2. \A v \in Threads : Pending(v)' = Pending(v)
  BY <1>1 DEF Pending, Victim, StealInv, TypeOK
<1>3. RangeAccounting'
  <2>1. ASSUME NEW v \in Threads
        PROVE  rangeEnd'[v] - next'[v] = rangeLength'[v] + Cardinality(Pending(v)')
    BY <1>1, <1>2, PendingFacts DEF StealInv, TypeOK, RangeAccounting
  <2>2. QED
    BY <2>1 DEF RangeAccounting
<1>4. next[t] \in Window(t)
  BY <1>1, PendingFacts DEF StealInv, TypeOK, RangeAccounting, Window
<1>5. InsideDeal'
  BY <1>1, <1>4, DealFacts
     DEF StealInv, TypeOK, InsideDeal, StartOf, LengthOf, Quotient, Remainder, Window
<1>6. ItemsHeld'
  BY <1>1, RangesAssumption DEF StealInv, TypeOK, ItemsHeld
<1>7. /\ \A v \in Threads : Window(v)' \subseteq Window(v)
      /\ \A v \in Threads : next[t] \notin Window(v)'
  <2>1. \A v \in Threads : Window(v)' \subseteq Window(v)
    BY <1>1 DEF StealInv, TypeOK, Window
  <2>2. next[t] \notin Window(t)'
    BY <1>1 DEF StealInv, TypeOK, Window
  <2>3. \A v \in Threads \ {t} : next[t] \notin Window(v)
    BY <1>4, WindowsApart
  <2>4. QED
    BY <2>1, <2>2, <2>3
<1>8. Fresh'
  BY <1>1, <1>7 DEF StealInv, TypeOK, Fresh
<1>9. ItemsOnce'
  <2>1. next[t] \in Items \ done /\ \A u \in Threads : item[u] # next[t]
    BY <1>4, WindowInside DEF StealInv, Fresh
  <2>2. QED
    BY <1>1, <2>1 DEF StealInv, TypeOK, ItemsOnce, Items
<1>10. QED
  BY <1>3, <1>5, <1>6, <1>8, <1>9 DEF StealInv

\* A theft's first half turns an item of range_length into a reservation.
LEMMA StealTakeStep ==
    ASSUME StealInv, TypeOK', NEW t \in Threads, StealTake(t)
    PROVE  StealInv'
<1>v. PICK v \in Threads : v = Victim(t)
  BY VictimFacts DEF StealInv
<1>1. /\ UNCHANGED <<threadsCount, linearRange, rangeEnd, next, offset, item, done>>
      /\ rangeLength[v] > 0
      /\ rangeLength' = [rangeLength EXCEPT ![v] = @ - 1]
      /\ pc[t] = "scan" /\ pc' = [pc EXCEPT ![t] = "index"]
  BY <1>v DEF StealTake, Scanning, Available, Goto, jobVars, StealInv
<1>2. /\ Pending(v)' = Pending(v) \cup {t} /\ t \notin Pending(v)
      /\ \A u \in Threads \ {v} : Pending(u)' = Pending(u)
  BY <1>v, <1>1 DEF Pending, Victim, StealInv, TypeOK
<1>3. Cardinality(Pending(v)') = Cardinality(Pending(v)) + 1
  BY <1>1, <1>2, PendingFacts, FS_AddElement
<1>4. RangeAccounting'
  <2>1. ASSUME NEW u \in Threads
        PROVE  rangeEnd'[u] - next'[u] = rangeLength'[u] + Cardinality(Pending(u)')
    <3>1. CASE u = v
      BY <3>1, <1>1, <1>3, PendingFacts DEF StealInv, TypeOK, RangeAccounting
    <3>2. CASE u # v
      BY <3>2, <1>1, <1>2 DEF StealInv, TypeOK, RangeAccounting
    <3>3. QED
      BY <3>1, <3>2
  <2>2. QED
    BY <2>1 DEF RangeAccounting
<1>5. InsideDeal' /\ Fresh' /\ ItemsOnce'
  BY <1>1 DEF StealInv, InsideDeal, StartOf, LengthOf, Quotient, Remainder, Fresh, Window,
              ItemsOnce, Items
<1>6. ItemsHeld'
  BY <1>1 DEF StealInv, TypeOK, ItemsHeld
<1>7. QED
  BY <1>4, <1>5, <1>6 DEF StealInv

\* Its second half turns the reservation into the last item of the window.
LEMMA StealIndexStep ==
    ASSUME StealInv, TypeOK', NEW t \in Threads, StealIndex(t)
    PROVE  StealInv'
<1>v. PICK v \in Threads : v = Victim(t)
  BY VictimFacts DEF StealInv
<1>i. PICK i : i = rangeEnd[v] - 1
  OBVIOUS
<1>1. /\ UNCHANGED <<threadsCount, linearRange, rangeLength, next, offset, done>>
      /\ rangeEnd' = [rangeEnd EXCEPT ![v] = @ - 1]
      /\ item' = [item EXCEPT ![t] = i]
      /\ pc[t] = "index" /\ pc' = [pc EXCEPT ![t] = "stealItem"]
  BY <1>v, <1>i DEF StealIndex, StolenItem, Goto, jobVars, StealInv
<1>2. /\ Pending(v)' = Pending(v) \ {t} /\ t \in Pending(v)
      /\ \A u \in Threads \ {v} : Pending(u)' = Pending(u)
  BY <1>v, <1>1 DEF Pending, Victim, StealInv, TypeOK
<1>3. Cardinality(Pending(v)') = Cardinality(Pending(v)) - 1 /\ Cardinality(Pending(v)) >= 1
  <2>1. Cardinality(Pending(v)') = Cardinality(Pending(v)) - 1
    BY <1>1, <1>2, PendingFacts, FS_RemoveElement
  <2>2. Pending(v) # {} /\ Cardinality(Pending(v)) \in Nat /\ Cardinality(Pending(v)) # 0
    BY <1>2, PendingFacts
  <2>3. QED
    BY <2>1, <2>2
<1>4. RangeAccounting'
  <2>1. ASSUME NEW u \in Threads
        PROVE  rangeEnd'[u] - next'[u] = rangeLength'[u] + Cardinality(Pending(u)')
    <3>1. CASE u = v
      BY <3>1, <1>1, <1>3, PendingFacts DEF StealInv, TypeOK, RangeAccounting
    <3>2. CASE u # v
      BY <3>2, <1>1, <1>2 DEF StealInv, TypeOK, RangeAccounting
    <3>3. QED
      BY <3>1, <3>2
  <2>2. QED
    BY <2>1 DEF RangeAccounting
<1>5. i \in Window(v) /\ i \in Nat
  <2>1. rangeEnd[v] - next[v] >= 1
    BY <1>1, <1>3, PendingFacts DEF StealInv, TypeOK, RangeAccounting
  <2>2. QED
    BY <2>1, <1>1, <1>i DEF StealInv, TypeOK, Window
<1>6. InsideDeal'
  BY <1>1, DealFacts
     DEF StealInv, TypeOK, InsideDeal, StartOf, LengthOf, Quotient, Remainder
<1>7. ItemsHeld'
  BY <1>1, <1>5, RangesAssumption DEF StealInv, TypeOK, ItemsHeld
<1>8. /\ \A u \in Threads : Window(u)' \subseteq Window(u)
      /\ \A u \in Threads : i \notin Window(u)'
  <2>1. \A u \in Threads : Window(u)' \subseteq Window(u)
    BY <1>1 DEF StealInv, TypeOK, Window
  <2>2. i \notin Window(v)'
    BY <1>1, <1>i DEF StealInv, TypeOK, Window
  <2>3. \A u \in Threads \ {v} : i \notin Window(u)
    BY <1>1, <1>5, WindowsApart
  <2>4. QED
    BY <2>1, <2>2, <2>3
<1>9. Fresh'
  BY <1>1, <1>8 DEF StealInv, TypeOK, Fresh
<1>10. ItemsOnce'
  <2>1. i \in Items \ done /\ \A u \in Threads : item[u] # i
    BY <1>1, <1>5, WindowInside DEF StealInv, Fresh
  <2>2. QED
    BY <1>1, <2>1 DEF StealInv, TypeOK, ItemsOnce, Items
<1>11. QED
  BY <1>4, <1>6, <1>7, <1>9, <1>10 DEF StealInv

\* A finished item goes from a thread's hands to done.
LEMMA FinishStep ==
    ASSUME StealInv, TypeOK', NEW t \in Threads, Finish(t)
    PROVE  StealInv'
<1>1. /\ UNCHANGED <<threadsCount, linearRange, rangeEnd, rangeLength, next, offset>>
      /\ done' = done \cup {item[t]} /\ item' = [item EXCEPT ![t] = NoItem]
      /\ pc[t] \in {"ownItem", "stealItem"} /\ pc'[t] \in {"own", "scan"}
      /\ \A u \in Threads \ {t} : pc'[u] = pc[u]
  BY DEF Finish, Goto, jobVars, StealInv, TypeOK
<1>2. item[t] # NoItem
  BY <1>1 DEF StealInv, ItemsHeld
<1>3. \A u \in Threads : Pending(u)' = Pending(u)
  BY <1>1 DEF Pending, Victim
<1>4. RangeAccounting'
  BY <1>1, <1>3 DEF StealInv, RangeAccounting
<1>5. InsideDeal'
  BY <1>1 DEF StealInv, InsideDeal, StartOf, LengthOf, Quotient, Remainder
<1>6. ItemsHeld'
  BY <1>1 DEF StealInv, TypeOK, ItemsHeld
<1>7. \A u \in Threads : Window(u)' = Window(u)
  BY <1>1 DEF Window
<1>8. \A u \in Threads : \A i \in Window(u) : i # NoItem
  BY WindowInside, RangesAssumption DEF Items, StealInv, TypeOK
<1>9. Fresh'
  BY <1>1, <1>7, <1>8 DEF StealInv, TypeOK, Fresh
<1>10. ItemsOnce'
  BY <1>1, <1>2 DEF StealInv, TypeOK, ItemsOnce, Items
<1>11. QED
  BY <1>4, <1>5, <1>6, <1>9, <1>10 DEF StealInv

\* Every step keeps the invariant.
LEMMA StealInvStep == StealInv /\ [Next]_vars => StealInv'
<1> SUFFICES ASSUME StealInv, [Next]_vars PROVE StealInv'
  OBVIOUS
<1>1. TypeOK'
  BY TypeOKStep
<1>2. ASSUME NEW t \in Threads, Join(t) \/ Claim(t) \/ Go(t) PROVE StealInv'
  BY <1>1, <1>2, StillStep, OwnTakeStep, StealTakeStep, StealIndexStep, FinishStep
     DEF Claim, Go
<1>3. CASE UNCHANGED vars
  BY <1>3 DEF vars, StealInv, TypeOK, RangeAccounting, Pending, Victim, InsideDeal, StartOf,
              LengthOf, Quotient, Remainder, ItemsHeld, Fresh, Window, ItemsOnce, Items
<1>4. QED
  BY <1>2, <1>3 DEF Next, Terminated

\* It holds of the ranges as they are dealt out.
LEMMA StealInvInit == Init => StealInv
<1> SUFFICES ASSUME Init PROVE StealInv
  OBVIOUS
<1>1. TypeOK
  BY TypeOKInit
<1>2. \A t \in Threads : /\ pc[t] = "out" /\ item[t] = NoItem /\ next[t] = StartOf(t)
                         /\ rangeLength[t] = LengthOf(t) /\ rangeEnd[t] = StartOf(t) + LengthOf(t)
  BY DEF Init
<1>3. \A t \in Threads : StartOf(t) \in Nat /\ LengthOf(t) \in Nat
  BY DealFacts, <1>1 DEF TypeOK
<1>4. \A t \in Threads : Cardinality(Pending(t)) = 0
  BY <1>2, PendingFacts DEF Pending
<1>5. RangeAccounting
  BY <1>2, <1>3, <1>4 DEF RangeAccounting
<1>6. InsideDeal
  BY <1>2, <1>3 DEF InsideDeal
<1>7. ItemsHeld /\ ItemsOnce
  BY <1>2 DEF ItemsHeld, ItemsOnce
<1>8. Fresh
  BY <1>2, RangesAssumption, <1>3 DEF Fresh, Window, Init
<1>9. QED
  BY <1>1, <1>5, <1>6, <1>7, <1>8 DEF StealInv

LEMMA StealInvariant == Spec => []StealInv
BY StealInvInit, StealInvStep, PTL DEF Spec

\* However the threads interleave their claims and whoever takes part, an item
\* is handed to one thread, and never again once it has been processed.
THEOREM EveryItemOnce == Spec => []ItemsOnce
<1>1. StealInv => ItemsOnce
  BY DEF StealInv
<1>2. QED
  BY <1>1, StealInvariant, PTL

-----------------------------------------------------------------------------
(* Nothing is lost.                                                        *)

\* Division, as the choice of a quotient and a rest.
LEMMA QuotientExists ==
    ASSUME NEW i \in Nat, NEW n \in Nat, n # 0
    PROVE  \E t \in Nat, s \in 0 .. (n - 1) : i = t * n + s
<1>1. i \div n \in Nat /\ i % n \in 0 .. (n - 1) /\ i = n * (i \div n) + (i % n)
  BY DivisionFacts
<1>2. n * (i \div n) = (i \div n) * n
  BY <1>1
<1>3. QED
  BY <1>1, <1>2

\* The deal leaves no gap: item i belongs to the thread that i's division by
\* the length of a range names.
LEMMA DealCovers ==
    ASSUME threadsCount \in 1 .. MaxThreads, linearRange \in Ranges, NEW i \in Items
    PROVE  \E t \in Threads : StartOf(t) <= i /\ i < StartOf(t) + LengthOf(t)
<1> DEFINE q == Quotient
           r == Remainder
           n == threadsCount
<1>1. /\ q \in Nat /\ r \in 0 .. (n - 1) /\ n \in Nat \ {0} /\ n <= MaxThreads /\ i \in Nat
      /\ i < n * q + r
  <2>1. threadsCount \in Nat \ {0} /\ threadsCount <= MaxThreads /\ linearRange \in Nat
    BY ThreadsAssumption, RangesAssumption
  <2>2. /\ Quotient \in Nat /\ Remainder \in 0 .. (threadsCount - 1)
        /\ linearRange = threadsCount * Quotient + Remainder
    BY <2>1, DivisionFacts DEF Quotient, Remainder
  <2>3. i \in Nat /\ i < linearRange
    BY <2>1 DEF Items
  <2>4. QED
    BY <2>1, <2>2, <2>3
<1> HIDE DEF q, r, n
<1>2. CASE i < r * (q + 1)
  <2>1. PICK t \in Nat, s \in 0 .. q : i = t * (q + 1) + s
    <3>1. q + 1 \in Nat /\ q + 1 # 0 /\ (q + 1) - 1 = q
      BY <1>1
    <3>2. \E t \in Nat, s \in 0 .. ((q + 1) - 1) : i = t * (q + 1) + s
      BY <3>1, <1>1, QuotientExists
    <3>3. QED
      BY <3>1, <3>2
  <2>2. t < r
    <3>1. SUFFICES ASSUME r < t \/ r = t PROVE FALSE
      BY <1>1, <2>1
    <3>2. r * (q + 1) <= t * (q + 1)
      BY <3>1, <1>1, <2>1, ProductFacts
    <3>3. QED
      BY <3>2, <1>1, <1>2, <2>1
  <2>3. t \in Threads /\ t < n
    BY <1>1, <2>1, <2>2, ThreadsAssumption DEF Threads
  <2>4. StartOf(t) = t * q + t /\ LengthOf(t) = q + 1
    BY <1>1, <2>1, <2>2, <2>3 DEF StartOf, LengthOf, Smaller, q, r, n
  <2>5. QED
    BY <1>1, <2>1, <2>3, <2>4
<1>3. CASE i >= r * (q + 1)
  <2>1. q # 0
    BY <1>1, <1>3
  <2>2. PICK t \in Nat, s \in 0 .. (q - 1) : i - r * (q + 1) = t * q + s
    <3>1. i - r * (q + 1) \in Nat
      BY <1>1, <1>3
    <3>2. QED
      BY <3>1, <2>1, <1>1, QuotientExists
  <2>3. r + t < n
    <3>1. SUFFICES ASSUME n - r < t \/ n - r = t PROVE FALSE
      BY <1>1, <2>2
    <3>2. (n - r) * q <= t * q
      BY <3>1, <1>1, <2>2, ProductFacts
    <3>3. i >= r * (q + 1) + (n - r) * q
      BY <3>2, <1>1, <2>2
    <3>4. QED
      BY <3>3, <1>1
  <2>4. r + t \in Threads
    BY <1>1, <2>2, <2>3, ThreadsAssumption DEF Threads
  <2>5. StartOf(r + t) = (r + t) * q + r /\ LengthOf(r + t) = q
    BY <1>1, <2>2, <2>3 DEF StartOf, LengthOf, Smaller, q, r, n
  <2>6. i = (r + t) * q + r + s
    BY <1>1, <2>2
  <2>7. QED
    BY <1>1, <2>2, <2>4, <2>5, <2>6
<1>4. QED
  BY <1>1, <1>2, <1>3

\* Every item has been processed, is being processed or is still in a window.
Covered ==
    /\ done \subseteq Items
    /\ \A i \in Items : \/ i \in done
                        \/ \E t \in Threads : item[t] = i \/ i \in Window(t)

\* A thread passes an empty range for good: range_length never rises.
Exhausted(t) ==
    /\ pc[t] # "out" => t < threadsCount
    /\ t >= threadsCount => rangeLength[t] = 0
    /\ pc[t] \in {"scan", "index", "stealItem"} =>
          \A k \in 0 .. (offset[t] - 1) : rangeLength[(t + k) % threadsCount] = 0
    /\ pc[t] = "gone" => \A v \in Threads : rangeLength[v] = 0

LossInv == StealInv /\ Covered /\ \A t \in Threads : Exhausted(t)


\* The loop over the other threads comes to every thread.
LEMMA ModuloFacts ==
    ASSUME NEW n \in Nat \ {0}, NEW t \in 0 .. (n - 1), NEW v \in 0 .. (n - 1)
    PROVE  \E k \in 0 .. (n - 1) : (t + k) % n = v
<1>1. \A x \in 0 .. (n - 1) : x % n = x /\ (x + n) % n = x
  OBVIOUS
<1>2. CASE v >= t
  <2>1. v - t \in 0 .. (n - 1) /\ (t + (v - t)) % n = v
    BY <1>1, <1>2
  <2>2. QED
    BY <2>1, <1>1
<1>3. CASE v < t
  <2>1. v + n - t \in 0 .. (n - 1) /\ (t + (v + n - t)) % n = v
    BY <1>1, <1>3
  <2>2. QED
    BY <2>1, <1>1
<1>4. QED
  BY <1>2, <1>3

\* A claim moves an item from a window to a thread, Finish from there to done.
LEMMA CoveredStep == StealInv /\ StealInv' /\ Covered /\ [Next]_vars => Covered'
<1> SUFFICES ASSUME StealInv, StealInv', Covered, [Next]_vars PROVE Covered'
  OBVIOUS
<1>1. ASSUME NEW t \in Threads, OwnTake(t) PROVE Covered'
  <2>1. /\ UNCHANGED <<linearRange, rangeEnd, done>> /\ pc[t] = "own"
        /\ next' = [next EXCEPT ![t] = @ + 1] /\ item' = [item EXCEPT ![t] = next[t]]
    BY <1>1 DEF OwnTake, jobVars
  <2>2. item[t] = NoItem
    BY <2>1 DEF StealInv, ItemsHeld
  <2>3. \A i \in Items : i # NoItem
    BY RangesAssumption DEF Items, StealInv, TypeOK
  <2>4. \A u \in Threads : \A i \in Window(u) : i \in Window(u)' \/ item'[t] = i
    BY <2>1 DEF Window, StealInv, TypeOK
  <2>5. QED
    BY <2>1, <2>2, <2>3, <2>4 DEF Covered, Items, StealInv, TypeOK
<1>2. ASSUME NEW t \in Threads, StealIndex(t) PROVE Covered'
  <2>1. PICK v \in Threads : v = Victim(t)
    BY VictimFacts DEF StealInv
  <2>2. /\ UNCHANGED <<linearRange, next, done>> /\ pc[t] = "index"
        /\ rangeEnd' = [rangeEnd EXCEPT ![v] = @ - 1]
        /\ item' = [item EXCEPT ![t] = rangeEnd[v] - 1]
    BY <1>2, <2>1 DEF StealIndex, StolenItem, jobVars
  <2>3. item[t] = NoItem
    BY <2>2 DEF StealInv, ItemsHeld
  <2>4. \A i \in Items : i # NoItem
    BY RangesAssumption DEF Items, StealInv, TypeOK
  <2>5. \A u \in Threads : \A i \in Window(u) : i \in Window(u)' \/ item'[t] = i
    BY <2>2 DEF Window, StealInv, TypeOK
  <2>6. QED
    BY <2>2, <2>3, <2>4, <2>5 DEF Covered, Items, StealInv, TypeOK
<1>3. ASSUME NEW t \in Threads, Finish(t) PROVE Covered'
  <2>1. /\ UNCHANGED <<linearRange, next, rangeEnd>> /\ pc[t] \in {"ownItem", "stealItem"}
        /\ done' = done \cup {item[t]} /\ item' = [item EXCEPT ![t] = NoItem]
    BY <1>3 DEF Finish, jobVars
  <2>2. item[t] \in Items
    BY <2>1 DEF StealInv, ItemsHeld, ItemsOnce
  <2>3. \A u \in Threads : Window(u)' = Window(u)
    BY <2>1 DEF Window
  <2>4. QED
    BY <2>1, <2>2, <2>3 DEF Covered, Items, StealInv, TypeOK
<1>4. CASE UNCHANGED <<linearRange, rangeEnd, next, item, done>>
  BY <1>4 DEF Covered, Items, Window
<1>5. QED
  BY <1>1, <1>2, <1>3, <1>4
     DEF Next, Claim, Go, Terminated, Join, OwnEmpty, StealTake, StealEmpty, Leave, vars, jobVars

\* A range that was empty when a thread passed it is empty for ever.
LEMMA ExhaustedStep == LossInv /\ StealInv' /\ [Next]_vars => \A t \in Threads : Exhausted(t)'
<1> SUFFICES ASSUME StealInv, StealInv', \A t \in Threads : Exhausted(t), [Next]_vars
             PROVE  \A t \in Threads : Exhausted(t)'
  BY DEF LossInv
<1>1. threadsCount' = threadsCount /\ threadsCount \in Nat \ {0} /\ threadsCount <= MaxThreads
  BY ThreadsAssumption
     DEF Next, Claim, Go, Terminated, Join, OwnTake, OwnEmpty, StealTake, StealIndex, StealEmpty,
         Finish, Leave, vars, jobVars, StealInv, TypeOK
<1>2. \A v \in Threads : rangeLength[v] = 0 => rangeLength'[v] = 0
  <2>1. ASSUME NEW v \in Threads, NEW t \in Threads, Available(t), rangeLength[v] = 0,
               rangeLength' = [rangeLength EXCEPT ![t] = @ - 1]
        PROVE  rangeLength'[v] = 0
    BY <2>1 DEF Available, StealInv, TypeOK
  <2>2. ASSUME NEW v \in Threads, NEW t \in Threads, OwnTake(t), rangeLength[v] = 0
        PROVE  rangeLength'[v] = 0
    BY <2>1, <2>2 DEF OwnTake
  <2>3. ASSUME NEW v \in Threads, NEW t \in Threads, StealTake(t), rangeLength[v] = 0
        PROVE  rangeLength'[v] = 0
    BY <2>1, <2>3, VictimFacts DEF StealTake, StealInv
  <2>4. QED
    BY <2>2, <2>3
       DEF Next, Claim, Go, Terminated, Join, OwnEmpty, StealIndex, StealEmpty, Finish, Leave, vars
<1>3. \A t \in Threads : \A k \in Nat : (t + k) % threadsCount \in Threads
  <2>1. ASSUME NEW t \in Threads, NEW k \in Nat PROVE (t + k) % threadsCount \in Threads
    <3>1. t + k \in Nat
      BY DEF Threads
    <3>2. (t + k) % threadsCount \in 0 .. (threadsCount - 1)
      BY <3>1, <1>1, DivisionFacts
    <3>3. QED
      BY <3>2, <1>1, ThreadsAssumption DEF Threads
  <2>2. QED
    BY <2>1
<1>4. ASSUME NEW t \in Threads, pc'[t] = pc[t], offset'[t] = offset[t] PROVE Exhausted(t)'
  <2>1. \A k \in 0 .. (offset[t] - 1) : (t + k) % threadsCount \in Threads
    BY <1>3 DEF StealInv, TypeOK
  <2>2. QED
    BY <1>1, <1>2, <1>4, <2>1 DEF Exhausted
<1>5. ASSUME NEW t \in Threads, Join(t) \/ OwnTake(t) PROVE Exhausted(t)'
  <2>1. t < threadsCount /\ pc'[t] \in {"own", "ownItem"}
    <3>1. Exhausted(t)
      OBVIOUS
    <3>2. QED
      BY <1>5, <3>1 DEF Join, OwnTake, Goto, StealInv, TypeOK, Exhausted
  <2>2. t \in Nat
    BY DEF Threads
  <2>3. QED
    BY <2>1, <2>2, <1>1 DEF Exhausted
<1>6. ASSUME NEW t \in Threads, OwnEmpty(t) PROVE Exhausted(t)'
  <2>1. /\ pc[t] = "own" /\ pc'[t] = "scan" /\ offset'[t] = 1 /\ rangeLength[t] = 0
    BY <1>6 DEF OwnEmpty, Goto, StealInv, TypeOK
  <2>2. t < threadsCount /\ t \in Nat
    BY <2>1 DEF Exhausted, Threads
  <2>3. \A k \in 0 .. (offset'[t] - 1) : rangeLength'[(t + k) % threadsCount'] = 0
    <3>1. t % threadsCount = t
      BY <2>2, <1>1
    <3>2. \A k \in 0 .. 0 : k = 0 /\ t + k = t
      BY <2>2
    <3>3. QED
      BY <3>1, <3>2, <2>1, <1>1, <1>2
  <2>4. QED
    BY <2>1, <2>2, <2>3, <1>1 DEF Exhausted
<1>7. ASSUME NEW t \in Threads, StealTake(t) \/ StealIndex(t) PROVE Exhausted(t)'
  <2>1. /\ pc[t] \in {"scan", "index"} /\ pc'[t] \in {"index", "stealItem"}
        /\ offset'[t] = offset[t]
    BY <1>7 DEF StealTake, StealIndex, Scanning, Goto, StealInv, TypeOK
  <2>2. \A k \in 0 .. (offset[t] - 1) : (t + k) % threadsCount \in Threads
    BY <1>3 DEF StealInv, TypeOK
  <2>3. QED
    BY <1>1, <1>2, <2>1, <2>2 DEF Exhausted
<1>8. ASSUME NEW t \in Threads, Finish(t) PROVE Exhausted(t)'
  <2>1. /\ (pc[t] = "ownItem" /\ pc'[t] = "own") \/ (pc[t] = "stealItem" /\ pc'[t] = "scan")
        /\ offset'[t] = offset[t]
    BY <1>8 DEF Finish, Goto, StealInv, TypeOK
  <2>2. \A k \in 0 .. (offset[t] - 1) : (t + k) % threadsCount \in Threads
    BY <1>3 DEF StealInv, TypeOK
  <2>3. QED
    BY <1>1, <1>2, <2>1, <2>2 DEF Exhausted
<1>9. ASSUME NEW t \in Threads, StealEmpty(t) PROVE Exhausted(t)'
  <2>1. /\ pc[t] = "scan" /\ pc'[t] = "scan" /\ offset'[t] = offset[t] + 1
        /\ rangeLength[(t + offset[t]) % threadsCount] = 0 /\ offset[t] \in Nat
    BY <1>9 DEF StealEmpty, Scanning, NextOffset, Victim, StealInv, TypeOK
  <2>2. \A k \in 0 .. offset[t] : k = offset[t] \/ k \in 0 .. (offset[t] - 1)
    BY <2>1
  <2>3. \A k \in 0 .. offset[t] : rangeLength[(t + k) % threadsCount] = 0
    BY <2>1, <2>2 DEF Exhausted
  <2>4. \A k \in 0 .. (offset'[t] - 1) : rangeLength'[(t + k) % threadsCount'] = 0
    BY <2>1, <2>3, <1>1, <1>2, <1>3
  <2>5. QED
    BY <2>1, <2>4, <1>1, <1>2 DEF Exhausted
<1>10. ASSUME NEW t \in Threads, Leave(t) PROVE Exhausted(t)'
  <2>1. /\ pc[t] = "scan" /\ pc'[t] = "gone" /\ offset[t] >= threadsCount
        /\ offset[t] \in Nat /\ t \in 0 .. (threadsCount - 1)
    BY <1>10 DEF Leave, Goto, StealInv, TypeOK, Exhausted, Threads
  <2>2. ASSUME NEW v \in Threads PROVE rangeLength[v] = 0
    <3>1. CASE v < threadsCount
      <4>n. PICK n : n = threadsCount
        OBVIOUS
      <4>1. v \in 0 .. (n - 1) /\ t \in 0 .. (n - 1) /\ n \in Nat \ {0}
        BY <4>n, <3>1, <2>1, <1>1 DEF Threads
      <4>2. PICK k \in 0 .. (n - 1) : (t + k) % n = v
        BY <4>1, ModuloFacts, Zenon
      <4>3. k \in 0 .. (offset[t] - 1)
        BY <4>n, <4>2, <2>1, <1>1
      <4>4. QED
        BY <4>n, <4>2, <4>3, <2>1 DEF Exhausted
    <3>2. CASE v >= threadsCount
      BY <3>2 DEF Exhausted
    <3>3. QED
      BY <3>1, <3>2, <1>1 DEF Threads
  <2>3. QED
    BY <2>1, <2>2, <1>1, <1>2 DEF Exhausted
<1>11. ASSUME NEW t \in Threads, Join(t) \/ Claim(t) \/ Go(t)
       PROVE  \A u \in Threads \ {t} : pc'[u] = pc[u] /\ offset'[u] = offset[u]
  BY <1>11
     DEF Claim, Go, Join, OwnTake, OwnEmpty, StealTake, StealIndex, StealEmpty, Finish, Leave,
         Goto, StealInv, TypeOK
<1>12. ASSUME NEW t \in Threads, Join(t) \/ Claim(t) \/ Go(t)
       PROVE  \A u \in Threads : Exhausted(u)'
  <2>1. Exhausted(t)'
    BY <1>5, <1>6, <1>7, <1>8, <1>9, <1>10, <1>12 DEF Claim, Go
  <2>2. QED
    BY <2>1, <1>4, <1>11, <1>12
<1>13. CASE UNCHANGED vars
  BY <1>4, <1>13 DEF vars
<1>14. QED
  BY <1>12, <1>13 DEF Next, Terminated

\* Every step keeps both.
LEMMA LossInvStep == LossInv /\ [Next]_vars => LossInv'
BY StealInvStep, CoveredStep, ExhaustedStep DEF LossInv

\* Both hold at the start: the deal covers the range.
LEMMA LossInvInit == Init => LossInv
<1> SUFFICES ASSUME Init PROVE LossInv
  OBVIOUS
<1>1. StealInv
  BY StealInvInit
<1>2. /\ threadsCount \in 1 .. MaxThreads /\ linearRange \in Ranges /\ done = {}
      /\ \A t \in Threads : /\ pc[t] = "out" /\ next[t] = StartOf(t)
                            /\ rangeLength[t] = LengthOf(t)
                            /\ rangeEnd[t] = StartOf(t) + LengthOf(t)
  BY DEF Init
<1>3. Covered
  <2>1. ASSUME NEW i \in Items PROVE \E t \in Threads : i \in Window(t)
    BY <2>1, <1>2, DealCovers DEF Window, Items
  <2>2. QED
    BY <2>1, <1>2 DEF Covered
<1>4. \A t \in Threads : Exhausted(t)
  BY <1>2 DEF Exhausted, LengthOf
<1>5. QED
  BY <1>1, <1>3, <1>4 DEF LossInv

\* When everybody has left, an item that was in no range and in nobody's hands
\* has been processed.
LEMMA LossInvSuffices == LossInv => NothingLost
<1> SUFFICES ASSUME LossInv, Over PROVE done = Items
  BY DEF NothingLost
<1>1. \A t \in Threads : rangeLength[t] = 0 /\ pc[t] \in {"out", "gone"}
  <2>1. 0 \in Threads
    BY ThreadsAssumption DEF Threads
  <2>2. QED
    BY <2>1 DEF Over, LossInv, Exhausted
<1>2. \A t \in Threads : Cardinality(Pending(t)) = 0
  <2>1. \A t \in Threads : Pending(t) = {}
    BY <1>1 DEF Pending
  <2>2. QED
    BY <2>1, PendingFacts
<1>3. \A t \in Threads : rangeEnd[t] = next[t] /\ Window(t) = {}
  <2>1. \A t \in Threads : rangeEnd[t] - next[t] = 0 + 0 /\ rangeEnd[t] \in Int /\ next[t] \in Int
    BY <1>1, <1>2 DEF LossInv, StealInv, RangeAccounting, TypeOK
  <2>2. QED
    BY <2>1 DEF Window
<1>4. \A t \in Threads : item[t] = NoItem
  BY <1>1 DEF LossInv, StealInv, ItemsHeld
<1>5. \A i \in Items : i # NoItem
  BY RangesAssumption DEF Items, LossInv, StealInv, TypeOK
<1>6. QED
  BY <1>3, <1>4, <1>5 DEF LossInv, Covered

\* When every thread that took part has left, the caller with it, every item
\* has been processed, those dealt out to threads that never came included.
THEOREM NothingIsLost == Spec => []NothingLost
BY LossInvInit, LossInvStep, LossInvSuffices, PTL DEF Spec

-----------------------------------------------------------------------------
(* The loop the threads share.                                             *)

\* The items nobody has been handed, and the threads that have reserved one.
Open == {i \in Items : i \notin done /\ \A t \in Threads : item[t] # i}
Reserved == {t \in Threads : pc[t] = "index"}

\* The reservations against a range are numbered from one ...
NumberOf(v) == CHOOSE f : f \in Bijection(Pending(v), 1 .. Cardinality(Pending(v)))

\* ... and stand for the items at the front of its window.
SlotOf(u) == next[Victim(u)] + NumberOf(Victim(u))[u] - 1

LEMMA NumberFacts ==
    ASSUME NEW v \in Threads
    PROVE  /\ \A u \in Pending(v) : NumberOf(v)[u] \in 1 .. Cardinality(Pending(v))
           /\ \A u, w \in Pending(v) : NumberOf(v)[u] = NumberOf(v)[w] => u = w
           /\ \A k \in 1 .. Cardinality(Pending(v)) : \E u \in Pending(v) : NumberOf(v)[u] = k
<1>1. ExistsBijection(1 .. Cardinality(Pending(v)), Pending(v))
  BY PendingFacts, FS_CardinalityType
<1>2. ExistsBijection(Pending(v), 1 .. Cardinality(Pending(v)))
  BY <1>1, Fun_ExistsBijSymmetric
<1>3. \E f : f \in Bijection(Pending(v), 1 .. Cardinality(Pending(v)))
  BY <1>2 DEF ExistsBijection
<1>4. NumberOf(v) \in Bijection(Pending(v), 1 .. Cardinality(Pending(v)))
  BY <1>3, Zenon DEF NumberOf
<1>5. /\ NumberOf(v) \in [Pending(v) -> 1 .. Cardinality(Pending(v))]
      /\ IsInjective(NumberOf(v))
      /\ \A k \in 1 .. Cardinality(Pending(v)) : \E u \in Pending(v) : NumberOf(v)[u] = k
  BY <1>4 DEF Bijection, Injection, Surjection
<1>6. \A u, w \in Pending(v) : NumberOf(v)[u] = NumberOf(v)[w] => u = w
  BY <1>5 DEF IsInjective
<1>7. QED
  BY <1>5, <1>6

\* What nobody has been handed is what the windows hold.
LEMMA OpenFacts ==
    ASSUME LossInv
    PROVE  /\ Open = {i \in Items : \E t \in Threads : i \in Window(t)}
           /\ \A t \in Threads : Window(t) \subseteq Open
           /\ Open \subseteq Items /\ IsFiniteSet(Open) /\ Cardinality(Open) \in Nat
           /\ IsFiniteSet(Reserved) /\ Cardinality(Reserved) \in Nat
<1>1. \A t \in Threads : \A i \in Window(t) : i \in Items /\ i \in Open
  BY WindowInside DEF LossInv, StealInv, Fresh, Open
<1>2. \A i \in Open : \E t \in Threads : i \in Window(t)
  BY DEF LossInv, Covered, Open
<1>3. IsFiniteSet(Items)
  <2>1. 0 \in Int /\ linearRange - 1 \in Int
    BY RangesAssumption DEF LossInv, StealInv, TypeOK
  <2>2. QED
    BY <2>1, FS_Interval DEF Items
<1>4. Open \subseteq Items
  BY DEF Open
<1>5. IsFiniteSet(Threads) /\ Reserved \subseteq Threads
  BY FS_Interval, ThreadsAssumption DEF Threads, Reserved
<1>6. QED
  BY <1>1, <1>2, <1>3, <1>4, <1>5, FS_Subset, FS_CardinalityType

\* Each reservation stands for an item of its own, at the front of a window.
LEMMA SlotFacts ==
    ASSUME LossInv
    PROVE  /\ \A u \in Reserved : /\ Victim(u) \in Threads /\ u \in Pending(Victim(u))
                                  /\ SlotOf(u) \in Window(Victim(u))
                                  /\ SlotOf(u) < rangeEnd[Victim(u)] - rangeLength[Victim(u)]
           /\ \A u, w \in Reserved : SlotOf(u) = SlotOf(w) => u = w
<1>1. ASSUME NEW u \in Reserved
      PROVE  /\ Victim(u) \in Threads /\ u \in Pending(Victim(u))
             /\ SlotOf(u) \in Window(Victim(u))
             /\ SlotOf(u) < rangeEnd[Victim(u)] - rangeLength[Victim(u)]
  <2>1. Victim(u) \in Threads /\ u \in Pending(Victim(u))
    BY VictimFacts DEF Reserved, Pending, LossInv, StealInv
  <2>2. PICK v \in Threads : v = Victim(u) /\ u \in Pending(v)
    BY <2>1
  <2>3. NumberOf(v)[u] \in 1 .. Cardinality(Pending(v))
    BY <2>2, NumberFacts
  <2>4. /\ rangeEnd[v] - next[v] = rangeLength[v] + Cardinality(Pending(v))
        /\ rangeEnd[v] \in Int /\ next[v] \in Nat /\ rangeLength[v] \in Nat
        /\ Cardinality(Pending(v)) \in Nat
    BY PendingFacts DEF LossInv, StealInv, RangeAccounting, TypeOK
  <2>5. SlotOf(u) = next[v] + NumberOf(v)[u] - 1
    BY <2>2 DEF SlotOf
  <2>6. /\ next[v] <= SlotOf(u) /\ SlotOf(u) < rangeEnd[v] - rangeLength[v]
        /\ SlotOf(u) \in Int /\ SlotOf(u) < rangeEnd[v]
    BY <2>3, <2>4, <2>5
  <2>7. QED
    BY <2>2, <2>6 DEF Window
<1>2. ASSUME NEW u \in Reserved, NEW w \in Reserved, SlotOf(u) = SlotOf(w) PROVE u = w
  <2>1. PICK v \in Threads : v = Victim(u) /\ u \in Pending(v) /\ SlotOf(u) \in Window(v)
    BY <1>1
  <2>2. Victim(w) = v
    BY <1>1, <1>2, <2>1, WindowsApart DEF LossInv
  <2>3. w \in Pending(v)
    BY <1>1, <2>2
  <2>4. NumberOf(v)[u] \in Int /\ NumberOf(v)[w] \in Int /\ next[v] \in Int
    BY <2>1, <2>3, NumberFacts DEF LossInv, StealInv, TypeOK
  <2>5. NumberOf(v)[u] = NumberOf(v)[w]
    BY <1>2, <2>1, <2>2, <2>4 DEF SlotOf
  <2>6. QED
    BY <2>1, <2>3, <2>5, NumberFacts
<1>3. QED
  BY <1>1, <1>2

\* While a range has something left, there are more items than reservations.
LEMMA MoreOpen ==
    ASSUME LossInv, NEW v \in Threads, rangeLength[v] > 0
    PROVE  Cardinality(Open) - Cardinality(Reserved) > 0
<1> DEFINE x == rangeEnd[v] - 1
<1>1. x \in Window(v) /\ x \in Open
  <2>1. /\ rangeEnd[v] - next[v] = rangeLength[v] + Cardinality(Pending(v))
        /\ rangeEnd[v] \in Int /\ next[v] \in Nat /\ rangeLength[v] \in Nat
        /\ Cardinality(Pending(v)) \in Nat
    BY PendingFacts DEF LossInv, StealInv, RangeAccounting, TypeOK
  <2>2. x \in Window(v)
    BY <2>1 DEF Window
  <2>3. QED
    BY <2>2, OpenFacts
<1>2. ASSUME NEW u \in Reserved PROVE SlotOf(u) \in Open \ {x}
  <2>1. Victim(u) \in Threads /\ SlotOf(u) \in Window(Victim(u))
    BY SlotFacts
  <2>2. SlotOf(u) \in Open
    BY <2>1, OpenFacts
  <2>3. ASSUME SlotOf(u) = x PROVE FALSE
    <3>1. Victim(u) = v
      BY <1>1, <2>1, <2>3, WindowsApart DEF LossInv
    <3>2. SlotOf(u) < rangeEnd[v] - rangeLength[v]
      BY <3>1, SlotFacts
    <3>3. QED
      BY <2>3, <3>2 DEF LossInv, StealInv, TypeOK
  <2>4. QED
    BY <2>2, <2>3
<1>3. [u \in Reserved |-> SlotOf(u)] \in Injection(Reserved, Open \ {x})
  <2>1. [u \in Reserved |-> SlotOf(u)] \in [Reserved -> Open \ {x}]
    BY <1>2
  <2>2. IsInjective([u \in Reserved |-> SlotOf(u)])
    BY SlotFacts DEF IsInjective
  <2>3. QED
    BY <2>1, <2>2 DEF Injection
<1>4. IsFiniteSet(Open \ {x}) /\ Cardinality(Open \ {x}) = Cardinality(Open) - 1
  BY <1>1, OpenFacts, FS_RemoveElement
<1>5. Cardinality(Reserved) <= Cardinality(Open \ {x})
  BY <1>3, <1>4, FS_Injection
<1>6. QED
  BY <1>4, <1>5, OpenFacts

\* When every range is used up, every item left is reserved.
LEMMA AllReserved ==
    ASSUME LossInv, \A v \in Threads : rangeLength[v] = 0
    PROVE  Cardinality(Open) - Cardinality(Reserved) = 0
<1>1. [u \in Reserved |-> SlotOf(u)] \in Injection(Reserved, Open)
  <2>1. \A u \in Reserved : SlotOf(u) \in Open
    BY SlotFacts, OpenFacts
  <2>2. QED
    BY <2>1, SlotFacts DEF Injection, IsInjective
<1>2. ASSUME NEW i \in Open PROVE \E u \in Reserved : SlotOf(u) = i
  <2>1. PICK v \in Threads : i \in Window(v)
    BY OpenFacts
  <2>2. /\ rangeEnd[v] - next[v] = Cardinality(Pending(v))
        /\ rangeEnd[v] \in Int /\ next[v] \in Nat /\ Cardinality(Pending(v)) \in Nat
    <3>1. rangeEnd[v] - next[v] = rangeLength[v] + Cardinality(Pending(v))
      BY DEF LossInv, StealInv, RangeAccounting
    <3>2. QED
      BY <3>1, PendingFacts DEF LossInv, StealInv, TypeOK
  <2>3. i - next[v] + 1 \in 1 .. Cardinality(Pending(v)) /\ i \in Int
    BY <2>1, <2>2 DEF Window
  <2>4. PICK u \in Pending(v) : NumberOf(v)[u] = i - next[v] + 1
    BY <2>3, NumberFacts
  <2>5. u \in Reserved /\ Victim(u) = v
    BY <2>4 DEF Pending, Reserved
  <2>6. SlotOf(u) = i
    BY <2>2, <2>3, <2>4, <2>5 DEF SlotOf
  <2>7. QED
    BY <2>5, <2>6
<1>3. [u \in Reserved |-> SlotOf(u)] \in Surjection(Reserved, Open)
  BY <1>1, <1>2 DEF Injection, Surjection
<1>4. Cardinality(Reserved) = Cardinality(Open)
  BY <1>1, <1>3, OpenFacts, FS_Injection
<1>5. QED
  BY <1>4, OpenFacts

Gone == {t \in Threads : pc[t] = "gone"}

LEMMA LoopCount == \A S : Loop!Cardinality(S) = Cardinality(S)
BY DEF Loop!Cardinality, Cardinality

LEMMA LoopUnreserved == Loop!Unreserved = Cardinality(Open) - Cardinality(Reserved)
BY LoopCount DEF Loop!Unreserved, Open, Reserved

\* The loop's items are those of every job.
LEMMA LoopItems == TypeOK => Items \subseteq UNION {0 .. (n - 1) : n \in Ranges}
BY DEF TypeOK, Items

\* A step that hands out, finishes and reserves nothing.
LEMMA LoopStutters ==
    ASSUME Open' = Open, Reserved' = Reserved, Gone' = Gone, UNCHANGED <<item, done>>
    PROVE  UNCHANGED Loop!loopVars
BY DEF Open, Reserved, Gone, Loop!loopVars

LEMMA LoopTakes ==
    ASSUME LossInv, LossInv', NEW t \in Threads, OwnTake(t)
    PROVE  Loop!LoopNext
<1>i. PICK i : i = next[t]
  OBVIOUS
<1>1. /\ pc[t] = "own" /\ pc'[t] = "ownItem" /\ \A u \in Threads \ {t} : pc'[u] = pc[u]
      /\ rangeLength[t] > 0 /\ linearRange' = linearRange /\ done' = done
      /\ item' = [item EXCEPT ![t] = i] /\ item[t] = NoItem
  BY <1>i DEF OwnTake, Available, Goto, jobVars, LossInv, StealInv, ItemsHeld, TypeOK
<1>2. i \in Window(t)
  BY <1>i, <1>1, PendingFacts DEF LossInv, StealInv, TypeOK, RangeAccounting, Window
<1>3. i \in Open /\ i \in UNION {0 .. (n - 1) : n \in Ranges}
  BY <1>2, OpenFacts, LoopItems DEF LossInv, StealInv
<1>4. Open' = Open \ {i}
  <2>1. \A k \in Items : k # NoItem
    BY RangesAssumption DEF Items, LossInv, StealInv, TypeOK
  <2>2. ASSUME NEW k \in Items
        PROVE  (\A u \in Threads : item'[u] # k) <=> (k # i /\ \A u \in Threads : item[u] # k)
    BY <1>1, <2>1 DEF LossInv, StealInv, TypeOK
  <2>3. QED
    BY <1>1, <2>2 DEF Open, Items
<1>5. Reserved' = Reserved /\ Gone' = Gone /\ t \notin Reserved /\ t \notin Gone
  BY <1>1 DEF Reserved, Gone
<1>6. Loop!Unreserved > 0
  BY <1>1, MoreOpen, LoopUnreserved
<1>7. Loop!ReserveAndHandOut(t, i)
  BY <1>1, <1>3, <1>4, <1>5, <1>6 DEF Loop!ReserveAndHandOut, Open, Reserved, Gone
<1>8. QED
  BY <1>3, <1>7, Zenon DEF Loop!LoopNext

LEMMA LoopReserves ==
    ASSUME LossInv, LossInv', NEW t \in Threads, StealTake(t)
    PROVE  Loop!LoopNext
<1>1. /\ pc[t] = "scan" /\ pc'[t] = "index" /\ \A u \in Threads \ {t} : pc'[u] = pc[u]
      /\ Victim(t) \in Threads /\ rangeLength[Victim(t)] > 0 /\ linearRange' = linearRange
      /\ done' = done /\ item' = item /\ item[t] = NoItem
  BY VictimFacts
     DEF StealTake, Scanning, Available, Goto, jobVars, LossInv, StealInv, ItemsHeld, TypeOK
<1>2. /\ Open' = Open /\ Reserved' = Reserved \cup {t} /\ Gone' = Gone
      /\ t \notin Reserved /\ t \notin Gone
  BY <1>1 DEF Open, Items, Reserved, Gone
<1>3. Loop!Unreserved > 0
  BY <1>1, MoreOpen, LoopUnreserved
<1>4. Loop!Reserve(t)
  BY <1>1, <1>2, <1>3 DEF Loop!Reserve, Open, Reserved, Gone
<1>5. QED
  BY <1>4 DEF Loop!LoopNext

LEMMA LoopHandsOut ==
    ASSUME LossInv, LossInv', NEW t \in Threads, StealIndex(t)
    PROVE  Loop!LoopNext
<1>v. PICK v \in Threads : v = Victim(t) /\ pc[t] = "index" /\ t \in Pending(v)
  BY VictimFacts DEF StealIndex, Pending, LossInv, StealInv
<1>i. PICK i : i = rangeEnd[v] - 1
  OBVIOUS
<1>1. /\ pc'[t] = "stealItem" /\ \A u \in Threads \ {t} : pc'[u] = pc[u]
      /\ linearRange' = linearRange /\ done' = done
      /\ item' = [item EXCEPT ![t] = i] /\ item[t] = NoItem
  BY <1>v, <1>i DEF StealIndex, StolenItem, Goto, jobVars, LossInv, StealInv, ItemsHeld, TypeOK
<1>2. i \in Window(v)
  <2>1. Cardinality(Pending(v)) \in Nat /\ Cardinality(Pending(v)) # 0
    BY <1>v, PendingFacts
  <2>2. QED
    BY <1>i, <2>1 DEF LossInv, StealInv, TypeOK, RangeAccounting, Window
<1>3. i \in Open /\ i \in UNION {0 .. (n - 1) : n \in Ranges}
  BY <1>2, OpenFacts, LoopItems DEF LossInv, StealInv
<1>4. Open' = Open \ {i}
  <2>1. \A k \in Items : k # NoItem
    BY RangesAssumption DEF Items, LossInv, StealInv, TypeOK
  <2>2. ASSUME NEW k \in Items
        PROVE  (\A u \in Threads : item'[u] # k) <=> (k # i /\ \A u \in Threads : item[u] # k)
    BY <1>1, <2>1 DEF LossInv, StealInv, TypeOK
  <2>3. QED
    BY <1>1, <2>2 DEF Open, Items
<1>5. Reserved' = Reserved \ {t} /\ Gone' = Gone /\ t \in Reserved
  BY <1>v, <1>1 DEF Reserved, Gone
<1>6. Loop!HandOut(t, i)
  BY <1>1, <1>3, <1>4, <1>5 DEF Loop!HandOut, Open, Reserved, Gone
<1>7. QED
  BY <1>3, <1>6, Zenon DEF Loop!LoopNext

LEMMA LoopCompletes ==
    ASSUME LossInv, LossInv', NEW t \in Threads, Finish(t)
    PROVE  Loop!LoopNext
<1>1. /\ pc[t] \in {"ownItem", "stealItem"} /\ pc'[t] \in {"own", "scan"}
      /\ \A u \in Threads \ {t} : pc'[u] = pc[u]
      /\ linearRange' = linearRange /\ done' = done \cup {item[t]}
      /\ item' = [item EXCEPT ![t] = NoItem] /\ item[t] # NoItem
  BY DEF Finish, Goto, jobVars, LossInv, StealInv, ItemsHeld, TypeOK
<1>2. Open' = Open
  <2>1. \A k \in Items : k # NoItem
    BY RangesAssumption DEF Items, LossInv, StealInv, TypeOK
  <2>2. \A k \in Items :
            (k \notin done' /\ \A u \in Threads : item'[u] # k)
            <=> (k \notin done /\ \A u \in Threads : item[u] # k)
    BY <1>1, <2>1 DEF LossInv, StealInv, TypeOK
  <2>3. QED
    BY <1>1, <2>2 DEF Open, Items
<1>3. Reserved' = Reserved /\ Gone' = Gone
  BY <1>1 DEF Reserved, Gone
<1>4. Loop!Complete(t)
  BY <1>1, <1>2, <1>3 DEF Loop!Complete, Open, Reserved, Gone
<1>5. QED
  BY <1>4 DEF Loop!LoopNext

LEMMA LoopQuits ==
    ASSUME LossInv, LossInv', NEW t \in Threads, Leave(t)
    PROVE  Loop!LoopNext
<1>1. /\ pc[t] = "scan" /\ pc'[t] = "gone" /\ \A u \in Threads \ {t} : pc'[u] = pc[u]
      /\ linearRange' = linearRange /\ rangeLength' = rangeLength
      /\ done' = done /\ item' = item /\ item[t] = NoItem
  BY DEF Leave, Goto, jobVars, LossInv, StealInv, ItemsHeld, TypeOK
<1>2. \A v \in Threads : rangeLength[v] = 0
  BY <1>1 DEF LossInv, Exhausted
<1>3. /\ Open' = Open /\ Reserved' = Reserved /\ Gone' = Gone \cup {t}
      /\ t \notin Reserved /\ t \notin Gone
  BY <1>1 DEF Open, Items, Reserved, Gone
<1>4. Loop!Unreserved = 0
  BY <1>2, AllReserved, LoopUnreserved
<1>5. Loop!Quit(t)
  BY <1>1, <1>3, <1>4 DEF Loop!Quit, Open, Reserved, Gone
<1>6. QED
  BY <1>5 DEF Loop!LoopNext

\* The steps that no claim, theft or end of an item is seen in.
LEMMA LoopSkips ==
    ASSUME LossInv, NEW t \in Threads, Join(t) \/ OwnEmpty(t) \/ StealEmpty(t)
    PROVE  UNCHANGED Loop!loopVars
<1>1. /\ pc[t] \in {"out", "own", "scan"} /\ pc'[t] \in {"own", "scan"}
      /\ \A u \in Threads \ {t} : pc'[u] = pc[u]
      /\ linearRange' = linearRange /\ UNCHANGED <<item, done>>
  BY DEF Join, OwnEmpty, StealEmpty, Scanning, Goto, jobVars, LossInv, StealInv, TypeOK
<1>2. Open' = Open /\ Reserved' = Reserved /\ Gone' = Gone
  BY <1>1 DEF Open, Items, Reserved, Gone
<1>3. QED
  BY <1>1, <1>2, LoopStutters

LEMMA LoopStep ==
    LossInv /\ LossInv' /\ [Next]_vars => [Loop!LoopNext]_(Loop!loopVars)
<1> SUFFICES ASSUME LossInv, LossInv', [Next]_vars
             PROVE  Loop!LoopNext \/ UNCHANGED Loop!loopVars
  OBVIOUS
<1>1. CASE UNCHANGED vars
  <2>1. Open' = Open /\ Reserved' = Reserved /\ Gone' = Gone
    BY <1>1 DEF vars, Open, Items, Reserved, Gone
  <2>2. QED
    BY <1>1, <2>1, LoopStutters DEF vars
<1>2. QED
  BY <1>1, LoopTakes, LoopReserves, LoopHandsOut, LoopCompletes, LoopQuits, LoopSkips
     DEF Next, Claim, Go, Terminated

LEMMA LoopStart == Init => Loop!LoopInit
<1> SUFFICES ASSUME Init PROVE Loop!LoopInit
  OBVIOUS
<1>1. Open \subseteq UNION {0 .. (n - 1) : n \in Ranges}
  BY LoopItems, TypeOKInit DEF Open
<1>2. Reserved = {} /\ Gone = {} /\ done = {} /\ item = [t \in Threads |-> NoItem]
  BY DEF Init, Reserved, Gone
<1>3. QED
  BY <1>1, <1>2 DEF Loop!LoopInit, Open, Reserved, Gone

\* The ranges, the two steps of a theft and the order in which a thread visits
\* the others are one loop over the items: every item is handed out once, to a
\* thread that reserved one, and a thread leaves when none is left to reserve.
THEOREM StealingImplementsLoop == Spec => ImplementsLoop
<1>1. Spec => []LossInv
  BY LossInvInit, LossInvStep, PTL DEF Spec
<1>2. QED
  BY <1>1, LoopStart, LoopStep, PTL DEF Spec, ImplementsLoop, Loop!LoopSpec
===============================================================================
