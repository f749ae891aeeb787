----------------------------- MODULE ParallelFor -----------------------------
(***************************************************************************)
(* A parallel loop over a set of items, as the threads that share it see   *)
(* it.  A thread first reserves an item and then learns which one it is;   *)
(* every item is handed out once; and a thread only leaves when no item is *)
(* left to reserve.  This is the promise ThreadPool takes for granted when *)
(* it counts the unclaimed items of a job and lets a thread out at zero.   *)
(***************************************************************************)
EXTENDS Integers, FiniteSets

CONSTANTS
    Threads,   \* the threads that may take part
    Items,     \* the items of the loop
    NoItem     \* the thread is not processing one

VARIABLES
    open,      \* items that have not been handed out
    reserved,  \* threads that hold a reservation
    doing,     \* the item each thread is processing
    done,      \* the items that have been processed
    gone       \* the threads that have left the loop

loopVars == <<open, reserved, doing, done, gone>>

LoopInit ==
    /\ open \in SUBSET Items
    /\ reserved = {}
    /\ doing = [t \in Threads |-> NoItem]
    /\ done = {}
    /\ gone = {}

\* The items that can still be reserved.
Unreserved == Cardinality(open) - Cardinality(reserved)

Reserve(t) ==
    /\ t \notin gone \cup reserved
    /\ doing[t] = NoItem
    /\ Unreserved > 0
    /\ reserved' = reserved \cup {t}
    /\ UNCHANGED <<open, doing, done, gone>>

HandOut(t, i) ==
    /\ t \in reserved
    /\ i \in open
    /\ reserved' = reserved \ {t}
    /\ open' = open \ {i}
    /\ doing' = [doing EXCEPT ![t] = i]
    /\ UNCHANGED <<done, gone>>

\* Reserving and learning the item at once.
ReserveAndHandOut(t, i) ==
    /\ t \notin gone \cup reserved
    /\ doing[t] = NoItem
    /\ Unreserved > 0
    /\ i \in open
    /\ open' = open \ {i}
    /\ doing' = [doing EXCEPT ![t] = i]
    /\ UNCHANGED <<reserved, done, gone>>

Complete(t) ==
    /\ doing[t] # NoItem
    /\ done' = done \cup {doing[t]}
    /\ doing' = [doing EXCEPT ![t] = NoItem]
    /\ UNCHANGED <<open, reserved, gone>>

Quit(t) ==
    /\ t \notin gone \cup reserved
    /\ doing[t] = NoItem
    /\ Unreserved = 0
    /\ gone' = gone \cup {t}
    /\ UNCHANGED <<open, reserved, doing, done>>

LoopNext ==
    \E t \in Threads :
        \/ Reserve(t) \/ Complete(t) \/ Quit(t)
        \/ \E i \in Items : HandOut(t, i) \/ ReserveAndHandOut(t, i)

LoopSpec == LoopInit /\ [][LoopNext]_loopVars
==============================================================================
