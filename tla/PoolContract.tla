---------------------------- MODULE PoolContract ----------------------------
(***************************************************************************)
(* What include/pthreadpool.h promises the callers of a thread pool:       *)
(* concurrent calls are serialized, every item of a call is processed      *)
(* once, and "when the function returns, all items have been processed and *)
(* the thread pool is ready for a new task".  A call never has more items  *)
(* in progress than the pool has threads, a call leaves the number of      *)
(* threads as it found it, and a destroyed pool runs nothing.              *)
(***************************************************************************)
EXTENDS Integers, FiniteSets

CONSTANTS
    Clients,    \* the threads that call the pool
    Helpers,    \* the threads that may process items besides the client
    Sizes,      \* the numbers of threads a pool can be set to
    Jobs,       \* the numbers of items a call can have
    NoClient    \* no call is in progress

VARIABLES
    owner,    \* the client whose call is in progress, or NoClient
    left,     \* items of that call nobody has begun to process
    busy,     \* the threads that are processing an item
    size,     \* the number of threads of the pool, read when no call changes it
    closed    \* the pool has been destroyed

contractVars == <<owner, left, busy, size, closed>>

ContractInit ==
    /\ owner = NoClient
    /\ left = 0
    /\ busy = {}
    /\ size \in Sizes
    /\ closed = FALSE

Begin(c, n) ==
    /\ ~closed
    /\ owner = NoClient
    /\ owner' = c
    /\ left' = n
    /\ UNCHANGED <<busy, size, closed>>

Take(p) ==
    /\ owner # NoClient
    /\ left > 0
    /\ p \in {owner} \cup Helpers
    /\ p \notin busy
    /\ Cardinality(busy) < size
    /\ left' = left - 1
    /\ busy' = busy \cup {p}
    /\ UNCHANGED <<owner, size, closed>>

Finish(p) ==
    /\ p \in busy
    /\ busy' = busy \ {p}
    /\ UNCHANGED <<owner, left, size, closed>>

\* The call may return once every item is processed.
End ==
    /\ owner # NoClient
    /\ left = 0
    /\ busy = {}
    /\ owner' = NoClient
    /\ UNCHANGED <<left, busy, size, closed>>

Resize(n) ==
    /\ ~closed
    /\ owner = NoClient
    /\ size' = n
    /\ UNCHANGED <<owner, left, busy, closed>>

Close ==
    /\ ~closed
    /\ owner = NoClient
    /\ closed' = TRUE
    /\ UNCHANGED <<owner, left, busy, size>>

ContractNext ==
    \/ \E c \in Clients, n \in Jobs : Begin(c, n)
    \/ \E p \in Clients \cup Helpers : Take(p) \/ Finish(p)
    \/ End
    \/ \E n \in Sizes : Resize(n)
    \/ Close

ContractSpec == ContractInit /\ [][ContractNext]_contractVars
=============================================================================
